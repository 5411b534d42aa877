------------------------ MODULE PropertyLifecycleProofs ------------------------
(***************************************************************************)
(* Proofs about a property through create, read and update, for properties *)
(* of every kind and whatever is configured or comes from the API.         *)
(***************************************************************************)
EXTENDS PropertyLifecycleProps, SortedSetsProofs, SequenceTheorems

\* What the API has conforms to the document, be it from Terraform or not.
RemoteInv ==
    /\ schema \in Schemas
    /\ config.subject \in ConfigValues[schema]
    /\ remote = Both(remote.subject, remote.other)
    /\ remote.subject = Nil \/ Conforming(schema, remote.subject)

-----------------------------------------------------------------------------
(* Values                                                                  *)

LEMMA JsonOfNil == Json(Nil) = Nil
BY DEF Json, JsonItem, JsonLeaf, Nil

\* The shapes of values.
LEMMA TextIs ==
    ASSUME NEW v, IsText(v)
    PROVE  /\ v[1] = "string"
           /\ v[2] \in {"int", "float", "padded"} => v[3] \in Int
<1>1. PICK f, x : v = Text(f, x)
  BY DEF IsText
<1>2. v[1] = "string"
  BY <1>1 DEF Text
<1> QED BY <1>2 DEF IsText

LEMMA MapIs ==
    ASSUME NEW m, IsMap(m)
    PROVE  m = Map(m[2]) /\ m[1] = "map"
<1>1. PICK f : m = Map(f)
  BY DEF IsMap
<1> QED BY <1>1 DEF Map

LEMMA FloatIs ==
    ASSUME NEW x
    PROVE  Float(x)[1] = "float" /\ Float(x)[2] = x
BY DEF Float

LEMMA ConformingIs ==
    ASSUME NEW type, NEW v, ConformingLeaf(type, v)
    PROVE  /\ v[1] \in {"nil", "string", "bool", "float"}
           /\ v[1] = "float" =>
                 /\ v = Float(v[2]) /\ v[2] \in Int
                 /\ type = "integer" => v[2] % 1000 = 0
                 /\ type \notin {"string", "boolean"}
<1>1. CASE v = Nil
  BY <1>1 DEF Nil
<1>2. CASE v # Nil /\ type = "string"
  BY <1>2 DEF ConformingLeaf, ConformingValue
<1>3. CASE v # Nil /\ type = "boolean"
  <2>1. v = <<"bool", v[2]>>
    BY <1>3 DEF ConformingLeaf, ConformingValue
  <2>2. v[1] = "bool"
    BY <2>1
  <2> QED BY <2>2
<1>4. CASE v # Nil /\ type \notin {"string", "boolean"}
  <2>1. v = Float(v[2]) /\ v[2] \in Int /\ (type = "integer" => v[2] % 1000 = 0)
    BY <1>4 DEF ConformingLeaf, ConformingValue
  <2>2. v[1] = "float"
    BY <2>1, FloatIs
  <2> QED BY <1>4, <2>1, <2>2
<1> QED BY <1>1, <1>2, <1>3, <1>4

LEMMA TextIsParsed ==
    ASSUME NEW type \in Primitives, NEW v, IsText(v), Parsed(type, v) # Failed
    PROVE  /\ ConformingValue(type, JsonLeaf(Parsed(type, v)))
           /\ Parsed(type, v)[1] # "map"
<1>0. v[1] = "string" /\ (v[2] \in {"int", "float", "padded"} => v[3] \in Int)
  BY TextIs
<1>1. CASE type = "string"
  BY <1>0, <1>1 DEF Parsed, ConformingValue, JsonLeaf
<1>2. CASE type = "integer"
  <2>1. v[2] = "int" /\ v[3] \in Int /\ Parsed(type, v) = <<"int64", v[3]>>
    BY <1>0, <1>2 DEF Parsed
  <2>2. JsonLeaf(Parsed(type, v)) = Float(1000 * v[3])
    BY <2>1 DEF JsonLeaf
  <2>3. (1000 * v[3]) % 1000 = 0 /\ 1000 * v[3] \in Int
    BY <2>1
  <2> QED BY <1>2, <2>1, <2>2, <2>3, FloatIs DEF ConformingValue
<1>3. CASE type = "number"
  <2>1. PICK x \in Int : Parsed(type, v) = Float(x)
    BY <1>0, <1>3 DEF Parsed
  <2>2. JsonLeaf(Float(x)) = Float(x)
    BY DEF JsonLeaf, Float
  <2> QED BY <1>3, <2>1, <2>2, FloatIs DEF ConformingValue
<1>4. CASE type = "boolean"
  <2>1. Parsed(type, v) = <<"bool", v[3]>>
    BY <1>4 DEF Parsed
  <2> QED BY <1>4, <2>1 DEF JsonLeaf, ConformingValue
<1> QED BY <1>1, <1>2, <1>3, <1>4 DEF Primitives

\* What Terraform holds of a primitive is sent as it is.
LEMMA TypedIsSent ==
    ASSUME NEW type \in Primitives, NEW v, TypedLeaf(type, v)
    PROVE  /\ PopulateLeaf(type, v) = v
           /\ v[1] \in {"string", "int", "float", "bool"}
           /\ ConformingValue(type, JsonLeaf(v))
           /\ JsonLeaf(v)[1] \in {"string", "float", "bool"}
           /\ type # "integer" => JsonLeaf(v) = v
<1>1. CASE type = "string"
  BY <1>1 DEF TypedLeaf, PopulateLeaf, Parsed, JsonLeaf, ConformingValue
<1>2. CASE type = "integer"
  <2>1. v = <<"int", v[2]>> /\ v[2] \in Int
    BY <1>2 DEF TypedLeaf, GoInt
  <2>2. v[1] = "int"
    BY <2>1
  <2>3. JsonLeaf(v) = Float(1000 * v[2])
    BY <2>2 DEF JsonLeaf
  <2>4. (1000 * v[2]) % 1000 = 0 /\ 1000 * v[2] \in Int
    BY <2>1
  <2> QED BY <1>2, <2>2, <2>3, <2>4, FloatIs DEF ConformingValue, PopulateLeaf
<1>3. CASE type = "number"
  <2>1. v[1] = "float" /\ v = Float(v[2]) /\ v[2] \in Int
    BY <1>3, FloatIs DEF TypedLeaf
  <2>2. JsonLeaf(v) = v /\ PopulateLeaf(type, v) = v
    BY <2>1 DEF JsonLeaf, PopulateLeaf
  <2> QED BY <1>3, <2>1, <2>2 DEF ConformingValue
<1>4. CASE type = "boolean"
  <2>1. v = <<"bool", v[2]>>
    BY <1>4 DEF TypedLeaf
  <2>2. v[1] = "bool"
    BY <2>1
  <2>3. JsonLeaf(v) = v /\ PopulateLeaf(type, v) = v
    BY <2>2 DEF JsonLeaf, PopulateLeaf
  <2> QED BY <1>4, <2>1, <2>2, <2>3 DEF ConformingValue
<1> QED BY <1>1, <1>2, <1>3, <1>4 DEF Primitives

LEMMA NilConforms ==
    ASSUME NEW type
    PROVE  ConformingLeaf(type, Nil) /\ JsonLeaf(Nil) = Nil
BY DEF ConformingLeaf, JsonLeaf, Nil

LEMMA ChildIsNamed ==
    ASSUME NEW p \in Schemas, NEW c \in ToSet(p.children)
    PROVE  Named(p, c.name) = c /\ c.type \in Primitives
BY SchemasAssumption DEF Named

\* The property behind one of the names that Terraform uses.
LEMMA TfChild ==
    ASSUME NEW p \in Schemas, NEW tf \in TfNames(p)
    PROVE  /\ TfNamed(p, tf) \in ToSet(p.children)
           /\ TfNamed(p, tf).tf = tf
           /\ Named(p, TfNamed(p, tf).name) = TfNamed(p, tf)
<1>1. \E c \in ToSet(p.children) : c.tf = tf
  BY DEF TfNames
<1>2. TfNamed(p, tf) \in ToSet(p.children) /\ TfNamed(p, tf).tf = tf
  BY <1>1 DEF TfNamed
<1> QED BY <1>2, ChildIsNamed

LEMMA GetJson ==
    ASSUME NEW f, NEW n
    PROVE  Get(JsonItem(Map(f)), n) = JsonLeaf(Get(Map(f), n))
<1>1. JsonItem(Map(f)) = Map([x \in DOMAIN f |-> JsonLeaf(f[x])])
  BY DEF JsonItem, Map
<1> QED BY <1>1, NilConforms DEF Get, Has, Map

\* The names that an object is sent with, and one of its values.
SentNames(p, m) == {TfNamed(p, tf).name : tf \in DOMAIN m[2]}
Sendable(p, m) ==
    TypedMap(p, m) /\ (p.type = "object" => ~Failing(PopulateMap(p, m)))

LEMMA SentLeaf ==
    ASSUME NEW p \in Schemas, NEW m, Sendable(p, m), NEW n \in SentNames(p, m),
           NEW c, c = Named(p, n), NEW v, v = m[2][c.tf]
    PROVE  /\ c \in ToSet(p.children) /\ c.name = n /\ c.type \in Primitives
           /\ PopulateMap(p, m)[2][n] = PopulateLeaf(c.type, v)
           /\ \/ /\ IsText(v) /\ Parsed(c.type, v) # Failed
                 /\ PopulateLeaf(c.type, v) = Parsed(c.type, v)
              \/ TypedLeaf(c.type, v)
<1>1. PICK tf \in DOMAIN m[2] : n = TfNamed(p, tf).name
  BY DEF SentNames
<1>2. tf \in TfNames(p)
  BY DEF TypedMap, Sendable
<1>3. c \in ToSet(p.children) /\ c.name = n /\ c.tf \in DOMAIN m[2]
  BY <1>1, <1>2, TfChild
<1>4. c.type \in Primitives
  BY <1>3, SchemasAssumption
<1>5. PopulateMap(p, m) =
         Map([x \in SentNames(p, m) |->
                 PopulateLeaf(Named(p, x).type, m[2][Named(p, x).tf])])
  BY DEF PopulateMap, SentNames
<1>6. PopulateMap(p, m)[2][n] = PopulateLeaf(c.type, v) /\ n \in DOMAIN PopulateMap(p, m)[2]
  BY <1>5 DEF Map
<1>7. CASE p.type = "object"
  <2>1. IsText(v)
    BY <1>3, <1>7 DEF TypedMap, Sendable
  <2>2. PopulateLeaf(c.type, v) = Parsed(c.type, v)
    BY <2>1, TextIs DEF PopulateLeaf
  <2>3. PopulateLeaf(c.type, v) # Failed
    BY <1>6, <1>7 DEF Failing, Sendable
  <2> QED BY <1>3, <1>4, <1>6, <2>1, <2>2, <2>3
<1>8. CASE p.type # "object"
  BY <1>3, <1>4, <1>6, <1>8 DEF TypedMap, Sendable
<1> QED BY <1>7, <1>8

LEMMA MapOfSent ==
    ASSUME NEW p, NEW m
    PROVE  /\ PopulateMap(p, m) = Map(PopulateMap(p, m)[2])
           /\ DOMAIN PopulateMap(p, m)[2] = SentNames(p, m)
           /\ JsonItem(PopulateMap(p, m)) =
                 Map([n \in SentNames(p, m) |-> JsonLeaf(PopulateMap(p, m)[2][n])])
<1> DEFINE sent == [x \in SentNames(p, m) |->
                       PopulateLeaf(Named(p, x).type, m[2][Named(p, x).tf])]
<1>1. PopulateMap(p, m) = Map(sent) /\ DOMAIN sent = SentNames(p, m)
  BY DEF PopulateMap, SentNames
<1> HIDE DEF sent
<1> QED BY <1>1 DEF JsonItem, Map

LEMMA SentIsMap ==
    ASSUME NEW p, NEW m, NEW l, l = PopulateMap(p, m)
    PROVE  l = Map(l[2]) /\ l[1] = "map"
<1>1. PICK f : l = Map(f)
  BY DEF PopulateMap
<1> QED BY <1>1 DEF Map

\* An object that can be sent is JSON as the document has it.
LEMMA MapIsSent ==
    ASSUME NEW p \in Schemas, NEW m, Sendable(p, m)
    PROVE  ConformingMap(p, JsonItem(PopulateMap(p, m)))
<1> DEFINE names == SentNames(p, m)
           sent == PopulateMap(p, m)[2]
<1>3. ASSUME NEW n \in names
      PROVE  ConformingLeaf(Named(p, n).type, JsonLeaf(sent[n]))
  <2>1. PICK c, v : c = Named(p, n) /\ v = m[2][c.tf]
    OBVIOUS
  <2>2. c.type \in Primitives /\ sent[n] = PopulateLeaf(c.type, v)
    BY <2>1, SentLeaf
  <2>3. CASE /\ IsText(v) /\ Parsed(c.type, v) # Failed
             /\ PopulateLeaf(c.type, v) = Parsed(c.type, v)
    BY <2>1, <2>2, <2>3, TextIsParsed DEF ConformingLeaf
  <2>4. CASE TypedLeaf(c.type, v)
    BY <2>1, <2>2, <2>4, TypedIsSent DEF ConformingLeaf
  <2> QED BY <2>1, <2>3, <2>4, SentLeaf
<1> HIDE DEF sent, names
<1>4. JsonItem(PopulateMap(p, m)) = Map([n \in names |-> JsonLeaf(sent[n])])
  BY MapOfSent DEF names, sent
<1>5. ASSUME NEW c \in ToSet(p.children)
      PROVE  ConformingLeaf(c.type, Get(JsonItem(PopulateMap(p, m)), c.name))
  <2>1. CASE c.name \in names
    <3>1. Get(JsonItem(PopulateMap(p, m)), c.name) = JsonLeaf(sent[c.name])
      BY <1>4, <2>1 DEF Get, Has, Map
    <3>2. Named(p, c.name) = c
      BY ChildIsNamed
    <3> QED BY <1>3, <2>1, <3>1, <3>2
  <2>2. CASE c.name \notin names
    <3>1. Get(JsonItem(PopulateMap(p, m)), c.name) = Nil
      BY <1>4, <2>2 DEF Get, Has, Map
    <3> QED BY <3>1, NilConforms
  <2> QED BY <2>1, <2>2
<1>6. IsMap(JsonItem(PopulateMap(p, m)))
  BY <1>4 DEF IsMap, Map
<1> QED BY <1>5, <1>6 DEF ConformingMap

LEMMA SeqIs ==
    ASSUME NEW s, IsSeq(s)
    PROVE  Len(s) \in Nat /\ DOMAIN s = 1..Len(s)
<1>1. PICK S : S = ToSet(s)
  OBVIOUS
<1> QED BY <1>1 DEF IsSeq

\* What is made of the items of a list one by one is a list.
LEMMA ItemByItem ==
    ASSUME NEW s, IsSeq(s), NEW t, t = [k \in DOMAIN s |-> t[k]]
    PROVE  IsSeq(t) /\ DOMAIN t = DOMAIN s /\ Len(t) = Len(s)
<1>1. Len(s) \in Nat /\ DOMAIN s = 1..Len(s)
  BY SeqIs
<1>2. PICK S : S = ToSet(t)
  OBVIOUS
<1>3. \A k \in 1..Len(s) : t[k] \in S
  BY <1>1, <1>2 DEF ToSet
<1>4. t \in Seq(S)
  BY <1>1, <1>3
<1>5. Len(t) = Len(s)
  BY <1>1
<1> QED BY <1>2, <1>4, <1>5 DEF IsSeq

LEMMA ListJson ==
    ASSUME NEW s
    PROVE  Json(List(s)) = List([k \in DOMAIN s |-> JsonItem(s[k])])
BY DEF Json, Each, List

\* What is configured is sent as JSON that the document has, or not at all.
LEMMA SentConforms ==
    ASSUME NEW p \in Schemas, NEW v \in ConfigValues[p]
    PROVE  Populate(p, v) = Nil \/ Conforming(p, Json(Populate(p, v)))
<1>1. SUFFICES ASSUME v # Nil, Populate(p, v) # Nil
               PROVE  Conforming(p, Json(Populate(p, v)))
  BY DEF Populate
<1>2. Configured(p, v)
  BY <1>1, ConfigAssumption
<1>3. CASE p.type = "object"
  <2>1. Sendable(p, v) /\ Populate(p, v) = PopulateMap(p, v)
    BY <1>1, <1>2, <1>3 DEF Configured, Populate, Sendable
  <2>2. Populate(p, v) = Map(PopulateMap(p, v)[2])
    BY <2>1, MapOfSent
  <2>3. Json(Populate(p, v)) = JsonItem(Populate(p, v))
    BY <2>2 DEF Json, Map
  <2> QED BY <1>3, <2>1, <2>3, MapIsSent DEF Conforming
<1>4. CASE p.type = "list"
  <2> DEFINE s == v[2]
  <2>1. v = List(s) /\ IsSeq(s)
    BY <1>2, <1>4 DEF Configured
  <2>2. CASE p.items = "object"
    <3> DEFINE t == [k \in DOMAIN s |-> PopulateMap(p, s[k])]
               u == [k \in DOMAIN t |-> JsonItem(t[k])]
    <3>1. Populate(p, v) = List(t)
      <4>1. Populate(p, v) = Each(v, LAMBDA m : PopulateMap(p, m))
        BY <1>1, <1>4, <2>2 DEF Populate
      <4> QED BY <4>1 DEF Each
    <3>2. Json(Populate(p, v)) = List(u)
      BY <3>1, ListJson
    <3>3. IsSeq(u) /\ DOMAIN u = DOMAIN s
      <4>1. IsSeq(t) /\ DOMAIN t = DOMAIN s
        BY <2>1, ItemByItem
      <4> HIDE DEF t
      <4> QED BY <4>1, ItemByItem
    <3>4. ASSUME NEW k \in DOMAIN s
          PROVE  ConformingMap(p, u[k])
      <4>1. TypedMap(p, s[k])
        BY <1>2, <1>4, <2>2 DEF Configured, ToSet
      <4>2. u[k] = JsonItem(PopulateMap(p, s[k]))
        OBVIOUS
      <4>3. Sendable(p, s[k])
        BY <1>4, <4>1 DEF Sendable
      <4> QED BY <4>2, <4>3, MapIsSent
    <3>5. \A x \in ToSet(u) : ConformingMap(p, x)
      <4> HIDE DEF u
      <4> QED BY <3>3, <3>4 DEF ToSet
    <3> HIDE DEF u
    <3> QED BY <1>4, <2>2, <3>2, <3>3, <3>5 DEF Conforming, List
  <2>3. CASE p.items # "object"
    <3> DEFINE u == [k \in DOMAIN s |-> JsonItem(s[k])]
    <3>1. Populate(p, v) = v
      BY <1>1, <1>4, <2>3 DEF Populate
    <3>2. Json(Populate(p, v)) = List(u)
      BY <2>1, <3>1, ListJson
    <3>3. IsSeq(u) /\ DOMAIN u = DOMAIN s
      BY <2>1, ItemByItem
    <3>4. ASSUME NEW k \in DOMAIN s
          PROVE  ConformingValue(p.items, u[k])
      <4>1. TypedLeaf(p.items, s[k])
        BY <1>2, <1>4, <2>3 DEF Configured, ToSet
      <4>2. p.items \in Primitives
        BY <1>4, <2>3, SchemasAssumption
      <4>3. s[k][1] # "map" /\ ConformingValue(p.items, JsonLeaf(s[k]))
        BY <4>1, <4>2, TypedIsSent
      <4> QED BY <4>3 DEF JsonItem
    <3>5. \A x \in ToSet(u) : ConformingValue(p.items, x)
      <4> HIDE DEF u
      <4> QED BY <3>3, <3>4 DEF ToSet
    <3> HIDE DEF u
    <3> QED BY <1>4, <2>3, <3>2, <3>3, <3>5 DEF Conforming, List
  <2> QED BY <2>2, <2>3
<1>5. CASE p.type \notin {"object", "list"}
  <2>1. p.type \in Primitives /\ TypedLeaf(p.type, v) /\ p.items = ""
    BY <1>2, <1>5, SchemasAssumption DEF Configured
  <2>5. PopulateLeaf(p.type, v) = v
    BY <2>1, TypedIsSent
  <2>2. Populate(p, v) = v
    BY <1>1, <1>5, <2>1, <2>5 DEF Populate
  <2>3. v[1] \in {"string", "int", "float", "bool"}
        /\ ConformingLeaf(p.type, JsonLeaf(v))
    BY <2>1, TypedIsSent DEF ConformingLeaf
  <2>4. Json(v) = JsonLeaf(v)
    BY <2>3 DEF Json, JsonItem
  <2> QED BY <1>5, <2>2, <2>3, <2>4 DEF Conforming
<1> QED BY <1>3, <1>4, <1>5

\* What is sent of a property, and the Go types of it.
LEMMA SentShape ==
    ASSUME NEW p \in Schemas, NEW v \in ConfigValues[p], NEW local,
           local = Populate(p, v), local # Nil
    PROVE  /\ v # Nil /\ Configured(p, v)
           /\ p.type = "object" => Sendable(p, v) /\ local = PopulateMap(p, v)
           /\ p.type = "list" =>
                 /\ v = List(v[2]) /\ IsSeq(v[2])
                 /\ local = List(local[2]) /\ IsSeq(local[2])
                 /\ DOMAIN local[2] = DOMAIN v[2]
           /\ p.type = "list" /\ p.items = "object" =>
                 \A k \in DOMAIN local[2] :
                     Sendable(p, v[2][k]) /\ local[2][k] = PopulateMap(p, v[2][k])
           /\ p.type = "list" /\ p.items # "object" =>
                 /\ local = v /\ p.items \in Primitives
                 /\ \A k \in DOMAIN local[2] : TypedLeaf(p.items, local[2][k])
           /\ p.type \notin {"object", "list"} =>
                 local = v /\ p.type \in Primitives /\ TypedLeaf(p.type, local)
<1>1. v # Nil /\ Configured(p, v)
  BY ConfigAssumption DEF Populate
<1>2. CASE p.type = "object"
  BY <1>1, <1>2 DEF Configured, Populate, Sendable
<1>3. CASE p.type = "list" /\ p.items = "object"
  <2> DEFINE s == v[2]
             t == [k \in DOMAIN s |-> PopulateMap(p, s[k])]
  <2>1. v = List(s) /\ IsSeq(s)
    BY <1>1, <1>3 DEF Configured
  <2>2. local = List(t)
    <3>1. local = Each(v, LAMBDA m : PopulateMap(p, m))
      BY <1>1, <1>3 DEF Populate
    <3> QED BY <3>1 DEF Each
  <2>3. IsSeq(t) /\ DOMAIN t = DOMAIN s
    BY <2>1, ItemByItem
  <2>4. \A k \in DOMAIN s : t[k] = PopulateMap(p, s[k])
    OBVIOUS
  <2>5. \A k \in DOMAIN s : Sendable(p, s[k])
    BY <1>1, <1>3 DEF Configured, ToSet, Sendable
  <2> HIDE DEF t
  <2> QED BY <1>1, <1>3, <2>1, <2>2, <2>3, <2>4, <2>5 DEF List
<1>4. CASE p.type = "list" /\ p.items # "object"
  <2>1. local = v /\ p.items \in Primitives
    BY <1>1, <1>4, SchemasAssumption DEF Populate
  <2>2. v = List(v[2]) /\ IsSeq(v[2]) /\ \A k \in DOMAIN v[2] : TypedLeaf(p.items, v[2][k])
    BY <1>1, <1>4 DEF Configured, ToSet
  <2> QED BY <1>1, <1>4, <2>1, <2>2
<1>5. CASE p.type \notin {"object", "list"}
  <2>1. p.type \in Primitives /\ TypedLeaf(p.type, v) /\ p.items = ""
    BY <1>1, <1>5, SchemasAssumption DEF Configured
  <2>3. PopulateLeaf(p.type, v) = v
    BY <2>1, TypedIsSent
  <2>2. local = v
    BY <1>1, <1>5, <2>1, <2>3 DEF Populate
  <2> QED BY <1>1, <1>5, <2>1, <2>2
<1> QED BY <1>2, <1>3, <1>4, <1>5

-----------------------------------------------------------------------------
(* Comparison with what the API has                                        *)

\* A primitive that counts as unchanged is sent as it was.
LEMMA LeafKept ==
    ASSUME NEW type \in Primitives, NEW r, ConformingLeaf(type, r),
           NEW l, ~LeafChanged(type, r, l)
    PROVE  JsonLeaf(l) = r
<1>1. CASE r[1] # "float"
  <2>1. l = r
    BY <1>1 DEF LeafChanged
  <2> QED BY <2>1, ConformingIs DEF JsonLeaf
<1>2. CASE r[1] = "float" /\ type = "integer"
  <2>1. r = Float(r[2]) /\ r[2] \in Int /\ r[2] % 1000 = 0
    BY <1>2, ConformingIs
  <2>2. l = <<"int", r[2] \div 1000>>
    BY <1>2 DEF LeafChanged, GoInt
  <2>3. l[1] = "int" /\ l[2] = r[2] \div 1000
    BY <2>2
  <2>4. JsonLeaf(l) = Float(1000 * (r[2] \div 1000))
    BY <2>3 DEF JsonLeaf
  <2>5. 1000 * (r[2] \div 1000) = r[2]
    BY <2>1
  <2> QED BY <2>1, <2>4, <2>5
<1>3. CASE r[1] = "float" /\ type # "integer"
  <2>1. CASE type = "number"
    BY <1>3, <2>1 DEF LeafChanged, JsonLeaf
  <2>2. CASE type # "number"
    BY <1>3, <2>2, ConformingIs DEF Primitives
  <2> QED BY <2>1, <2>2
<1> QED BY <1>1, <1>2, <1>3

\* Of an object, what is immutable in it.
LEMMA MapKept ==
    ASSUME NEW p \in Schemas, NEW r, ConformingMap(p, r), NEW l, l = Map(l[2]),
           NEW names \in SUBSET Names(p),
           \A c \in ToSet(p.children) :
               c.name \in names => ~LeafChanged(c.type, Get(r, c.name), Get(l, c.name))
    PROVE  View(JsonItem(l), names) = View(r, names)
<1>1. ASSUME NEW n \in names
      PROVE  Get(JsonItem(l), n) = Get(r, n)
  <2>1. PICK c \in ToSet(p.children) : c.name = n
    BY DEF Names
  <2>2. JsonLeaf(Get(l, n)) = Get(r, n)
    BY <2>1, LeafKept, SchemasAssumption DEF ConformingMap
  <2>3. Get(JsonItem(l), n) = JsonLeaf(Get(l, n))
    BY GetJson, Zenon
  <2> QED BY <2>2, <2>3
<1> QED BY <1>1 DEF View

LEMMA FrozenIsKept ==
    ASSUME schema \in Schemas, NEW v \in ConfigValues[schema],
           NEW local, local = Populate(schema, v), local # Nil,
           NEW r, r = Nil \/ Conforming(schema, r),
           ~ImmutablePanics(schema, r, local), ~ImmutableViolated(schema, r, local)
    PROVE  Frozen(Json(local)) = Frozen(r)
<1>1. CASE schema.type = "object"
  <2>0. local = PopulateMap(schema, v)
    BY <1>1, SentShape
  <2>7. local = Map(local[2])
    BY <2>0, SentIsMap
  <2>1. r # Nil /\ ConformingMap(schema, r) /\ local = Map(local[2])
    BY <1>1, <2>7 DEF ImmutablePanics, Conforming
  <2>2. Json(local) = JsonItem(local) /\ Json(local) # Nil
    <3>1. local[1] = "map"
      BY <2>1 DEF Map
    <3>2. Json(local) = Map([n \in DOMAIN local[2] |-> JsonLeaf(local[2][n])])
      BY <3>1 DEF Json, JsonItem
    <3>3. \A f : Map(f) # Nil
      BY DEF Map, Nil
    <3> QED BY <3>1, <3>2, <3>3 DEF Json
  <2>3. ~MapChanged(schema, r, local, schema.immutable)
    BY <1>1 DEF ImmutableViolated
  <2>4. Kept \in SUBSET Names(schema)
    BY DEF Kept, Names
  <2>5. \A c \in ToSet(schema.children) :
            c.name \in Kept => c.immutable \/ schema.immutable
    BY SchemasAssumption DEF Kept
  <2>6. View(JsonItem(local), Kept) = View(r, Kept)
    BY <2>1, <2>3, <2>4, <2>5, MapKept DEF MapChanged
  <2> QED BY <1>1, <2>1, <2>2, <2>6 DEF Frozen
<1>2. CASE schema.type = "list" /\ schema.immutable
  <2> DEFINE s == r[2]
             t == local[2]
             u == [k \in DOMAIN t |-> JsonItem(t[k])]
  <2>1. r # Nil /\ r = List(s) /\ IsSeq(s) /\ local = List(t) /\ IsSeq(t)
    BY <1>2, SentShape DEF ImmutablePanics, Conforming
  <2>2. Json(local) = List(u) /\ List(u) # Nil
    <3>1. List(u) # Nil
      BY DEF List, Nil
    <3> QED BY <2>1, <3>1, ListJson
  <2>3. DOMAIN t = DOMAIN s
    BY <1>2, <2>1, SeqIs DEF ImmutableViolated
  <2>4. CASE schema.items = "object"
    <3>1. \A k \in DOMAIN t : View(u[k], Kept) = View(s[k], Kept)
      <4>1. SUFFICES ASSUME NEW k \in DOMAIN t
                     PROVE  View(JsonItem(t[k]), Kept) = View(s[k], Kept)
        OBVIOUS
      <4>2. ~MapChanged(schema, s[k], t[k], TRUE)
        BY <1>2, <2>4 DEF ImmutableViolated
      <4>3. ConformingMap(schema, s[k])
        BY <1>2, <2>1, <2>3, <2>4 DEF Conforming, ToSet
      <4>4. t[k] = PopulateMap(schema, v[2][k])
        BY <1>2, <2>4, SentShape
      <4>6. t[k] = Map(t[k][2])
        BY <4>4, SentIsMap
      <4>5. Kept \in SUBSET Names(schema)
        BY DEF Kept, Names
      <4> QED BY <4>2, <4>3, <4>5, <4>6, MapKept DEF MapChanged
    <3>2. Frozen(r) = List([k \in DOMAIN s |-> View(s[k], Kept)])
      BY <1>2, <2>1, <2>4 DEF Frozen, Each
    <3>3. Frozen(List(u)) = List([k \in DOMAIN u |-> View(u[k], Kept)])
      <4>1. Frozen(List(u)) = Each(List(u), LAMBDA m : View(m, Kept))
        BY <1>2, <2>2, <2>4 DEF Frozen
      <4> QED BY <4>1 DEF Each, List
    <3>4. [k \in DOMAIN u |-> View(u[k], Kept)] = [k \in DOMAIN s |-> View(s[k], Kept)]
      <4>1. DOMAIN u = DOMAIN t
        OBVIOUS
      <4> HIDE DEF u, s, t
      <4> QED BY <2>3, <3>1, <4>1
    <3> HIDE DEF u
    <3> QED BY <2>2, <3>2, <3>3, <3>4
  <2>5. CASE schema.items # "object"
    <3>1. ASSUME NEW k \in DOMAIN t
          PROVE  u[k] = s[k]
      <4>1. t[k] = s[k]
        BY <1>2, <2>5 DEF ImmutableViolated
      <4>2. ConformingValue(schema.items, s[k])
        BY <1>2, <2>1, <2>3, <2>5 DEF Conforming, ToSet
      <4>3. s[k][1] \notin {"int", "int64", "map"}
        BY <4>2, ConformingIs DEF ConformingLeaf
      <4> QED BY <4>1, <4>3 DEF JsonItem, JsonLeaf
    <3>2. s = [k \in DOMAIN s |-> s[k]]
      <4>1. PICK S : S = ToSet(s)
        OBVIOUS
      <4> QED BY <2>1, <4>1 DEF IsSeq
    <3>3. u = s
      BY <2>3, <3>1, <3>2
    <3> QED BY <2>1, <2>2, <3>3
  <2> QED BY <2>4, <2>5
<1>3. CASE schema.type = "list" /\ ~schema.immutable
  BY <1>3 DEF Frozen
<1>4. CASE schema.type \notin {"list", "object"}
  <2>1. local[1] \in {"string", "int", "float", "bool"} /\ schema.items = ""
    BY <1>4, SentShape, TypedIsSent, SchemasAssumption
  <2>2. Json(local) = JsonLeaf(local)
    BY <2>1 DEF Json, JsonItem
  <2>3. CASE schema.immutable
    <3>1. ~LeafChanged(schema.type, r, local)
      BY <1>4, <2>3 DEF ImmutableViolated
    <3>2. ConformingLeaf(schema.type, r)
      BY <1>4, NilConforms DEF Conforming
    <3>3. Json(local) = r
      BY <1>4, <2>2, <3>1, <3>2, LeafKept, SchemasAssumption
    <3> QED BY <3>3
  <2>4. CASE ~schema.immutable
    BY <1>4, <2>4 DEF Frozen
  <2> QED BY <2>3, <2>4
<1> QED BY <1>1, <1>2, <1>3, <1>4

-----------------------------------------------------------------------------
(* What the configuration means                                            *)

LEMMA LeafIsMeant ==
    ASSUME NEW type \in Primitives, NEW v,
           \/ TypedLeaf(type, v)
           \/ IsText(v) /\ Parsed(type, v) # Failed
    PROVE  JsonLeaf(PopulateLeaf(type, v)) = MeantLeaf(type, v)
<1>1. CASE TypedLeaf(type, v)
  <2>1. PopulateLeaf(type, v) = v
    BY <1>1, TypedIsSent
  <2>2. CASE type = "integer"
    <3>1. v = <<"int", v[2]>>
      BY <1>1, <2>2 DEF TypedLeaf, GoInt
    <3>2. v[1] = "int"
      BY <3>1
    <3> QED BY <2>1, <3>2 DEF JsonLeaf, MeantLeaf
  <2>3. CASE type # "integer"
    <3>1. v[1] \in {"string", "float", "bool"} /\ (v[1] = "string" => type = "string")
      BY <1>1, <2>3 DEF TypedLeaf, Float, Primitives
    <3> QED BY <2>1, <3>1 DEF JsonLeaf, MeantLeaf
  <2> QED BY <2>2, <2>3
<1>2. CASE IsText(v) /\ Parsed(type, v) # Failed
  <2>1. v[1] = "string" /\ PopulateLeaf(type, v) = Parsed(type, v)
    BY <1>2, TextIs DEF PopulateLeaf
  <2>2. CASE type = "string"
    BY <2>1, <2>2 DEF Parsed, JsonLeaf, MeantLeaf
  <2>3. CASE type = "integer"
    <3>1. v[2] = "int" /\ Parsed(type, v) = <<"int64", v[3]>>
      BY <1>2, <2>3 DEF Parsed
    <3>2. JsonLeaf(Parsed(type, v)) = Float(1000 * v[3])
      BY <3>1 DEF JsonLeaf
    <3> QED BY <2>1, <2>3, <3>1, <3>2 DEF MeantLeaf
  <2>4. CASE type = "number"
    <3>1. PICK x : Parsed(type, v) = Float(x) /\ MeantLeaf(type, v) = Float(x)
      <4>1. CASE v[2] = "int"
        BY <2>1, <2>4, <4>1 DEF Parsed, MeantLeaf
      <4>2. CASE v[2] \in {"float", "padded"}
        BY <2>1, <2>4, <4>2 DEF Parsed, MeantLeaf
      <4> QED BY <1>2, <2>4, <4>1, <4>2 DEF Parsed
    <3> QED BY <2>1, <3>1 DEF JsonLeaf, Float
  <2>5. CASE type = "boolean"
    <3>1. v[2] = "bool" /\ Parsed(type, v) = <<"bool", v[3]>>
      BY <1>2, <2>5 DEF Parsed
    <3> QED BY <2>1, <2>5, <3>1 DEF JsonLeaf, MeantLeaf
  <2> QED BY <2>2, <2>3, <2>4, <2>5 DEF Primitives
<1> QED BY <1>1, <1>2

LEMMA MapIsMeant ==
    ASSUME schema \in Schemas, NEW m, Sendable(schema, m)
    PROVE  JsonItem(PopulateMap(schema, m)) = MeantItem(m)
<1>1. ASSUME NEW n \in SentNames(schema, m)
      PROVE  JsonLeaf(PopulateMap(schema, m)[2][n]) =
                MeantLeaf(Named(schema, n).type, m[2][Named(schema, n).tf])
  <2>1. PICK c, v : c = Named(schema, n) /\ v = m[2][c.tf]
    OBVIOUS
  <2>2. c.type \in Primitives /\ PopulateMap(schema, m)[2][n] = PopulateLeaf(c.type, v)
    BY <2>1, SentLeaf
  <2>3. \/ IsText(v) /\ Parsed(c.type, v) # Failed
        \/ TypedLeaf(c.type, v)
    BY <2>1, SentLeaf
  <2> QED BY <2>1, <2>2, <2>3, LeafIsMeant
<1>2. m[1] = "map"
  BY MapIs DEF Sendable, TypedMap
<1>3. MeantItem(m) = Map([n \in SentNames(schema, m) |->
                             MeantLeaf(Named(schema, n).type, m[2][Named(schema, n).tf])])
  BY <1>2 DEF MeantItem, SentNames
<1> QED BY <1>1, <1>3, MapOfSent

\* What is sent of a property is the JSON that its configuration means.
LEMMA MeantIsSent ==
    ASSUME schema \in Schemas, NEW v \in ConfigValues[schema],
           NEW local, local = Populate(schema, v), local # Nil
    PROVE  Json(local) = Meant(v)
<1>1. CASE schema.type = "object"
  <2>1. Sendable(schema, v) /\ local = PopulateMap(schema, v)
    BY <1>1, SentShape
  <2>2. local[1] = "map"
    BY <2>1, SentIsMap
  <2>3. v[1] = "map"
    BY <2>1, MapIs DEF Sendable, TypedMap
  <2> QED BY <2>1, <2>2, <2>3, MapIsMeant DEF Json, Meant
<1>2. CASE schema.type = "list"
  <2> DEFINE s == v[2]
             t == local[2]
  <2>1. v = List(s) /\ local = List(t) /\ DOMAIN t = DOMAIN s
    BY <1>2, SentShape
  <2>2. ASSUME NEW k \in DOMAIN s
        PROVE  JsonItem(t[k]) = MeantItem(s[k])
    <3>1. CASE schema.items = "object"
      BY <1>2, <2>1, <3>1, SentShape, MapIsMeant
    <3>2. CASE schema.items # "object"
      <4>1. t[k] = s[k] /\ schema.items \in Primitives /\ TypedLeaf(schema.items, s[k])
        BY <1>2, <2>1, <3>2, SentShape
      <4>2. s[k][1] # "map" /\ PopulateLeaf(schema.items, s[k]) = s[k]
        BY <4>1, TypedIsSent
      <4>3. JsonLeaf(s[k]) = MeantLeaf(schema.items, s[k])
        BY <4>1, <4>2, LeafIsMeant
      <4> QED BY <1>2, <4>1, <4>2, <4>3 DEF JsonItem, MeantItem
    <3> QED BY <3>1, <3>2
  <2>3. Json(List(t)) = List([k \in DOMAIN t |-> JsonItem(t[k])])
    BY ListJson
  <2>4. Meant(List(s)) = List([k \in DOMAIN s |-> MeantItem(s[k])])
    BY DEF Meant, Each, List
  <2> HIDE DEF s, t
  <2> QED BY <2>1, <2>2, <2>3, <2>4
<1>3. CASE schema.type \notin {"object", "list"}
  <2>1. local = v /\ schema.type \in Primitives /\ TypedLeaf(schema.type, v)
    BY <1>3, SentShape
  <2>2. v[1] \notin {"map", "list"} /\ PopulateLeaf(schema.type, v) = v
    BY <2>1, TypedIsSent
  <2>3. JsonLeaf(v) = MeantLeaf(schema.type, v)
    BY <2>1, <2>2, LeafIsMeant
  <2> QED BY <1>3, <2>1, <2>2, <2>3 DEF Json, JsonItem, Meant, MeantItem
<1> QED BY <1>1, <1>2, <1>3

\* A primitive that is sent as it was counts as unchanged, but for integers
\* that are none of Go's.
LEMMA LeafSame ==
    ASSUME NEW type, NEW l, type # "integer", l[1] \notin {"int", "int64"}
    PROVE  ~LeafChanged(type, JsonLeaf(l), l)
BY DEF LeafChanged, JsonLeaf

LEMMA IntegerSame ==
    ASSUME NEW n \in Int
    PROVE  ~LeafChanged("integer", JsonLeaf(GoInt(n)), GoInt(n))
<1>1. JsonLeaf(GoInt(n)) = Float(1000 * n)
  BY DEF JsonLeaf, GoInt
<1>2. (1000 * n) \div 1000 = n
  OBVIOUS
<1>3. Float(1000 * n)[1] = "float" /\ Float(1000 * n)[2] = 1000 * n
  BY DEF Float
<1> QED BY <1>1, <1>2, <1>3 DEF LeafChanged

\* What an object is sent with is an integer of Go's only if that is its type.
LEMMA SentKinds ==
    ASSUME NEW p \in Schemas, NEW m, Sendable(p, m),
           NEW c \in ToSet(p.children), c.type # "integer"
    PROVE  Get(PopulateMap(p, m), c.name)[1] \notin {"int", "int64"}
<1>1. CASE c.name \in SentNames(p, m)
  <2>1. PICK v : v = m[2][c.tf]
    OBVIOUS
  <2>2. c = Named(p, c.name) /\ c.type \in Primitives
    BY ChildIsNamed
  <2>3. PICK x : x = PopulateLeaf(c.type, v)
    OBVIOUS
  <2>4. /\ PopulateMap(p, m)[2][c.name] = x
        /\ \/ IsText(v) /\ Parsed(c.type, v) # Failed /\ x = Parsed(c.type, v)
           \/ TypedLeaf(c.type, v)
    BY <1>1, <2>1, <2>2, <2>3, SentLeaf
  <2>5. Get(PopulateMap(p, m), c.name) = x
    BY <1>1, <2>4, MapOfSent DEF Get, Has
  <2>6. CASE TypedLeaf(c.type, v)
    <3>1. x = v
      BY <2>2, <2>3, <2>6, TypedIsSent
    <3>2. v[1] \notin {"int", "int64"}
      <4>1. CASE c.type = "boolean"
        <5>1. v = <<"bool", v[2]>>
          BY <2>6, <4>1 DEF TypedLeaf
        <5> QED BY <5>1
      <4>2. CASE c.type # "boolean"
        BY <2>2, <2>6, <4>2, FloatIs DEF TypedLeaf, Primitives
      <4> QED BY <4>1, <4>2
    <3> QED BY <2>5, <3>1, <3>2
  <2>7. CASE IsText(v) /\ Parsed(c.type, v) # Failed /\ x = Parsed(c.type, v)
    <3>1. CASE c.type = "string"
      BY <2>5, <2>7, <3>1, TextIs DEF Parsed
    <3>2. CASE c.type = "number"
      <4>1. PICK y : x = Float(y)
        BY <2>7, <3>2 DEF Parsed
      <4> QED BY <2>5, <4>1 DEF Float
    <3>3. CASE c.type = "boolean"
      <4>1. x = <<"bool", v[3]>>
        BY <2>7, <3>3 DEF Parsed
      <4> QED BY <2>5, <4>1
    <3> QED BY <2>2, <3>1, <3>2, <3>3 DEF Primitives
  <2> QED BY <2>4, <2>6, <2>7
<1>2. CASE c.name \notin SentNames(p, m)
  <2>1. Get(PopulateMap(p, m), c.name) = Nil
    BY <1>2, MapOfSent DEF Get, Has
  <2> QED BY <2>1 DEF Nil
<1> QED BY <1>1, <1>2

LEMMA MapSame ==
    ASSUME NEW p \in Schemas, NEW m, Sendable(p, m), NEW l, l = PopulateMap(p, m),
           NEW r, NEW names, View(JsonItem(l), names) = View(r, names),
           NEW c \in ToSet(p.children), c.name \in names, c.type # "integer"
    PROVE  ~LeafChanged(c.type, Get(r, c.name), Get(l, c.name))
<1>1. Get(JsonItem(l), c.name) = Get(r, c.name)
  <2>1. [n \in names |-> Get(JsonItem(l), n)] = [n \in names |-> Get(r, n)]
    BY DEF View, Map
  <2> QED BY <2>1
<1>2. Get(JsonItem(l), c.name) = JsonLeaf(Get(l, c.name))
  <2>1. l = Map(l[2])
    BY SentIsMap
  <2>2. PICK f : l = Map(f)
    BY <2>1
  <2> QED BY <2>2, GetJson
<1>3. Get(l, c.name)[1] \notin {"int", "int64"}
  BY SentKinds
<1> QED BY <1>1, <1>2, <1>3, LeafSame

\* An update that asks for what the API has is not refused.
LEMMA SameIsAllowed ==
    ASSUME schema \in Schemas, ~Integers, NEW v \in ConfigValues[schema],
           NEW local, local = Populate(schema, v),
           NEW r, r = Nil \/ Conforming(schema, r),
           ~ImmutablePanics(schema, r, local),
           Frozen(Meant(v)) = Frozen(r)
    PROVE  ~ImmutableViolated(schema, r, local)
<1>0. \A c \in ToSet(schema.children) : c.type # "integer"
  BY DEF Integers
<1>1. CASE schema.type = "object"
  <2>1. local # Nil /\ r # Nil
    BY <1>1 DEF ImmutablePanics
  <2>2. Sendable(schema, v) /\ local = PopulateMap(schema, v)
    BY <1>1, <2>1, SentShape
  <2>3. Json(local) = JsonItem(local) /\ JsonItem(local) # Nil
    <3>1. local[1] = "map"
      BY <2>2, SentIsMap
    <3>2. \A f : Map(f) # Nil
      BY DEF Map, Nil
    <3> QED BY <3>1, <3>2 DEF Json, JsonItem
  <2>4. View(JsonItem(local), Kept) = View(r, Kept)
    BY <1>1, <2>1, <2>3, MeantIsSent DEF Frozen
  <2>5. \A c \in ToSet(schema.children) :
            c.immutable \/ schema.immutable => c.name \in Kept
    BY DEF Kept
  <2>6. ~MapChanged(schema, r, local, schema.immutable)
    BY <1>0, <2>2, <2>4, <2>5, MapSame DEF MapChanged
  <2> QED BY <1>1, <2>6 DEF ImmutableViolated
<1>2. CASE schema.type = "list" /\ schema.immutable
  <2> DEFINE s == r[2]
             t == local[2]
             u == [k \in DOMAIN t |-> JsonItem(t[k])]
  <2>1. local # Nil /\ r # Nil
    BY <1>2 DEF ImmutablePanics
  <2>2. r = List(s) /\ IsSeq(s) /\ local = List(t) /\ IsSeq(t)
    BY <1>2, <2>1, SentShape DEF Conforming
  <2>3. Meant(v) = List(u)
    BY <2>1, <2>2, MeantIsSent, ListJson
  <2>4. List(u) # Nil /\ List(u)[2] = u /\ List(s)[2] = s
    BY DEF List, Nil
  <2>5. CASE schema.items = "object"
    <3>1. Frozen(r) = List([k \in DOMAIN s |-> View(s[k], Kept)])
      BY <1>2, <2>1, <2>5 DEF Frozen, Each
    <3>2. Frozen(List(u)) = List([k \in DOMAIN u |-> View(u[k], Kept)])
      <4>1. Frozen(List(u)) = Each(List(u), LAMBDA m : View(m, Kept))
        BY <1>2, <2>4, <2>5 DEF Frozen
      <4> QED BY <4>1 DEF Each, List
    <3>3. [k \in DOMAIN u |-> View(u[k], Kept)] = [k \in DOMAIN s |-> View(s[k], Kept)]
      <4>1. \A f, g : List(f) = List(g) => f = g
        BY DEF List
      <4> HIDE DEF u, s
      <4> QED BY <2>3, <3>1, <3>2, <4>1
    <3>4. DOMAIN t = DOMAIN s /\ \A k \in DOMAIN t : View(u[k], Kept) = View(s[k], Kept)
      <4>1. DOMAIN u = DOMAIN t
        OBVIOUS
      <4> HIDE DEF u, s, t
      <4>2. DOMAIN u = DOMAIN s
        BY <3>3
      <4>3. \A k \in DOMAIN u : View(u[k], Kept) = View(s[k], Kept)
        BY <3>3, <4>2
      <4> QED BY <4>1, <4>2, <4>3
    <3>5. Len(t) = Len(s)
      BY <2>2, <3>4, SeqIs
    <3>6. ASSUME NEW k \in DOMAIN t
          PROVE  ~MapChanged(schema, s[k], t[k], TRUE)
      <4>1. Sendable(schema, v[2][k]) /\ t[k] = PopulateMap(schema, v[2][k])
        BY <1>2, <2>1, <2>5, SentShape
      <4>2. View(JsonItem(t[k]), Kept) = View(s[k], Kept)
        BY <3>4
      <4>3. \A c \in ToSet(schema.children) : c.name \in Kept
        BY <1>2 DEF Kept
      <4>4. PICK l, x, m : l = t[k] /\ x = s[k] /\ m = v[2][k]
        OBVIOUS
      <4>5. ~MapChanged(schema, x, l, TRUE)
        <5> HIDE DEF s, t
        <5> QED BY <1>0, <4>1, <4>2, <4>3, <4>4, MapSame DEF MapChanged
      <4> QED BY <4>4, <4>5
    <3> QED BY <1>2, <2>5, <3>5, <3>6 DEF ImmutableViolated
  <2>6. CASE schema.items # "object"
    <3>1. List(u) = List(s)
      BY <1>2, <2>1, <2>2, <2>3, <2>4, <2>6 DEF Frozen
    <3>2. u = s
      BY <2>4, <3>1
    <3>3. DOMAIN t = DOMAIN s /\ \A k \in DOMAIN t : JsonItem(t[k]) = s[k]
      BY <3>2
    <3>4. Len(t) = Len(s)
      BY <2>2, <3>3, SeqIs
    <3>5. ASSUME NEW k \in DOMAIN t
          PROVE  t[k] = s[k]
      <4>1. TypedLeaf(schema.items, t[k]) /\ schema.items \in Primitives
        BY <1>2, <2>1, <2>6, SentShape
      <4>2. t[k][1] \in {"string", "float", "bool"}
        BY <4>1 DEF TypedLeaf, Float, Primitives, Integers
      <4> QED BY <3>3, <4>2 DEF JsonItem, JsonLeaf
    <3> QED BY <1>2, <2>6, <3>4, <3>5 DEF ImmutableViolated
  <2> QED BY <2>5, <2>6
<1>3. CASE schema.type = "list" /\ ~schema.immutable
  BY <1>3 DEF ImmutableViolated
<1>4. CASE schema.type \notin {"list", "object"} /\ schema.immutable
  <2>1. schema.items = ""
    BY <1>4, SchemasAssumption
  <2>2. Frozen(Meant(v)) = Meant(v) /\ Frozen(r) = r
    BY <1>4, <2>1 DEF Frozen
  <2>3. ~LeafChanged(schema.type, r, local)
    <3>1. CASE local = Nil
      <4>1. v = Nil
        <5>1. SUFFICES ASSUME v # Nil
                       PROVE  FALSE
          OBVIOUS
        <5>2. schema.type \in Primitives /\ TypedLeaf(schema.type, v)
          BY <1>4, <5>1, ConfigAssumption, SchemasAssumption DEF Configured
        <5>4. PopulateLeaf(schema.type, v) = v
          BY <5>2, TypedIsSent
        <5>3. local = v
          BY <1>4, <2>1, <5>1, <5>4 DEF Populate
        <5> QED BY <3>1, <5>1, <5>3
      <4>2. Meant(v) = Nil
        BY <4>1 DEF Meant, MeantItem, MeantLeaf, Nil
      <4>3. r = Nil
        BY <2>2, <4>2
      <4>4. Nil[1] # "float"
        BY DEF Nil
      <4> QED BY <3>1, <4>3, <4>4 DEF LeafChanged
    <3>2. CASE local # Nil
      <4>1. local = v /\ schema.type \in Primitives /\ TypedLeaf(schema.type, local)
        BY <1>4, <3>2, SentShape
      <4>2. Json(local) = JsonLeaf(local)
        BY <4>1, TypedIsSent DEF Json, JsonItem
      <4>3. r = JsonLeaf(local)
        BY <2>2, <3>2, <4>2, MeantIsSent
      <4>4. CASE schema.type = "integer"
        <5>1. local = GoInt(local[2]) /\ local[2] \in Int
          BY <4>1, <4>4 DEF TypedLeaf
        <5>2. PICK n \in Int : local = GoInt(n)
          BY <5>1
        <5> QED BY <4>3, <4>4, <5>2, IntegerSame
      <4>5. CASE schema.type # "integer"
        <5>1. local[1] \in {"string", "float", "bool"}
          BY <4>1, <4>5 DEF TypedLeaf, Float, Primitives
        <5> QED BY <4>3, <4>5, <5>1, LeafSame
      <4> QED BY <4>4, <4>5
    <3> QED BY <3>1, <3>2
  <2> QED BY <1>4, <2>3 DEF ImmutableViolated
<1>5. CASE schema.type \notin {"list", "object"} /\ ~schema.immutable
  BY <1>5 DEF ImmutableViolated
<1> QED BY <1>1, <1>2, <1>3, <1>4, <1>5

-----------------------------------------------------------------------------
(* Steps                                                                   *)

\* What is left alone is the same.
LEMMA SameIsItself ==
    ASSUME NEW a
    PROVE  Same(a, a)
<1> DEFINE s == a[2]
           f == [k \in DOMAIN s |-> k]
<1> HIDE DEF s
<1>1. f \in Bijection(DOMAIN s, DOMAIN s) /\ \A k \in DOMAIN s : s[k] = s[f[k]]
  <2>1. f \in [DOMAIN s -> DOMAIN s] /\ \A k \in DOMAIN s : f[k] = k
    OBVIOUS
  <2> HIDE DEF f
  <2>2. f \in Injection(DOMAIN s, DOMAIN s) /\ f \in Surjection(DOMAIN s, DOMAIN s)
    BY <2>1 DEF Injection, Surjection, IsInjective
  <2> QED BY <2>1, <2>2 DEF Bijection
<1> HIDE DEF f
<1>2. Permuted(s, s)
  BY <1>1 DEF Permuted
<1> QED BY <1>2 DEF Same, s

\* A list that the API returns in another order has the same items.
LEMMA ItemsAreRearranged ==
    ASSUME RemoteInv, NEW checked \in Rearranged(remote)
    PROVE  /\ checked.subject = Nil \/ Conforming(schema, checked.subject)
           /\ Same(Frozen(checked.subject), Frozen(remote.subject))
<1>1. CASE ~(schema.ignoreOrder /\ remote.subject # Nil)
  <2>1. checked = remote
    BY <1>1 DEF Rearranged
  <2> QED BY <2>1, SameIsItself DEF RemoteInv
<1>2. CASE schema.ignoreOrder /\ remote.subject # Nil
  <2> DEFINE s == remote.subject[2]
  <2>1. schema.type = "list" /\ remote.subject = List(s) /\ IsSeq(s)
    BY <1>2, SchemasAssumption DEF RemoteInv, Conforming
  <2>2. PICK f \in Bijection(DOMAIN s, DOMAIN s) :
           checked = Both(List([k \in DOMAIN s |-> s[f[k]]]), remote.other)
    BY <1>2 DEF Rearranged
  <2> DEFINE t == [k \in DOMAIN s |-> s[f[k]]]
  <2>3. checked.subject = List(t)
    BY <2>2 DEF Both
  <2>4. /\ \A k \in DOMAIN s : f[k] \in DOMAIN s
        /\ \A k \in DOMAIN s : \E j \in DOMAIN s : f[j] = k
    BY DEF Bijection, Injection, Surjection
  <2>5. IsSeq(t) /\ DOMAIN t = DOMAIN s
    BY <2>1, ItemByItem
  <2>6. ToSet(t) = ToSet(s)
    BY <2>4 DEF ToSet
  <2>7. Conforming(schema, List(t))
    <3>1. Conforming(schema, List(s))
      BY <1>2, <2>1 DEF RemoteInv
    <3>2. \A x \in ToSet(t) :
              IF schema.items = "object" THEN ConformingMap(schema, x)
                                         ELSE ConformingValue(schema.items, x)
      BY <2>1, <2>6, <3>1 DEF Conforming, List
    <3> HIDE DEF t
    <3> QED BY <2>1, <2>5, <3>2 DEF Conforming, List
  <2>8. List(t) # Nil /\ List(s) # Nil
    BY DEF List, Nil
  <2>10. f \in Bijection(DOMAIN t, DOMAIN s) /\ \A k \in DOMAIN t : t[k] = s[f[k]]
    BY <2>2
  <2>9. Same(Frozen(List(t)), Frozen(List(s)))
    <3>1. CASE ~schema.immutable
      BY <2>1, <2>8, <3>1 DEF Frozen, Same
    <3>2. CASE schema.immutable /\ schema.items # "object"
      <4>1. Frozen(List(t)) = List(t) /\ Frozen(List(s)) = List(s)
        BY <2>1, <2>8, <3>2 DEF Frozen
      <4>2. List(t)[2] = t /\ List(s)[2] = s
        BY DEF List
      <4> HIDE DEF t, s
      <4> QED BY <1>2, <2>8, <2>10, <4>1, <4>2 DEF Same, Permuted
    <3>3. CASE schema.immutable /\ schema.items = "object"
      <4> DEFINE u == [k \in DOMAIN t |-> View(t[k], Kept)]
                 w == [k \in DOMAIN s |-> View(s[k], Kept)]
      <4>1. Frozen(List(t)) = List(u)
        <5>1. Frozen(List(t)) = Each(List(t), LAMBDA m : View(m, Kept))
          BY <2>1, <2>8, <3>3 DEF Frozen
        <5> HIDE DEF t
        <5> QED BY <5>1 DEF Each, List
      <4>2. Frozen(List(s)) = List(w)
        <5>1. Frozen(List(s)) = Each(List(s), LAMBDA m : View(m, Kept))
          BY <2>1, <2>8, <3>3 DEF Frozen
        <5> HIDE DEF s
        <5> QED BY <5>1 DEF Each, List
      <4>3. Permuted(u, w)
        <5>1. DOMAIN u = DOMAIN t /\ DOMAIN w = DOMAIN s
          OBVIOUS
        <5>2. \A k \in DOMAIN t : f[k] \in DOMAIN s
          BY <2>4, <2>5
        <5>3. \A k \in DOMAIN u : u[k] = w[f[k]]
          BY <2>10, <5>1, <5>2
        <5> HIDE DEF u, w, t, s
        <5> QED BY <2>10, <5>1, <5>3 DEF Permuted
      <4>4. List(u) # Nil /\ List(w) # Nil /\ List(u)[2] = u /\ List(w)[2] = w
        BY DEF List, Nil
      <4> HIDE DEF u, w
      <4> QED BY <1>2, <4>1, <4>2, <4>3, <4>4 DEF Same
    <3> QED BY <3>1, <3>2, <3>3
  <2> HIDE DEF t, s
  <2> QED BY <2>1, <2>3, <2>7, <2>9
<1> QED BY <1>1, <1>2

LEMMA SameIs ==
    ASSUME NEW a, NEW b, NEW c, a = b, Same(b, c)
    PROVE  Same(a, c)
BY DEF Same

\* An update puts what is configured, or what the API had.
LEMMA UpdateKeepsFrozen ==
    ASSUME RemoteInv, Update, remote' # remote
    PROVE  Same(Frozen(remote'.subject), Frozen(remote.subject))
<1> DEFINE local == Populate(schema, config.subject)
<1>1. PICK checked \in Rearranged(remote) :
         /\ ~ImmutablePanics(schema, checked.subject, local)
         /\ ~ImmutableViolated(schema, checked.subject, local)
         /\ Put
  BY DEF Update
<1>2. remote'.subject = IF local = Nil THEN remote.subject ELSE Json(local)
  BY <1>1 DEF Put, Both
<1>3. CASE local = Nil
  BY <1>2, <1>3, SameIsItself
<1>4. CASE local # Nil
  <2>1. /\ checked.subject = Nil \/ Conforming(schema, checked.subject)
        /\ Same(Frozen(checked.subject), Frozen(remote.subject))
    BY ItemsAreRearranged
  <2>2. schema \in Schemas /\ config.subject \in ConfigValues[schema]
    BY DEF RemoteInv
  <2>3. PICK l, r : l = local /\ r = checked.subject
    OBVIOUS
  <2> HIDE DEF local
  <2>4. Frozen(Json(l)) = Frozen(r)
    <3>1. l = Populate(schema, config.subject)
      BY <2>3 DEF local
    <3> QED BY <1>1, <1>4, <2>1, <2>2, <2>3, <3>1, FrozenIsKept
  <2>5. remote'.subject = Json(l)
    BY <1>2, <1>4, <2>3
  <2> QED BY <2>1, <2>3, <2>4, <2>5, SameIs
<1> QED BY <1>3, <1>4

LEMMA ConfigStays ==
    ASSUME RemoteInv, [Next]_vars
    PROVE  schema' = schema /\ config'.subject \in ConfigValues[schema]
<1>1. CASE Configure
  <2>1. config' \in Configs /\ schema' = schema
    BY <1>1 DEF Configure
  <2>2. PICK v \in ConfigValues[schema], o \in Others : config' = Both(v, o)
    BY <2>1 DEF Configs
  <2> QED BY <2>1, <2>2 DEF Both
<1>2. CASE ~Configure
  <2>1. schema' = schema /\ config' = config
    BY <1>2 DEF Next, Create, Read, Update, Edit, vars
  <2> QED BY <2>1 DEF RemoteInv
<1> QED BY <1>1, <1>2

LEMMA NextRemoteInv ==
    ASSUME RemoteInv, [Next]_vars
    PROVE  RemoteInv'
<1>0. schema' = schema /\ config'.subject \in ConfigValues[schema] /\ schema \in Schemas
  BY ConfigStays DEF RemoteInv
<1>1. \A p \in Schemas : \A v \in ConfigValues[p] :
         Json(Populate(p, v)) = Nil \/ Conforming(p, Json(Populate(p, v)))
  BY SentConforms, JsonOfNil
<1>2. SUFFICES /\ remote' = Both(remote'.subject, remote'.other)
               /\ remote'.subject = Nil \/ Conforming(schema, remote'.subject)
  BY <1>0 DEF RemoteInv
<1>3. CASE UNCHANGED remote
  BY <1>3 DEF RemoteInv
<1>4. ASSUME NEW payload, payload = Populate(schema, config.subject),
             remote' = Both(Json(payload), config.other)
      PROVE  /\ remote' = Both(remote'.subject, remote'.other)
             /\ remote'.subject = Nil \/ Conforming(schema, remote'.subject)
  <2>1. remote'.subject = Json(payload) /\ remote'.other = config.other
    BY <1>4 DEF Both
  <2> QED BY <1>1, <1>4, <2>1 DEF RemoteInv
<1>5. CASE Create
  <2>1. PICK payload : payload = Populate(schema, config.subject)
    OBVIOUS
  <2>2. remote' = Both(Json(payload), config.other)
    BY <1>5, <2>1 DEF Create
  <2> QED BY <1>4, <2>1, <2>2
<1>6. CASE Put
  <2>1. PICK payload : payload = Populate(schema, config.subject)
    OBVIOUS
  <2>2. remote' = Both(IF payload = Nil THEN remote.subject ELSE Json(payload),
                       config.other)
    BY <1>6, <2>1 DEF Put
  <2>3. CASE payload = Nil
    <3>1. remote'.subject = remote.subject /\ remote'.other = config.other
      BY <2>2, <2>3 DEF Both
    <3> QED BY <2>2, <2>3, <3>1 DEF RemoteInv
  <2> QED BY <1>4, <2>1, <2>2, <2>3
<1>7. CASE Edit
  <2>1. PICK v \in RemoteValues[schema] : remote' = [remote EXCEPT !.subject = v]
    BY <1>7 DEF Edit
  <2>2. remote' = Both(v, remote.other)
    BY <2>1 DEF RemoteInv, Both
  <2>3. remote'.subject = v /\ remote'.other = remote.other
    BY <2>2 DEF Both
  <2> QED BY <1>0, <2>2, <2>3, RemoteAssumption
<1>8. Create \/ Put \/ Edit \/ UNCHANGED remote
  BY DEF Next, Read, Update, Configure, vars
<1> QED BY <1>3, <1>5, <1>6, <1>7, <1>8

LEMMA InitRemoteInv ==
    ASSUME Init
    PROVE  RemoteInv
<1>1. PICK v \in ConfigValues[schema], o \in Others : config = Both(v, o)
  BY DEF Init, Configs
<1>2. config.subject = v /\ remote.subject = Nil /\ remote.other = "absent"
  BY <1>1 DEF Init, Both, Absent
<1> QED BY <1>1, <1>2 DEF Init, RemoteInv, Absent

(***************************************************************************)
(* No update changes what the document has as immutable, whatever the type *)
(* of the property, be it a list or an object, and whatever other clients  *)
(* have made of it meanwhile (checkImmutableFields, resource_factory.go).  *)
(***************************************************************************)
THEOREM FrozenStaysFrozen == Spec => UpdatesKeepFrozen
<1>1. Init => RemoteInv
  BY InitRemoteInv
<1>2. RemoteInv /\ [Next]_vars => RemoteInv'
  BY NextRemoteInv
<1>3. RemoteInv /\ [Next]_vars =>
         [(op' = "update" /\ remote' # remote) =>
             Same(Frozen(remote'.subject), Frozen(remote.subject))]_vars
  <2>1. SUFFICES ASSUME RemoteInv, Next, op' = "update", remote' # remote
                 PROVE  Same(Frozen(remote'.subject), Frozen(remote.subject))
    BY DEF vars
  <2>2. Update
    BY <2>1 DEF Next, Create, Read, Configure, Edit
  <2> QED BY <2>1, <2>2, UpdateKeepsFrozen
<1> QED BY <1>1, <1>2, <1>3, PTL DEF Spec, UpdatesKeepFrozen

\* A refusal, of what is configured and what the API had when it was read.
Refusal ==
    result = "immutable" =>
        \E checked \in Rearranged(remote) :
            LET local == Populate(schema, config.subject)
            IN /\ ~ImmutablePanics(schema, checked.subject, local)
               /\ ImmutableViolated(schema, checked.subject, local)
RefusalInv == RemoteInv /\ Refusal

LEMMA SaveEnds ==
    ASSUME NEW data, NEW response, NEW success, Save(data, response, success)
    PROVE  result' \in {"panic", "failed", success}
BY DEF Save

LEMMA NextRefusal ==
    ASSUME RefusalInv, [Next]_vars
    PROVE  RefusalInv'
<1>0. RemoteInv /\ RemoteInv' /\ schema' = schema
  BY NextRemoteInv, ConfigStays DEF RefusalInv
<1>1. CASE UNCHANGED vars
  BY <1>0, <1>1 DEF RefusalInv, Refusal, vars, Rearranged
<1>2. CASE result' # "immutable"
  BY <1>0, <1>2 DEF RefusalInv, Refusal
<1>3. CASE Update /\ result' = "immutable"
  <2> DEFINE local == Populate(schema, config.subject)
  <2>1. PICK checked \in Rearranged(remote) :
           IF ImmutablePanics(schema, checked.subject, local)
           THEN result' = "panic" /\ UNCHANGED <<state, remote>>
           ELSE IF ImmutableViolated(schema, checked.subject, local)
           THEN Save(config, checked, "immutable") /\ UNCHANGED remote
           ELSE Put
    BY <1>3 DEF Update
  <2>2. ~Put
    <3>1. SUFFICES ASSUME Put
                   PROVE  FALSE
      OBVIOUS
    <3>2. PICK response : Save(config, response, "ok")
      BY <3>1 DEF Put
    <3> QED BY <1>3, <3>2, SaveEnds
  <2>3. /\ ~ImmutablePanics(schema, checked.subject, local)
        /\ ImmutableViolated(schema, checked.subject, local)
        /\ remote' = remote
    BY <1>3, <2>1, <2>2
  <2>4. config' = config
    BY <1>3 DEF Update
  <2>5. Rearranged(remote)' = Rearranged(remote)
    BY <1>0, <2>3 DEF Rearranged
  <2> QED BY <1>0, <2>3, <2>4, <2>5 DEF RefusalInv, Refusal
<1>4. CASE Create \/ Read \/ Configure \/ Edit
  <2>1. ASSUME NEW data, NEW response, Save(data, response, "ok")
        PROVE  result' # "immutable"
    BY <2>1, SaveEnds
  <2>2. result' # "immutable"
    BY <1>4, <2>1 DEF Create, Read, Configure, Edit
  <2> QED BY <1>2, <2>2
<1> QED BY <1>1, <1>2, <1>3, <1>4 DEF Next

(***************************************************************************)
(* An update is refused only if it asks for another value of something     *)
(* immutable, for properties of every kind but integers inside another     *)
(* and lists whose order means nothing (validateImmutableProperty,         *)
(* resource_factory.go).                                                   *)
(***************************************************************************)
THEOREM RefusalsAreAttempts == Spec => []ComparableAttempts
<1>1. Init => RefusalInv
  <2>1. SUFFICES ASSUME Init
                 PROVE  RefusalInv
    OBVIOUS
  <2>2. RemoteInv
    BY <2>1, InitRemoteInv
  <2> QED BY <2>1, <2>2 DEF Init, RefusalInv, Refusal
<1>2. RefusalInv /\ [Next]_vars => RefusalInv'
  BY NextRefusal
<1>3. RefusalInv => ComparableAttempts
  <2>1. SUFFICES ASSUME RefusalInv, result = "immutable", ~Integers, ~schema.ignoreOrder,
                        Same(Frozen(Meant(config.subject)), Frozen(remote.subject))
                 PROVE  FALSE
    BY DEF ComparableAttempts, OnlyAttemptsAreRefused
  <2>2. PICK local : local = Populate(schema, config.subject)
    OBVIOUS
  <2>3. /\ ~ImmutablePanics(schema, remote.subject, local)
        /\ ImmutableViolated(schema, remote.subject, local)
    BY <2>1, <2>2 DEF RefusalInv, Refusal, Rearranged
  <2>4. Frozen(Meant(config.subject)) = Frozen(remote.subject)
    BY <2>1 DEF Same
  <2>5. /\ schema \in Schemas /\ config.subject \in ConfigValues[schema]
        /\ remote.subject = Nil \/ Conforming(schema, remote.subject)
    BY <2>1 DEF RefusalInv, RemoteInv
  <2> QED BY <2>1, <2>2, <2>3, <2>4, <2>5, SameIsAllowed
<1> QED BY <1>1, <1>2, <1>3, PTL DEF Spec

-----------------------------------------------------------------------------
(* The order of lists                                                      *)

\* One more item is looked at.
OneMore(s, S, k, before) == IF s[k] \in S THEN Append(before, s[k]) ELSE before

\* The items picked so far are what their equation says they are.
LEMMA PickedIs ==
    ASSUME NEW s, Len(s) \in Nat, NEW S
    PROVE  \E g : /\ g = [k \in 0..Len(s) |->
                             IF k = 0 THEN <<>> ELSE OneMore(s, S, k, g[k - 1])]
                  /\ Picked(s, S) = g[Len(s)]
<1> DEFINE F(g, n) == [k \in 0..n |->
                          IF k = 0 THEN <<>> ELSE OneMore(s, S, k, g[k - 1])]
<1>1. \E g : g = F(g, Len(s))
  <2>1. \A n \in Nat : \E g : g = F(g, n)
    <3> DEFINE Bad == {n \in Nat : ~ \E g : g = F(g, n)}
    <3>1. SUFFICES ASSUME Bad # {} PROVE FALSE
      OBVIOUS
    <3>2. PICK n \in Bad : \A m \in Bad : n <= m
      <4>1. Bad \in SUBSET Nat
        OBVIOUS
      <4> HIDE DEF Bad
      <4> QED BY <4>1, <3>1, LeastIsThere
    <3>3. n \in Nat /\ ~ \E g : g = F(g, n)
      OBVIOUS
    <3>4. CASE n = 0
      <4> DEFINE h == [k \in 0..0 |-> <<>>]
      <4>1. h = F(h, n)
        BY <3>4
      <4> QED BY <4>1, <3>3
    <3>5. CASE n # 0
      <4>1. n - 1 \in Nat /\ n - 1 \notin Bad
        <5>1. n - 1 \in Nat /\ ~(n <= n - 1)
          BY <3>3, <3>5
        <5> QED BY <5>1, <3>2
      <4>2. PICK g : g = F(g, n - 1)
        BY <4>1
      <4> DEFINE h == F(g, n)
      <4>3. \A k \in 0..(n - 1) : h[k] = g[k]
        <5> TAKE k \in 0..(n - 1)
        <5>1. k \in 0..n
          BY <3>3
        <5>2. h[k] = IF k = 0 THEN <<>> ELSE OneMore(s, S, k, g[k - 1])
          BY <5>1
        <5>3. g[k] = F(g, n - 1)[k]
          BY <4>2
        <5>4. F(g, n - 1)[k] = IF k = 0 THEN <<>> ELSE OneMore(s, S, k, g[k - 1])
          OBVIOUS
        <5> QED BY <5>2, <5>3, <5>4
      <4>4. \A k \in 0..n : k # 0 => h[k - 1] = g[k - 1]
        <5> TAKE k \in 0..n
        <5> HAVE k # 0
        <5>1. k - 1 \in 0..(n - 1)
          BY <3>3
        <5> HIDE DEF h
        <5> QED BY <5>1, <4>3
      <4>5. h = F(h, n)
        <5> HIDE DEF h
        <5>1. \A k \in 0..n :
                 (IF k = 0 THEN <<>> ELSE OneMore(s, S, k, g[k - 1]))
                 = (IF k = 0 THEN <<>> ELSE OneMore(s, S, k, h[k - 1]))
          BY <4>4
        <5>2. F(g, n) = F(h, n)
          BY <5>1
        <5> QED BY <5>2 DEF h
      <4> QED BY <4>5, <3>3
    <3> QED BY <3>4, <3>5
  <2> HIDE DEF F
  <2> QED BY <2>1
<1> DEFINE g == CHOOSE h : h = F(h, Len(s))
<1>2. g = F(g, Len(s))
  <2> HIDE DEF F
  <2> QED BY <1>1
<1>3. Picked(s, S) = g[Len(s)]
  BY DEF Picked, OneMore
<1> HIDE DEF g
<1> QED BY <1>2, <1>3

\* What is known of the items q picked of the first n.
PickedSoFar(s, S, n, q) ==
    /\ q \in Seq(ToSet(s))
    /\ ToSet(q) = {s[k] : k \in {j \in 1..n : s[j] \in S}}
    /\ (\A k \in 1..n : s[k] \in S) => q = SubSeq(s, 1, n)
    /\ (\A k \in 1..n : s[k] \notin S) => q = <<>>
    /\ \A i, j \in 1..n : (i < j /\ s[i] \in S /\ s[j] \in S) => Before(q, s[i], s[j])

LEMMA PickedOneMore ==
    ASSUME NEW s, IsSeq(s), NEW S, NEW n \in 1..Len(s), NEW q, PickedSoFar(s, S, n - 1, q)
    PROVE  PickedSoFar(s, S, n, OneMore(s, S, n, q))
<1> DEFINE T == ToSet(s)
<1>0. Len(s) \in Nat /\ DOMAIN s = 1..Len(s) /\ s \in Seq(T)
  BY SeqIs DEF IsSeq
<1>00. s[n] \in T /\ n \in Nat /\ n # 0
  BY <1>0 DEF ToSet
<1>1. CASE s[n] \in S
  <2> DEFINE r == Append(q, s[n])
  <2>1. q \in Seq(T)
    BY DEF PickedSoFar
  <2>2. r \in Seq(T) /\ Len(r) = Len(q) + 1 /\ Len(q) \in Nat
        /\ \A k \in 1..Len(q) : r[k] = q[k]
    BY <1>00, <2>1, AppendProperties, LenProperties
  <2>3. r[Len(q) + 1] = s[n]
    BY <1>00, <2>1, AppendProperties
  <2>4. DOMAIN r = 1..(Len(q) + 1) /\ DOMAIN q = 1..Len(q)
    BY <2>1, <2>2, LenProperties
  <2> HIDE DEF r, T
  <2>5. ToSet(r) = ToSet(q) \cup {s[n]}
    BY <2>2, <2>3, <2>4 DEF ToSet
  <2>6. 1..n = 1..(n - 1) \cup {n}
    BY <1>0
  <2>7. ToSet(r) = {s[k] : k \in {j \in 1..n : s[j] \in S}}
    BY <1>1, <2>5, <2>6 DEF PickedSoFar
  <2>8. (\A k \in 1..n : s[k] \in S) => r = SubSeq(s, 1, n)
    <3> HAVE \A k \in 1..n : s[k] \in S
    <3>1. q = SubSeq(s, 1, n - 1)
      BY <2>6 DEF PickedSoFar
    <3>2. Append(SubSeq(s, 1, n - 1), s[n]) = SubSeq(s, 1, n)
      BY <1>0, <1>00
    <3> QED BY <3>1, <3>2 DEF r
  <2>9. ~ \A k \in 1..n : s[k] \notin S
    BY <1>1, <1>00
  <2>10. ASSUME NEW i \in 1..n, NEW j \in 1..n, i < j, s[i] \in S, s[j] \in S
         PROVE  Before(r, s[i], s[j])
    <3>1. CASE j # n
      <4>1. i \in 1..(n - 1) /\ j \in 1..(n - 1)
        BY <2>10, <3>1, <1>0
      <4>2. Before(q, s[i], s[j])
        BY <2>10, <4>1 DEF PickedSoFar
      <4>3. PICK k, l \in DOMAIN q : k < l /\ q[k] = s[i] /\ q[l] = s[j]
        BY <4>2 DEF Before
      <4>4. k \in DOMAIN r /\ l \in DOMAIN r /\ r[k] = s[i] /\ r[l] = s[j]
        BY <2>2, <2>4, <4>3
      <4> QED BY <4>3, <4>4 DEF Before
    <3>2. CASE j = n
      <4>1. i \in 1..(n - 1)
        BY <2>10, <3>2, <1>0
      <4>2. s[i] \in ToSet(q)
        BY <2>10, <4>1 DEF PickedSoFar
      <4>3. PICK k \in DOMAIN q : q[k] = s[i]
        BY <4>2 DEF ToSet
      <4>4. k \in DOMAIN r /\ r[k] = s[i] /\ Len(q) + 1 \in DOMAIN r /\ k < Len(q) + 1
        BY <2>2, <2>4, <4>3
      <4> QED BY <2>3, <3>2, <4>4 DEF Before
    <3> QED BY <3>1, <3>2
  <2>11. OneMore(s, S, n, q) = r
    BY <1>1 DEF OneMore, r
  <2> QED BY <2>2, <2>7, <2>8, <2>9, <2>10, <2>11 DEF PickedSoFar, T
<1>2. CASE s[n] \notin S
  <2>1. OneMore(s, S, n, q) = q
    BY <1>2 DEF OneMore
  <2>2. 1..n = 1..(n - 1) \cup {n}
    BY <1>0
  <2>3. {j \in 1..n : s[j] \in S} = {j \in 1..(n - 1) : s[j] \in S}
    BY <1>2, <2>2
  <2>4. ~ \A k \in 1..n : s[k] \in S
    BY <1>2, <1>00
  <2>5. \A i, j \in 1..n : (i < j /\ s[i] \in S /\ s[j] \in S) =>
            i \in 1..(n - 1) /\ j \in 1..(n - 1)
    BY <2>3
  <2> QED BY <2>1, <2>2, <2>3, <2>4, <2>5 DEF PickedSoFar
<1> QED BY <1>1, <1>2

\* What Picked picks.
LEMMA PickedOf ==
    ASSUME NEW s, IsSeq(s), NEW S
    PROVE  PickedSoFar(s, S, Len(s), Picked(s, S))
<1>0. Len(s) \in Nat
  BY SeqIs
<1>1. PICK g : /\ g = [k \in 0..Len(s) |->
                          IF k = 0 THEN <<>> ELSE OneMore(s, S, k, g[k - 1])]
               /\ Picked(s, S) = g[Len(s)]
  BY <1>0, PickedIs
<1> DEFINE Bad == {n \in 0..Len(s) : ~PickedSoFar(s, S, n, g[n])}
<1>2. Bad = {}
  <2>1. SUFFICES ASSUME Bad # {} PROVE FALSE
    OBVIOUS
  <2>2. PICK n \in Bad : \A m \in Bad : n <= m
    <3>1. Bad \in SUBSET Nat
      OBVIOUS
    <3> HIDE DEF Bad
    <3> QED BY <2>1, <3>1, LeastIsThere
  <2>3. CASE n = 0
    <3>1. g[0] = <<>>
      BY <1>0, <1>1
    <3>2. <<>> \in Seq(ToSet(s)) /\ ToSet(<<>>) = {}
      BY DEF ToSet
    <3>3. 1..0 = {}
      OBVIOUS
    <3>4. SubSeq(s, 1, 0) = <<>>
      BY SeqIs
    <3>5. PickedSoFar(s, S, 0, <<>>)
      BY <3>2, <3>3, <3>4 DEF PickedSoFar
    <3> QED BY <2>3, <3>1, <3>5
  <2>4. CASE n # 0
    <3>1. n \in 1..Len(s) /\ n - 1 \in 0..Len(s) /\ ~(n <= n - 1)
      BY <1>0, <2>4
    <3>2. n - 1 \notin Bad
      BY <2>2, <3>1
    <3>3. PickedSoFar(s, S, n - 1, g[n - 1])
      BY <3>1, <3>2
    <3>4. g[n] = OneMore(s, S, n, g[n - 1])
      <4>1. n \in 0..Len(s)
        OBVIOUS
      <4> HIDE DEF Bad
      <4> QED BY <1>1, <2>4, <4>1
    <3> QED BY <3>1, <3>3, <3>4, PickedOneMore
  <2> QED BY <2>3, <2>4
<1>3. Len(s) \in 0..Len(s)
  BY <1>0
<1> QED BY <1>1, <1>2, <1>3

-----------------------------------------------------------------------------
(* There and back                                                          *)

\* What Terraform holds of a primitive comes back as it went.
LEMMA TypedBack ==
    ASSUME NEW type \in Primitives, NEW v, TypedLeaf(type, v)
    PROVE  ConvertLeaf(type, JsonLeaf(v), FALSE) = v
<1>1. CASE type = "integer"
  <2>1. PICK n \in Int : v = GoInt(n)
    BY <1>1 DEF TypedLeaf
  <2>2. PICK x : x = JsonLeaf(v)
    OBVIOUS
  <2>3. x[1] = "float" /\ x[2] = 1000 * n
    BY <2>1, <2>2 DEF JsonLeaf, GoInt, Float
  <2>4. GoInt(x[2] \div 1000) = v
    BY <2>1, <2>3
  <2>5. ConvertLeaf(type, x, FALSE) = v
    BY <1>1, <2>3, <2>4 DEF ConvertLeaf
  <2> QED BY <2>2, <2>5, Zenon
<1>2. CASE type # "integer"
  <2>1. JsonLeaf(v) = v /\ v[1] \in {"string", "int", "float", "bool"}
    BY <1>2, TypedIsSent
  <2>2. ConvertLeaf(type, v, FALSE) = v
    BY <1>2, <2>1 DEF ConvertLeaf
  <2> QED BY <2>1, <2>2
<1> QED BY <1>1, <1>2

\* ... and so does text, but for numbers that have more than two decimals.
LEMMA TextBack ==
    ASSUME NEW type \in Primitives, NEW v, IsText(v), Parsed(type, v) # Failed,
           type = "number" => TwoDecimals(v)
    PROVE  ConvertLeaf(type, JsonLeaf(Parsed(type, v)), TRUE) = v
<1>0. v[1] = "string" /\ (v[2] \in {"int", "float", "padded"} => v[3] \in Int)
  BY TextIs
<1>1. v = Text(v[2], v[3])
  BY DEF IsText
<1>2. CASE type = "string"
  BY <1>0, <1>2 DEF Parsed, JsonLeaf, ConvertLeaf
<1>3. CASE type = "integer"
  <2>1. v[2] = "int" /\ v[3] \in Int /\ Parsed(type, v) = <<"int64", v[3]>>
    BY <1>0, <1>3 DEF Parsed
  <2>2. PICK x : x = JsonLeaf(Parsed(type, v))
    OBVIOUS
  <2>3. x[1] = "float" /\ x[2] = 1000 * v[3]
    BY <2>1, <2>2 DEF JsonLeaf, Float
  <2>4. Text("int", x[2] \div 1000) = v
    BY <1>1, <2>1, <2>3
  <2>5. ConvertLeaf(type, x, TRUE) = v
    BY <1>3, <2>3, <2>4 DEF ConvertLeaf
  <2> QED BY <2>2, <2>5, Zenon
<1>4. CASE type = "number"
  <2>1. \A x \in Int : ConvertLeaf(type, JsonLeaf(Float(x)), TRUE) = Fixed(x)
    <3> TAKE x \in Int
    <3>1. JsonLeaf(Float(x)) = Float(x)
      BY FloatIs DEF JsonLeaf
    <3> QED BY <1>4, <3>1, FloatIs DEF ConvertLeaf
  <2>2. CASE v = Text("int", 0)
    <3>1. v[2] = "int" /\ v[3] = 0
      BY <2>2 DEF Text
    <3>2. Parsed(type, v) = Float(0)
      BY <1>4, <3>1 DEF Parsed
    <3>3. Fixed(0) = v
      BY <2>2 DEF Fixed
    <3>5. 0 \in Int
      OBVIOUS
    <3>4. ConvertLeaf(type, JsonLeaf(Float(0)), TRUE) = Fixed(0)
      BY <2>1, <3>5, Zenon
    <3> QED BY <3>2, <3>3, <3>4, Zenon
  <2>3. CASE v[2] = "float" /\ v[3] % 10 = 0 /\ v[3] % 100 # 0
    <3>1. PICK x : x = v[3]
      OBVIOUS
    <3>2. x \in Int /\ x % 10 = 0 /\ x % 100 # 0
      BY <1>0, <2>3, <3>1
    <3>3. Parsed(type, v) = Float(x)
      BY <1>4, <2>3, <3>1 DEF Parsed
    <3>4. x # 0 /\ ((x + 5) \div 10) * 10 = x
      BY <3>2
    <3>5. Fixed(x) = Text("float", x)
      BY <3>2, <3>4 DEF Fixed
    <3>6. ConvertLeaf(type, JsonLeaf(Float(x)), TRUE) = Fixed(x)
      BY <2>1, <3>2
    <3>7. v = Text("float", x)
      BY <1>1, <2>3, <3>1, Zenon
    <3> QED BY <3>3, <3>5, <3>6, <3>7, Zenon
  <2> QED BY <1>4, <2>2, <2>3 DEF TwoDecimals
<1>5. CASE type = "boolean"
  <2>1. v[2] = "bool" /\ Parsed(type, v) = <<"bool", v[3]>>
    BY <1>5 DEF Parsed
  <2>2. JsonLeaf(Parsed(type, v)) = <<"bool", v[3]>>
    BY <2>1 DEF JsonLeaf
  <2>3. ConvertLeaf(type, <<"bool", v[3]>>, TRUE) = Text("bool", v[3])
    BY DEF ConvertLeaf
  <2> QED BY <1>1, <2>1, <2>2, <2>3
<1> QED BY <1>2, <1>3, <1>4, <1>5 DEF Primitives

\* The name behind one of Terraform's.
LEMMA SourceIs ==
    ASSUME NEW p, NEW m, NEW tf, NEW n \in DOMAIN m[2], Named(p, n).tf = tf
    PROVE  Source(p, m, tf) \in DOMAIN m[2] /\ Named(p, Source(p, m, tf)).tf = tf
BY DEF Source

\* An object comes back as it went, numbers in text aside.
LEMMA MapBack ==
    ASSUME NEW p \in Schemas, NEW m, Sendable(p, m),
           \A c \in ToSet(p.children) :
               (p.type = "object" /\ c.type = "number" /\ Has(m, c.tf)) =>
                   TwoDecimals(m[2][c.tf])
    PROVE  ConvertMap(p, JsonItem(PopulateMap(p, m))) = m
<1> DEFINE names == SentNames(p, m)
           sent == PopulateMap(p, m)[2]
           f == [n \in names |-> JsonLeaf(sent[n])]
           r == JsonItem(PopulateMap(p, m))
<1>1. r = Map(f) /\ r[2] = f /\ DOMAIN f = names
  BY MapOfSent DEF Map
<1>2. \A tf \in DOMAIN m[2] : tf \in TfNames(p)
  BY DEF Sendable, TypedMap
<1>3. ASSUME NEW tf \in DOMAIN m[2]
      PROVE  /\ TfNamed(p, tf).name \in names
             /\ Named(p, TfNamed(p, tf).name) = TfNamed(p, tf)
             /\ TfNamed(p, tf).tf = tf /\ TfNamed(p, tf) \in ToSet(p.children)
  BY <1>2, TfChild DEF SentNames
<1>4. ASSUME NEW n \in names
      PROVE  \E tf \in DOMAIN m[2] : n = TfNamed(p, tf).name
  BY DEF SentNames
<1> HIDE DEF names, sent
<1>5. DOMAIN r[2] \subseteq Names(p)
  BY <1>1, <1>3, <1>4 DEF Names
<1>6. {Named(p, n).tf : n \in DOMAIN r[2]} = DOMAIN m[2]
  <2>1. ASSUME NEW n \in DOMAIN r[2]
        PROVE  Named(p, n).tf \in DOMAIN m[2]
    BY <1>1, <1>3, <1>4
  <2>2. ASSUME NEW tf \in DOMAIN m[2]
        PROVE  \E n \in DOMAIN r[2] : Named(p, n).tf = tf
    BY <1>1, <1>3
  <2> QED BY <2>1, <2>2
<1>7. ASSUME NEW tf \in DOMAIN m[2]
      PROVE  ConvertLeaf(Named(p, Source(p, r, tf)).type, r[2][Source(p, r, tf)],
                         p.type = "object") = m[2][tf]
  <2>1. PICK n : n = Source(p, r, tf)
    OBVIOUS
  <2>2. n \in DOMAIN r[2] /\ Named(p, n).tf = tf
    <3>1. TfNamed(p, tf).name \in DOMAIN r[2] /\ Named(p, TfNamed(p, tf).name).tf = tf
      BY <1>1, <1>3
    <3> HIDE DEF r
    <3> QED BY <2>1, <3>1, SourceIs
  <2>3. n \in names /\ r[2][n] = JsonLeaf(sent[n])
    BY <1>1, <2>2
  <2>4. PICK c, v : c = Named(p, n) /\ v = m[2][c.tf]
    OBVIOUS
  <2>5. /\ c \in ToSet(p.children) /\ c.name = n /\ c.type \in Primitives
        /\ sent[n] = PopulateLeaf(c.type, v)
        /\ \/ /\ IsText(v) /\ Parsed(c.type, v) # Failed
              /\ PopulateLeaf(c.type, v) = Parsed(c.type, v)
           \/ TypedLeaf(c.type, v)
    BY <2>3, <2>4, SentLeaf DEF names, sent
  <2>6. v = m[2][tf] /\ c.tf = tf
    BY <2>2, <2>4
  <2>7. CASE p.type = "object"
    <3>1. IsText(v)
      BY <2>5, <2>6, <2>7 DEF Sendable, TypedMap
    <3>2. PopulateLeaf(c.type, v) = Parsed(c.type, v) /\ v[1] = "string"
      BY <3>1, TextIs DEF PopulateLeaf
    <3>3. Parsed(c.type, v) # Failed
      <4>1. CASE IsText(v) /\ Parsed(c.type, v) # Failed
        BY <4>1
      <4>2. CASE TypedLeaf(c.type, v)
        <5>1. PopulateLeaf(c.type, v) = v
          BY <2>5, <4>2, TypedIsSent
        <5> QED BY <3>2, <5>1 DEF Failed
      <4> QED BY <2>5, <4>1, <4>2
    <3>4. c.type = "number" => TwoDecimals(v)
      BY <2>5, <2>6, <2>7 DEF Has
    <3>5. ConvertLeaf(c.type, JsonLeaf(Parsed(c.type, v)), TRUE) = v
      BY <2>5, <3>1, <3>3, <3>4, TextBack
    <3> QED BY <2>1, <2>3, <2>4, <2>5, <2>6, <2>7, <3>2, <3>5
  <2>8. CASE p.type # "object"
    <3>1. TypedLeaf(c.type, v)
      BY <2>5, <2>6, <2>8 DEF Sendable, TypedMap
    <3>2. PopulateLeaf(c.type, v) = v
      BY <2>5, <3>1, TypedIsSent
    <3>3. ConvertLeaf(c.type, JsonLeaf(v), FALSE) = v
      BY <2>5, <3>1, TypedBack
    <3> QED BY <2>1, <2>3, <2>4, <2>5, <2>6, <2>8, <3>2, <3>3
  <2> QED BY <2>7, <2>8
<1>8. ConvertMap(p, r) = Map([tf \in DOMAIN m[2] |-> m[2][tf]])
  <2>1. ConvertMap(p, r) =
           Map([tf \in {Named(p, n).tf : n \in DOMAIN r[2]} |->
                   ConvertLeaf(Named(p, Source(p, r, tf)).type, r[2][Source(p, r, tf)],
                               p.type = "object")])
    BY <1>5 DEF ConvertMap
  <2> HIDE DEF r
  <2> QED BY <1>6, <1>7, <2>1
<1> QED BY <1>8 DEF Sendable, TypedMap, IsMap

\* What the API answers, in whatever order.
LEMMA ResponseOf ==
    ASSUME schema \in Schemas, NEW o, o = Both(o.subject, o.other),
           o.subject = Nil \/ Conforming(schema, o.subject),
           NEW response \in Rearranged(o)
    PROVE  /\ response.other = o.other
           /\ response.subject = Nil <=> o.subject = Nil
           /\ response.subject = Nil \/ Conforming(schema, response.subject)
           /\ ~schema.ignoreOrder => response = o
           /\ (schema.ignoreOrder /\ o.subject # Nil) =>
                 /\ schema.type = "list"
                 /\ o.subject = List(o.subject[2]) /\ IsSeq(o.subject[2])
                 /\ response.subject = List(response.subject[2])
                 /\ IsSeq(response.subject[2])
                 /\ ToSet(response.subject[2]) = ToSet(o.subject[2])
<1>1. CASE ~(schema.ignoreOrder /\ o.subject # Nil)
  <2>1. response = o
    BY <1>1 DEF Rearranged
  <2> QED BY <1>1, <2>1
<1>2. CASE schema.ignoreOrder /\ o.subject # Nil
  <2> DEFINE s == o.subject[2]
  <2>1. schema.type = "list" /\ o.subject = List(s) /\ IsSeq(s)
    BY <1>2, SchemasAssumption DEF Conforming
  <2>2. PICK f \in Bijection(DOMAIN s, DOMAIN s) :
           response = Both(List([k \in DOMAIN s |-> s[f[k]]]), o.other)
    BY <1>2 DEF Rearranged
  <2> DEFINE t == [k \in DOMAIN s |-> s[f[k]]]
  <2>3. response.other = o.other /\ response.subject = List(t)
    BY <2>2 DEF Both
  <2>4. response.subject[2] = t /\ response.subject # Nil
    BY <2>3 DEF List, Nil
  <2>5. f \in [DOMAIN s -> DOMAIN s] /\ \A k \in DOMAIN s : \E j \in DOMAIN s : f[j] = k
    BY DEF Bijection, Injection, Surjection
  <2>6. IsSeq(t) /\ DOMAIN t = DOMAIN s
    BY <2>1, ItemByItem
  <2>7. ToSet(t) = ToSet(s)
    BY <2>5 DEF ToSet
  <2>8. Conforming(schema, List(t))
    <3>1. \A x \in ToSet(t) :
              IF schema.items = "object" THEN ConformingMap(schema, x)
                                         ELSE ConformingValue(schema.items, x)
      BY <1>2, <2>1, <2>7 DEF Conforming
    <3> HIDE DEF t
    <3> QED BY <2>1, <2>6, <3>1 DEF Conforming, List
  <2> HIDE DEF t, s
  <2> QED BY <1>2, <2>1, <2>3, <2>4, <2>6, <2>7, <2>8 DEF s
<1> QED BY <1>1, <1>2

\* Names that are the same for both, and values that stay as they are.
LEMMA PlainMap ==
    ASSUME NEW p, NEW m, IsMap(m), DOMAIN m[2] \subseteq Names(p),
           \A n \in DOMAIN m[2] :
               /\ Named(p, n).tf = n
               /\ ConvertLeaf(Named(p, n).type, m[2][n], p.type = "object") = m[2][n]
    PROVE  ConvertMap(p, m) = m
<1>1. {Named(p, n).tf : n \in DOMAIN m[2]} = DOMAIN m[2]
  OBVIOUS
<1>2. ASSUME NEW tf \in DOMAIN m[2]
      PROVE  Source(p, m, tf) = tf
  BY SourceIs
<1>3. ConvertMap(p, m) =
         Map([tf \in DOMAIN m[2] |->
                 ConvertLeaf(Named(p, Source(p, m, tf)).type, m[2][Source(p, m, tf)],
                             p.type = "object")])
  BY <1>1 DEF ConvertMap
<1>4. \A tf \in DOMAIN m[2] :
         ConvertLeaf(Named(p, Source(p, m, tf)).type, m[2][Source(p, m, tf)],
                     p.type = "object") = m[2][tf]
  BY <1>2
<1>5. ConvertMap(p, m) = Map([tf \in DOMAIN m[2] |-> m[2][tf]])
  BY <1>3, <1>4
<1> QED BY <1>5 DEF IsMap

\* Two objects that are compared, and differ only where one lacks a value.
LEMMA Panicking ==
    ASSUME NEW p \in Schemas, p.items = "object",
           NEW s, IsSeq(s), NEW t, IsSeq(t), NEW k \in DOMAIN s, NEW j \in DOMAIN t,
           \/ \A r \in ToSet(t) : ~EqualItems(p, s[k], r)
           \/ \A i \in ToSet(s) : ~EqualItems(p, i, t[j]),
           \A c \in ToSet(p.children) :
               Nil \notin {Get(s[k], c.name), Get(t[j], c.name)} =>
                   EqualLeaf(c.type, Get(s[k], c.name), Get(t[j], c.name))
    PROVE  IgnoreOrderPanics(p, List(s), List(t))
<1>1. /\ DOMAIN s = 1..Len(s) /\ Len(s) \in Nat
      /\ DOMAIN t = 1..Len(t) /\ Len(t) \in Nat
      /\ DOMAIN p.children = 1..Len(p.children) /\ Len(p.children) \in Nat
  BY SeqIs, SchemasAssumption
<1>2. List(s)[2] = s /\ List(t)[2] = t
  BY DEF List
<1>3. <<k, j>> \in Compared(p, List(s), List(t))
  <2>1. \/ \A i \in 1..(j - 1) : ~EqualItems(p, s[k], t[i])
        \/ \A i \in 1..(k - 1) : ~EqualItems(p, s[i], t[j])
    BY <1>1 DEF ToSet
  <2> QED BY <1>2, <2>1 DEF Compared
<1>4. ~EqualItems(p, s[k], t[j])
  BY DEF ToSet
<1> DEFINE U == Unequal(p, s[k], t[j])
<1>5. U # {} /\ U \in SUBSET Nat
  BY <1>1, <1>4 DEF EqualItems, Unequal
<1>6. PICK i \in U : \A h \in U : i <= h
  <2> HIDE DEF U
  <2> QED BY <1>5, LeastIsThere
<1>7. i \in DOMAIN p.children
      /\ ~EqualLeaf(p.children[i].type, Get(s[k], p.children[i].name),
                                        Get(t[j], p.children[i].name))
  BY DEF Unequal
<1>8. p.children[i] \in ToSet(p.children)
  BY <1>7 DEF ToSet
<1>9. Nil \in {Get(s[k], p.children[i].name), Get(t[j], p.children[i].name)}
  BY <1>7, <1>8
<1>10. EqualPanics(p, s[k], t[j])
  BY <1>6, <1>9 DEF EqualPanics
<1> QED BY <1>2, <1>3, <1>10 DEF IgnoreOrderPanics

LEMMA NothingIsUnequal ==
    ASSUME NEW type, NEW a, NEW b, Nil \in {a, b}, type \in Primitives
    PROVE  ~EqualLeaf(type, a, b)
<1>1. KindOf[type] # "nil"
  BY DEF KindOf, Primitives
<1> QED BY <1>1 DEF EqualLeaf, Nil

\* A property of an object in a list, found by a name that is the API's.
LEMMA Uncrossed ==
    ASSUME schema \in Schemas, ~Crossed, NEW c \in ToSet(schema.children),
           c.name \in TfNames(schema)
    PROVE  c.tf = c.name /\ TfNamed(schema, c.name) = c
<1>1. ASSUME NEW d \in ToSet(schema.children), d.tf = c.name
      PROVE  d = c
  BY <1>1 DEF Crossed
<1>2. TfNamed(schema, c.name) \in ToSet(schema.children)
      /\ TfNamed(schema, c.name).tf = c.name
  BY TfChild
<1> QED BY <1>1, <1>2

\* It is sent as it is.
LEMMA UncrossedIsSent ==
    ASSUME schema \in Schemas, schema.type = "list", ~Crossed, ~Integers,
           NEW m, TypedMap(schema, m),
           NEW c \in ToSet(schema.children), c.name \in DOMAIN m[2]
    PROVE  /\ c.tf = c.name
           /\ Get(m, c.name) = m[2][c.name]
           /\ Get(JsonItem(PopulateMap(schema, m)), c.name) = m[2][c.name]
           /\ EqualLeaf(c.type, m[2][c.name], m[2][c.name])
           /\ ConvertLeaf(c.type, m[2][c.name], FALSE) = m[2][c.name]
<1>1. c.name \in TfNames(schema)
  BY DEF TypedMap
<1>2. c.tf = c.name /\ TfNamed(schema, c.name) = c
  BY <1>1, Uncrossed
<1> DEFINE v == m[2][c.name]
<1>3. TypedLeaf(c.type, v) /\ c.type \in Primitives /\ c.type # "integer"
  BY <1>2, SchemasAssumption DEF TypedMap, Integers
<1>4. JsonLeaf(v) = v /\ PopulateLeaf(c.type, v) = v
  BY <1>3, TypedIsSent
<1>5. c.name \in SentNames(schema, m) /\ Named(schema, c.name) = c
  BY <1>2, ChildIsNamed DEF SentNames
<1>6. PopulateMap(schema, m)[2][c.name] = v
  <2>1. Sendable(schema, m)
    BY DEF Sendable
  <2> QED BY <1>2, <1>4, <1>5, <2>1, SentLeaf
<1>7. Get(JsonItem(PopulateMap(schema, m)), c.name) = v
  BY <1>4, <1>5, <1>6, MapOfSent DEF Get, Has, Map
<1>8. v[1] = KindOf[c.type]
  <2>1. CASE c.type = "string"
    BY <1>3, <2>1 DEF TypedLeaf, KindOf
  <2>2. CASE c.type = "number"
    BY <1>3, <2>2, FloatIs DEF TypedLeaf, KindOf
  <2>3. CASE c.type = "boolean"
    <3>1. v = <<"bool", v[2]>>
      BY <1>3, <2>3 DEF TypedLeaf
    <3>2. v[1] = "bool"
      BY <3>1
    <3> QED BY <2>3, <3>2 DEF KindOf
  <2> QED BY <1>3, <2>1, <2>2, <2>3 DEF Primitives
<1>9. ConvertLeaf(c.type, v, FALSE) = v
  <2>1. ConvertLeaf(c.type, JsonLeaf(v), FALSE) = v
    BY <1>3, TypedBack
  <2> QED BY <1>4, <2>1, Zenon
<1>10. Get(m, c.name) = v
  BY DEF Get, Has
<1> QED BY <1>2, <1>7, <1>8, <1>9, <1>10 DEF EqualLeaf

LEMMA NotFailed ==
    /\ \A f : Map(f) # Failed
    /\ \A s : List(s) # Failed /\ List(s) # Nil
    /\ \A type \in Primitives : \A v : TypedLeaf(type, v) => v # Failed /\ v # Nil
<1>1. ASSUME NEW type \in Primitives, NEW v, TypedLeaf(type, v)
      PROVE  v # Failed /\ v # Nil
  <2>1. v[1] \in {"string", "int", "float", "bool"}
    BY <1>1, TypedIsSent
  <2> QED BY <2>1 DEF Failed, Nil
<1> QED BY <1>1 DEF Map, List, Failed, Nil

\* What was sent and comes back as it is is saved as it was configured.
LEMMA BackAsSent ==
    ASSUME schema \in Schemas, NEW v \in ConfigValues[schema], NEW other,
           Exact(Both(v, other)),
           NEW local, local = Populate(schema, v), local # Nil
    PROVE  /\ Convert(schema, Json(local)) # Failed
           /\ Settled(schema, Convert(schema, Json(local))) = v
<1>1. CASE schema.type = "object"
  <2>1. Sendable(schema, v) /\ local = PopulateMap(schema, v) /\ v # Nil /\ v = Map(v[2])
    BY <1>1, SentShape, MapIs DEF Sendable, TypedMap
  <2>2. Json(local) = JsonItem(PopulateMap(schema, v))
    BY <2>1, SentIsMap DEF Json
  <2>3. ConvertMap(schema, JsonItem(PopulateMap(schema, v))) = v
    BY <1>1, <2>1, MapBack DEF Exact, Both
  <2>4. Convert(schema, Json(local)) = v
    BY <1>1, <2>2, <2>3 DEF Convert
  <2>5. v # Failed /\ schema.items # "integer"
    BY <1>1, <2>1, NotFailed, SchemasAssumption
  <2> QED BY <2>4, <2>5 DEF Settled
<1>2. CASE schema.type = "list" /\ schema.items = "object"
  <2> DEFINE s == v[2]
             t == local[2]
             u == [k \in DOMAIN t |-> JsonItem(t[k])]
  <2>1. /\ v = List(s) /\ IsSeq(s) /\ local = List(t) /\ DOMAIN t = DOMAIN s
        /\ \A k \in DOMAIN t : Sendable(schema, s[k]) /\ t[k] = PopulateMap(schema, s[k])
    BY <1>2, SentShape
  <2>2. Json(local) = List(u)
    BY <2>1, ListJson
  <2>3. ASSUME NEW k \in DOMAIN s
        PROVE  ConvertMap(schema, u[k]) = s[k] /\ s[k] # Failed
    <3>1. Sendable(schema, s[k]) /\ u[k] = JsonItem(PopulateMap(schema, s[k]))
      BY <2>1
    <3>2. s[k] = Map(s[k][2])
      BY <3>1, MapIs DEF Sendable, TypedMap
    <3>3. ConvertMap(schema, JsonItem(PopulateMap(schema, s[k]))) = s[k]
      BY <1>2, <3>1, MapBack
    <3> QED BY <3>1, <3>2, <3>3, NotFailed
  <2>4. DOMAIN u = DOMAIN s
    BY <2>1
  <2> HIDE DEF u, t, s
  <2>5. ~ \E m \in ToSet(List(u)[2]) : ConvertMap(schema, m) = Failed
    BY <2>3, <2>4 DEF List, ToSet
  <2>6. Convert(schema, List(u)) = Each(List(u), LAMBDA m : ConvertMap(schema, m))
    BY <1>2, <2>5 DEF Convert
  <2>7. Convert(schema, List(u)) = List([k \in DOMAIN u |-> ConvertMap(schema, u[k])])
    BY <2>6 DEF Each, List
  <2>8. s = [k \in DOMAIN s |-> s[k]]
    <3>1. PICK S : S = ToSet(s)
      OBVIOUS
    <3> QED BY <2>1, <3>1 DEF IsSeq
  <2>9. [k \in DOMAIN u |-> ConvertMap(schema, u[k])] = s
    BY <2>3, <2>4, <2>8
  <2>10. Convert(schema, Json(local)) = v
    BY <2>1, <2>2, <2>7, <2>9
  <2>11. v # Failed
    BY <2>1, NotFailed
  <2> QED BY <1>2, <2>10, <2>11 DEF Settled
<1>3. CASE schema.type = "list" /\ schema.items # "object"
  <2> DEFINE s == v[2]
             u == [k \in DOMAIN s |-> JsonItem(s[k])]
  <2>1. /\ v = List(s) /\ IsSeq(s) /\ local = v
        /\ schema.items \in Primitives
        /\ \A k \in DOMAIN s : TypedLeaf(schema.items, s[k])
    BY <1>3, SentShape
  <2>2. Json(local) = List(u)
    BY <2>1, ListJson
  <2>3. ASSUME NEW k \in DOMAIN s
        PROVE  u[k] = JsonLeaf(s[k])
    <3>1. s[k][1] # "map"
      BY <2>1, TypedIsSent
    <3> QED BY <3>1 DEF JsonItem
  <2>4. DOMAIN u = DOMAIN s
    OBVIOUS
  <2>5. s = [k \in DOMAIN s |-> s[k]]
    <3>1. PICK S : S = ToSet(s)
      OBVIOUS
    <3> QED BY <2>1, <3>1 DEF IsSeq
  <2> HIDE DEF u, s
  <2>6. Convert(schema, Json(local)) = List(u)
    BY <1>3, <2>2 DEF Convert
  <2>7. CASE schema.items = "integer"
    <3>1. ASSUME NEW k \in DOMAIN s
          PROVE  ConvertLeaf("integer", u[k], FALSE) = s[k]
      <4>1. ConvertLeaf("integer", JsonLeaf(s[k]), FALSE) = s[k]
        BY <2>1, <2>7, TypedBack
      <4> QED BY <2>3, <4>1, Zenon
    <3>2. Settled(schema, List(u)) = List([k \in DOMAIN u |-> ConvertLeaf("integer", u[k], FALSE)])
      <4>1. Settled(schema, List(u)) = Each(List(u), LAMBDA i : ConvertLeaf("integer", i, FALSE))
        BY <2>7 DEF Settled
      <4> QED BY <4>1 DEF Each, List
    <3>3. [k \in DOMAIN u |-> ConvertLeaf("integer", u[k], FALSE)] = [k \in DOMAIN s |-> s[k]]
      BY <2>4, <3>1, Zenon
    <3>4. Settled(schema, List(u)) = v
      BY <2>1, <2>5, <3>2, <3>3, Zenon
    <3> QED BY <2>6, <3>4, NotFailed
  <2>8. CASE schema.items # "integer"
    <3>1. ASSUME NEW k \in DOMAIN s
          PROVE  u[k] = s[k]
      BY <2>1, <2>3, <2>8, TypedIsSent
    <3>2. u = s
      <4>1. u = [k \in DOMAIN u |-> u[k]]
        BY DEF u
      <4> QED BY <2>4, <2>5, <3>1, <4>1
    <3> QED BY <2>1, <2>6, <2>8, <3>2, NotFailed DEF Settled
  <2> QED BY <2>7, <2>8
<1>4. CASE schema.type \notin {"object", "list"}
  <2>0. schema.items = ""
    BY <1>4, SchemasAssumption
  <2>1. local = v /\ schema.type \in Primitives /\ TypedLeaf(schema.type, v)
    BY <1>4, SentShape
  <2>2. Json(v) = JsonLeaf(v)
    BY <2>1, TypedIsSent DEF Json, JsonItem
  <2>3. ConvertLeaf(schema.type, JsonLeaf(v), FALSE) = v
    BY <2>1, TypedBack
  <2>4. Convert(schema, JsonLeaf(v)) = ConvertLeaf(schema.type, JsonLeaf(v), FALSE)
    BY <1>4, <2>0 DEF Convert
  <2>5. Convert(schema, Json(local)) = v
    BY <2>1, <2>2, <2>3, <2>4, Zenon
  <2> QED BY <2>0, <2>1, <2>5, NotFailed DEF Settled
<1> QED BY <1>1, <1>2, <1>3, <1>4

\* Lists that have equal items: the input stays as it is.
LEMMA AllKnown ==
    ASSUME NEW p, NEW s, IsSeq(s), NEW t, IsSeq(t),
           \A k \in DOMAIN s : \E j \in DOMAIN t : EqualItems(p, s[k], t[j]),
           \A j \in DOMAIN t : \E k \in DOMAIN s : EqualItems(p, s[k], t[j])
    PROVE  ProcessIgnoreOrder(p, List(s), List(t)) = List(s)
<1> DEFINE K == Known(p, List(s), List(t))
           A == Added(p, List(s), List(t))
<1>0. List(s)[2] = s /\ List(t)[2] = t
  BY DEF List
<1>1. \A k \in 1..Len(s) : s[k] \in K
  BY <1>0, SeqIs DEF Known, ToSet
<1>2. \A j \in 1..Len(t) : t[j] \notin A
  BY <1>0, SeqIs DEF Added, ToSet
<1>3. Picked(s, K) = SubSeq(s, 1, Len(s))
  <2> HIDE DEF K
  <2> QED BY <1>1, PickedOf DEF PickedSoFar
<1>4. Picked(t, A) = <<>>
  <2> HIDE DEF A
  <2> QED BY <1>2, PickedOf DEF PickedSoFar
<1>5. SubSeq(s, 1, Len(s)) = s /\ s \o <<>> = s
  BY DEF IsSeq
<1>6. ProcessIgnoreOrder(p, List(s), List(t)) = List(Picked(s, K) \o Picked(t, A))
  BY <1>0 DEF ProcessIgnoreOrder
<1> HIDE DEF K, A
<1> QED BY <1>3, <1>4, <1>5, <1>6

LEMMA PlainList ==
    ASSUME NEW p, p.type = "list", p.items = "object",
           NEW s, IsSeq(s), \A k \in DOMAIN s : ConvertMap(p, s[k]) = s[k] /\ s[k] # Failed
    PROVE  Convert(p, List(s)) = List(s)
<1>1. ~ \E m \in ToSet(List(s)[2]) : ConvertMap(p, m) = Failed
  BY DEF List, ToSet
<1>2. Convert(p, List(s)) = Each(List(s), LAMBDA m : ConvertMap(p, m))
  BY <1>1 DEF Convert
<1>3. Convert(p, List(s)) = List([k \in DOMAIN s |-> ConvertMap(p, s[k])])
  BY <1>2 DEF Each, List
<1>4. s = [k \in DOMAIN s |-> s[k]]
  <2>1. PICK S : S = ToSet(s)
    OBVIOUS
  <2> QED BY <2>1 DEF IsSeq
<1>5. [k \in DOMAIN s |-> ConvertMap(p, s[k])] = [k \in DOMAIN s |-> s[k]]
  OBVIOUS
<1> QED BY <1>3, <1>4, <1>5

LEMMA TypedEqual ==
    ASSUME NEW type \in Primitives, type # "integer", NEW v, TypedLeaf(type, v)
    PROVE  EqualLeaf(type, v, v)
<1>1. CASE type = "string"
  BY <1>1 DEF TypedLeaf, KindOf, EqualLeaf
<1>2. CASE type = "number"
  BY <1>2, FloatIs DEF TypedLeaf, KindOf, EqualLeaf
<1>3. CASE type = "boolean"
  <2>1. v = <<"bool", v[2]>>
    BY <1>3 DEF TypedLeaf
  <2>2. v[1] = "bool"
    BY <2>1
  <2> QED BY <1>3, <2>2 DEF KindOf, EqualLeaf
<1> QED BY <1>1, <1>2, <1>3 DEF Primitives

\* A list whose order means nothing comes back in the order it was sent.
LEMMA BackInOrder ==
    ASSUME schema \in Schemas, schema.ignoreOrder, ~Integers, ~Crossed,
           NEW v \in ConfigValues[schema],
           NEW local, local = Populate(schema, v), local # Nil,
           NEW r, r = List(r[2]), IsSeq(r[2]), ToSet(r[2]) = ToSet(Json(local)[2]),
           ~SavePanics(v, r)
    PROVE  Saved(v, r) = v /\ v # Failed
<1> DEFINE s == v[2]
           t == r[2]
           l == local[2]
           u == [k \in DOMAIN l |-> JsonItem(l[k])]
<1>0. schema.type = "list"
  BY SchemasAssumption
<1>1. /\ v = List(s) /\ IsSeq(s) /\ local = List(l) /\ DOMAIN l = DOMAIN s
  BY <1>0, SentShape
<1>2. Json(local) = List(u) /\ DOMAIN u = DOMAIN s
  BY <1>1, ListJson
<1> HIDE DEF u, l
<1>3. ToSet(t) = ToSet(u)
  BY <1>2 DEF List
<1>4. r # Nil /\ v # Nil /\ v # Failed
  BY <1>1, NotFailed
<1>5. ~IgnoreOrderPanics(schema, List(s), List(t))
  BY <1>1, <1>4 DEF SavePanics
<1>6. \A k \in DOMAIN s : \E j \in DOMAIN t : t[j] = u[k]
  BY <1>2, <1>3 DEF ToSet
<1>7. \A j \in DOMAIN t : \E k \in DOMAIN s : t[j] = u[k]
  BY <1>2, <1>3 DEF ToSet
<1>8. SUFFICES ASSUME \A k \in DOMAIN s : EqualItems(schema, s[k], u[k]),
                      Convert(schema, v) = v
               PROVE  Saved(v, r) = v
  <2>1. CASE schema.items = "object"
    <3>1. ASSUME NEW k \in DOMAIN s
          PROVE  /\ TypedMap(schema, s[k])
                 /\ u[k] = JsonItem(PopulateMap(schema, s[k]))
      BY <1>0, <1>1, <2>1, SentShape DEF u, l, Sendable
    <3>2. ASSUME NEW k \in DOMAIN s, NEW c \in ToSet(schema.children)
          PROVE  c.name \in DOMAIN s[k][2]
      <4>1. SUFFICES ASSUME c.name \notin DOMAIN s[k][2] PROVE FALSE
        OBVIOUS
      <4>2. PICK j \in DOMAIN t : t[j] = u[k]
        BY <1>6
      <4>3. ASSUME NEW x \in ToSet(t)
            PROVE  ~EqualItems(schema, s[k], x)
        <5>1. PICK i \in DOMAIN schema.children : schema.children[i] = c
          BY DEF ToSet
        <5>2. Get(s[k], c.name) = Nil
          BY <4>1 DEF Get, Has
        <5>3. ~EqualLeaf(c.type, Get(s[k], c.name), Get(x, c.name))
          <6>1. c.type \in Primitives
            BY SchemasAssumption
          <6>2. PICK a, b : a = Get(s[k], c.name) /\ b = Get(x, c.name)
            OBVIOUS
          <6>3. ~EqualLeaf(c.type, a, b)
            BY <5>2, <6>1, <6>2, NothingIsUnequal
          <6> QED BY <6>2, <6>3
        <5> QED BY <2>1, <5>1, <5>3 DEF EqualItems, Unequal
      <4>4. ASSUME NEW d \in ToSet(schema.children),
                   Nil \notin {Get(s[k], d.name), Get(t[j], d.name)}
            PROVE  EqualLeaf(d.type, Get(s[k], d.name), Get(t[j], d.name))
        <5>1. d.name \in DOMAIN s[k][2]
          BY <4>4 DEF Get, Has
        <5>2. PICK m : m = s[k]
          OBVIOUS
        <5>3. /\ Get(m, d.name) = m[2][d.name]
              /\ Get(JsonItem(PopulateMap(schema, m)), d.name) = m[2][d.name]
              /\ EqualLeaf(d.type, m[2][d.name], m[2][d.name])
          BY <1>0, <3>1, <5>1, <5>2, UncrossedIsSent
        <5>4. t[j] = JsonItem(PopulateMap(schema, m))
          BY <3>1, <4>2, <5>2
        <5> QED BY <5>2, <5>3, <5>4
      <4>5. IgnoreOrderPanics(schema, List(s), List(t))
        <5> HIDE DEF s, t
        <5> QED BY <1>1, <2>1, <4>3, <4>4, Panicking DEF t
      <4> QED BY <1>5, <4>5
    <3>3. ASSUME NEW k \in DOMAIN s, NEW c \in ToSet(schema.children)
          PROVE  /\ c.tf = c.name
                 /\ EqualLeaf(c.type, Get(s[k], c.name), Get(u[k], c.name))
                 /\ ConvertLeaf(c.type, s[k][2][c.name], FALSE) = s[k][2][c.name]
      BY <1>0, <3>1, <3>2, UncrossedIsSent
    <3>4. ASSUME NEW k \in DOMAIN s
          PROVE  EqualItems(schema, s[k], u[k])
      BY <2>1, <3>3 DEF EqualItems, Unequal, ToSet
    <3>5. ASSUME NEW k \in DOMAIN s
          PROVE  ConvertMap(schema, s[k]) = s[k] /\ s[k] # Failed
      <4>1. IsMap(s[k]) /\ DOMAIN s[k][2] \subseteq TfNames(schema)
        BY <3>1 DEF TypedMap
      <4>2. ASSUME NEW n \in DOMAIN s[k][2]
            PROVE  /\ n \in Names(schema) /\ Named(schema, n).tf = n
                   /\ ConvertLeaf(Named(schema, n).type, s[k][2][n], FALSE) = s[k][2][n]
        <5>1. PICK c \in ToSet(schema.children) : n = c.tf
          BY <4>1 DEF TfNames
        <5>2. c.name = n /\ Named(schema, n) = c
          BY <3>3, <5>1, ChildIsNamed
        <5>3. ConvertLeaf(c.type, s[k][2][n], FALSE) = s[k][2][n]
          BY <3>3, <5>2
        <5> QED BY <5>1, <5>2, <5>3 DEF Names
      <4>3. (schema.type = "object") = FALSE
        BY <1>0
      <4>4. ConvertMap(schema, s[k]) = s[k]
        BY <4>1, <4>2, <4>3, PlainMap
      <4> QED BY <4>1, <4>4, MapIs, NotFailed
    <3>6. Convert(schema, List(s)) = List(s)
      <4> HIDE DEF s
      <4> QED BY <1>0, <1>1, <2>1, <3>5, PlainList
    <3> QED BY <1>1, <1>4, <1>8, <3>4, <3>6
  <2>2. CASE schema.items # "object"
    <3>1. ASSUME NEW k \in DOMAIN s
          PROVE  TypedLeaf(schema.items, s[k]) /\ u[k] = JsonItem(s[k])
      BY <1>0, <1>1, <2>2, SentShape DEF u, l
    <3>2. schema.items \in Primitives /\ schema.items # "integer"
      BY <1>0, <2>2, SchemasAssumption DEF Integers
    <3>3. ASSUME NEW k \in DOMAIN s
          PROVE  EqualItems(schema, s[k], u[k])
      <4>1. s[k][1] # "map" /\ JsonLeaf(s[k]) = s[k]
        BY <3>1, <3>2, TypedIsSent
      <4>2. u[k] = s[k]
        BY <3>1, <4>1 DEF JsonItem
      <4> QED BY <2>2, <3>1, <3>2, <4>2, TypedEqual DEF EqualItems
    <3>4. Convert(schema, v) = v
      BY <1>0, <2>2 DEF Convert
    <3> QED BY <1>4, <1>8, <3>3, <3>4
  <2> QED BY <2>1, <2>2
<1>9. ProcessIgnoreOrder(schema, List(s), List(t)) = List(s)
  <2>1. \A k \in DOMAIN s : \E j \in DOMAIN t : EqualItems(schema, s[k], t[j])
    BY <1>6, <1>8
  <2>2. \A j \in DOMAIN t : \E k \in DOMAIN s : EqualItems(schema, s[k], t[j])
    BY <1>7, <1>8
  <2> HIDE DEF s
  <2> QED BY <1>1, <2>1, <2>2, AllKnown
<1>10. Ordered(v, r) = v
  BY <1>1, <1>4, <1>9 DEF Ordered
<1>11. schema.items # "integer"
  BY DEF Integers
<1> QED BY <1>4, <1>8, <1>10, <1>11 DEF Saved, Settled

-----------------------------------------------------------------------------
(* The empty plan                                                          *)

\* What has been applied, and touched by nobody, is what the API has ...
InApi ==
    (applied /\ ~edited) =>
        /\ remote.subject = Json(Populate(schema, config.subject))
        /\ remote.other = config.other
\* ... and what the state has, refresh after refresh.
Restored == Exact(config) /\ ~(schema.ignoreOrder /\ (Integers \/ Crossed))
InState == (applied /\ ~edited /\ Restored) => state = config

PlanInv ==
    /\ RemoteInv
    /\ config = Both(config.subject, config.other)
    /\ config.subject = Nil => remote.subject = Nil
    /\ InApi
    /\ InState

\* What the API has of the configuration is saved as it was configured.
LEMMA SavedAsConfigured ==
    ASSUME RemoteInv, config = Both(config.subject, config.other), Restored,
           NEW o, o = Both(o.subject, o.other),
           o.subject = Json(Populate(schema, config.subject)), o.other = config.other,
           NEW response \in Rearranged(o), NEW success, Save(config, response, success)
    PROVE  (result' = "panic" /\ state' = state) \/ state' = config
<1> DEFINE v == config.subject
           local == Populate(schema, v)
<1>0. schema \in Schemas /\ v \in ConfigValues[schema]
  BY DEF RemoteInv
<1>1. o.subject = Nil \/ Conforming(schema, o.subject)
  BY <1>0, SentConforms, JsonOfNil
<1>2. /\ response.other = config.other
      /\ response.subject = Nil <=> o.subject = Nil
      /\ ~schema.ignoreOrder => response = o
      /\ (schema.ignoreOrder /\ o.subject # Nil) =>
            /\ response.subject = List(response.subject[2])
            /\ IsSeq(response.subject[2])
            /\ ToSet(response.subject[2]) = ToSet(o.subject[2])
  BY <1>0, <1>1, ResponseOf
<1>3. SUFFICES ASSUME ~SavePanics(v, response.subject)
               PROVE  \/ Saved(v, response.subject) = Failed
                      \/ Saved(v, response.subject) = v
  BY <1>2 DEF Save, Both
<1>4. CASE response.subject = Nil
  BY <1>4 DEF Saved
<1>5. CASE response.subject # Nil /\ ~schema.ignoreOrder
  <2>1. PICK l : l = local
    OBVIOUS
  <2>2. l # Nil /\ response.subject = Json(l)
    BY <1>2, <1>5, <2>1, JsonOfNil
  <2>3. Settled(schema, Convert(schema, Json(l))) = v
    <3>1. Exact(Both(v, config.other))
      BY DEF Restored
    <3> QED BY <1>0, <2>1, <2>2, <3>1, BackAsSent
  <2>4. Ordered(v, response.subject) = response.subject
    BY <1>5 DEF Ordered
  <2> QED BY <1>5, <2>2, <2>3, <2>4 DEF Saved
<1>6. CASE response.subject # Nil /\ schema.ignoreOrder
  <2>1. PICK l : l = local
    OBVIOUS
  <2>2. l # Nil /\ o.subject = Json(l) /\ o.subject # Nil
    BY <1>2, <1>6, <2>1, JsonOfNil
  <2>3. ~Integers /\ ~Crossed
    BY <1>6 DEF Restored
  <2>4. PICK r : r = response.subject
    OBVIOUS
  <2>5. r = List(r[2]) /\ IsSeq(r[2]) /\ ToSet(r[2]) = ToSet(Json(l)[2]) /\ ~SavePanics(v, r)
    BY <1>2, <1>3, <1>6, <2>2, <2>4
  <2>6. Saved(v, r) = v
    BY <1>0, <1>6, <2>1, <2>2, <2>3, <2>5, BackInOrder
  <2> QED BY <2>4, <2>6
<1> QED BY <1>4, <1>5, <1>6

\* Only an object that cannot be converted is not sent, and its update panics.
LEMMA PutSends ==
    ASSUME PlanInv, NEW local, local = Populate(schema, config.subject),
           NEW checked, ~ImmutablePanics(schema, checked, local), local = Nil
    PROVE  remote.subject = Json(local)
<1>1. CASE config.subject = Nil
  BY <1>1, JsonOfNil DEF PlanInv
<1>2. CASE config.subject # Nil
  <2>1. PICK v : v = config.subject
    OBVIOUS
  <2>2. schema \in Schemas /\ Configured(schema, v)
    BY <1>2, <2>1, ConfigAssumption DEF PlanInv, RemoteInv
  <2>3. schema.type # "object"
    BY DEF ImmutablePanics
  <2>4. CASE schema.type = "list" /\ schema.items = "object"
    <3>1. local = Each(v, LAMBDA m : PopulateMap(schema, m))
      BY <1>2, <2>1, <2>4 DEF Populate
    <3> QED BY <3>1, NotFailed DEF Each
  <2>5. CASE schema.type = "list" /\ schema.items # "object"
    BY <1>2, <2>1, <2>5 DEF Populate
  <2>6. CASE schema.type # "list"
    <3>1. schema.type \in Primitives /\ schema.items = ""
      BY <2>2, <2>3, <2>6, SchemasAssumption
    <3>2. TypedLeaf(schema.type, v)
      BY <2>2, <2>3, <2>6 DEF Configured
    <3>3. local = v
      <4>1. PopulateLeaf(schema.type, v) = v
        BY <3>1, <3>2, TypedIsSent
      <4>2. local = PopulateLeaf(schema.type, v)
        BY <1>2, <2>1, <2>3, <2>6, <3>1 DEF Populate
      <4> QED BY <4>1, <4>2
    <3> QED BY <1>2, <2>1, <3>3
  <2> QED BY <2>4, <2>5, <2>6
<1> QED BY <1>1, <1>2

LEMMA PutSaves ==
    ASSUME PlanInv, Put, UNCHANGED <<schema, config>>,
           NEW checked, ~ImmutablePanics(schema, checked, Populate(schema, config.subject))
    PROVE  /\ remote'.subject = Json(Populate(schema, config.subject))
           /\ remote'.other = config.other
           /\ (Restored /\ result' = "ok") => state' = config
<1>1. PICK local : local = Populate(schema, config.subject)
  OBVIOUS
<1>2. remote' = Both(Json(local), config.other)
  BY <1>1, PutSends DEF Put
<1>3. remote'.subject = Json(local) /\ remote'.other = config.other
  BY <1>2 DEF Both
<1>4. ASSUME Restored, result' = "ok"
      PROVE  state' = config
  <2>1. PICK response \in Rearranged(remote') : Save(config, response, "ok")
    BY DEF Put
  <2>2. RemoteInv /\ config = Both(config.subject, config.other)
    BY DEF PlanInv
  <2>3. remote' = Both(remote'.subject, remote'.other)
    BY <1>2, <1>3
  <2>4. (result' = "panic" /\ state' = state) \/ state' = config
    BY <1>1, <1>3, <1>4, <2>1, <2>2, <2>3, SavedAsConfigured
  <2> QED BY <1>4, <2>4
<1> QED BY <1>1, <1>3, <1>4

LEMMA InitPlanInv ==
    ASSUME Init
    PROVE  PlanInv
<1>1. RemoteInv
  BY InitRemoteInv
<1>2. config = Both(config.subject, config.other)
  BY DEF Init, Configs, Both
<1>3. remote.subject = Nil
  BY DEF Init, Absent, Both
<1>4. applied = FALSE
  BY DEF Init
<1> QED BY <1>1, <1>2, <1>3, <1>4 DEF PlanInv, InApi, InState

LEMMA NextPlanInv ==
    ASSUME PlanInv, [Next]_vars
    PROVE  PlanInv'
<1>0. /\ RemoteInv' /\ schema' = schema /\ RemoteInv
      /\ config = Both(config.subject, config.other)
      /\ schema \in Schemas /\ config.subject \in ConfigValues[schema]
  <2>1. RemoteInv
    BY DEF PlanInv
  <2> QED BY <2>1, NextRemoteInv, ConfigStays DEF PlanInv, RemoteInv
<1>1. ASSUME UNCHANGED config
      PROVE  Restored' = Restored
  BY <1>0, <1>1 DEF Restored, Exact, Integers, Crossed
<1>2. ASSUME UNCHANGED config,
             config.subject = Nil => remote'.subject = Nil,
             (applied' /\ ~edited') =>
                 /\ remote'.subject = Json(Populate(schema, config.subject))
                 /\ remote'.other = config.other
                 /\ Restored => state' = config
      PROVE  PlanInv'
  BY <1>0, <1>1, <1>2 DEF PlanInv, InApi, InState
<1>3. config.subject = Nil => Json(Populate(schema, config.subject)) = Nil
  BY JsonOfNil DEF Populate
<1>4. CASE Create
  <2>1. PICK local : local = Populate(schema, config.subject)
    OBVIOUS
  <2>2. remote' = Both(Json(local), config.other) /\ UNCHANGED config
    BY <1>4, <2>1 DEF Create
  <2>3. remote'.subject = Json(local) /\ remote'.other = config.other
    BY <2>2 DEF Both
  <2>4. ASSUME applied', Restored
        PROVE  state' = config
    <3>2. PICK response \in Rearranged(remote') : Save(config, response, "ok")
      BY <1>4 DEF Create
    <3>5. result' \in {"panic", "failed", "ok"} /\ Remember
      BY <1>4, <3>2, SaveEnds DEF Create
    <3>1. result' = "ok"
      BY <2>4, <3>5 DEF Remember
    <3>3. remote' = Both(remote'.subject, remote'.other)
      BY <2>2, <2>3
    <3>4. (result' = "panic" /\ state' = state) \/ state' = config
      BY <1>0, <2>1, <2>3, <2>4, <3>2, <3>3, SavedAsConfigured
    <3> QED BY <3>1, <3>4
  <2> QED BY <1>2, <1>3, <2>1, <2>2, <2>3, <2>4
<1>5. CASE Read
  <2>1. UNCHANGED <<schema, config, remote, applied, edited>>
    BY <1>5 DEF Read
  <2>2. ASSUME applied, ~edited, Restored
        PROVE  state' = config
    <3>1. state = config /\ remote.subject = Json(Populate(schema, config.subject))
          /\ remote.other = config.other
      BY <2>2 DEF PlanInv, InApi, InState
    <3>2. PICK response \in Rearranged(remote) : Save(config, response, "ok")
      BY <1>5, <3>1 DEF Read
    <3>3. remote = Both(remote.subject, remote.other)
      BY <1>0 DEF RemoteInv
    <3>4. (result' = "panic" /\ state' = state) \/ state' = config
      BY <1>0, <2>2, <3>1, <3>2, <3>3, SavedAsConfigured
    <3> QED BY <3>1, <3>4
  <2> QED BY <1>2, <2>1, <2>2 DEF PlanInv, InApi
<1>6. CASE Update
  <2>1. UNCHANGED <<schema, config>>
    BY <1>6 DEF Update
  <2>2. PICK checked \in Rearranged(remote) :
           LET local == Populate(schema, config.subject)
           IN IF ImmutablePanics(schema, checked.subject, local)
              THEN result' = "panic" /\ UNCHANGED <<state, remote>>
              ELSE IF ImmutableViolated(schema, checked.subject, local)
              THEN Save(config, checked, "immutable") /\ UNCHANGED remote
              ELSE Put
    BY <1>6 DEF Update
  <2>3. Remember
    BY <1>6 DEF Update
  <2>4. CASE result' = "panic" /\ UNCHANGED <<state, remote>>
    <3>1. applied' = FALSE
      BY <2>3, <2>4 DEF Remember
    <3> QED BY <1>2, <2>1, <2>4, <3>1 DEF PlanInv
  <2>5. CASE Save(config, checked, "immutable") /\ UNCHANGED remote
    <3>1. result' \in {"panic", "failed", "immutable"}
      BY <2>5, SaveEnds
    <3>2. applied' => applied /\ (edited' = edited)
      BY <2>3, <3>1 DEF Remember
    <3>3. state # config
      BY <1>6 DEF Update, MustUpdate
    <3> QED BY <1>2, <2>1, <2>5, <3>2, <3>3 DEF PlanInv, InApi, InState
  <2>6. CASE ~ImmutablePanics(schema, checked.subject, Populate(schema, config.subject)) /\ Put
    <3>1. /\ remote'.subject = Json(Populate(schema, config.subject))
          /\ remote'.other = config.other
          /\ (Restored /\ result' = "ok") => state' = config
      BY <2>1, <2>6, PutSaves
    <3>2. PICK response : Save(config, response, "ok")
      BY <2>6 DEF Put
    <3>3. result' \in {"panic", "failed", "ok"}
      BY <3>2, SaveEnds
    <3>4. applied' => result' = "ok"
      BY <2>3, <3>3 DEF Remember
    <3> QED BY <1>2, <1>3, <2>1, <3>1, <3>4
  <2> QED BY <2>2, <2>4, <2>5, <2>6
<1>7. CASE Configure
  <2>1. /\ config' \in Configs
        /\ config'.subject = Nil => config.subject = Nil
        /\ applied' = FALSE /\ UNCHANGED remote
    BY <1>7 DEF Configure
  <2>2. config' = Both(config'.subject, config'.other)
    <3>1. PICK v \in ConfigValues[schema], other \in Others : config' = Both(v, other)
      BY <2>1 DEF Configs
    <3> QED BY <3>1 DEF Both
  <2> QED BY <1>0, <2>1, <2>2 DEF PlanInv, InApi, InState
<1>8. CASE Edit
  <2>1. remote.subject # Nil /\ edited' = TRUE /\ UNCHANGED config
    BY <1>8 DEF Edit
  <2> QED BY <1>2, <2>1 DEF PlanInv
<1>9. CASE UNCHANGED vars
  BY <1>0, <1>1, <1>9 DEF PlanInv, InApi, InState, vars
<1> QED BY <1>4, <1>5, <1>6, <1>7, <1>8, <1>9 DEF Next

(***************************************************************************)
(* After a successful create or update, and as long as nobody else touches *)
(* the API, the plan is empty: what is converted, sent, answered in any    *)
(* order and converted back is what was configured, refresh after refresh  *)
(* (updateStateWithPayloadData and processIgnoreOrderIfEnabled, common.go).*)
(***************************************************************************)
THEOREM PlansAreEmpty == Spec => []NoDiffAfterApply
<1>1. Init => PlanInv
  BY InitPlanInv
<1>2. PlanInv /\ [Next]_vars => PlanInv'
  BY NextPlanInv
<1>3. PlanInv => NoDiffAfterApply
  BY DEF PlanInv, InState, Restored, NoDiffAfterApply
<1> QED BY <1>1, <1>2, <1>3, PTL DEF Spec

-----------------------------------------------------------------------------
(* What is saved of a list                                                 *)

\* The items before they are converted: those of the input that the API has,
\* then those it has added.
Items(data, response) ==
    IF schema.ignoreOrder /\ data # Nil
    THEN Picked(data[2], Known(schema, data, response))
         \o Picked(response[2], Added(schema, data, response))
    ELSE response[2]

\* An item as it is saved.
Stored(x) ==
    IF schema.items = "object" THEN ConvertMap(schema, x)
    ELSE IF schema.items = "integer" THEN ConvertLeaf("integer", x, FALSE) ELSE x

\* A list, and the names of the objects in it are Terraform's.
Shaped(v) ==
    (schema.type = "list" /\ v # Nil) =>
        /\ v = List(v[2]) /\ IsSeq(v[2])
        /\ schema.items = "object" =>
              \A x \in ToSet(v[2]) : IsMap(x) /\ DOMAIN x[2] \subseteq TfNames(schema)

ShapeInv == RemoteInv /\ Shaped(config.subject) /\ Shaped(state.subject)

LEMMA Concatenated ==
    ASSUME NEW a, IsSeq(a), NEW b, IsSeq(b)
    PROVE  /\ IsSeq(a \o b)
           /\ ToSet(a \o b) = ToSet(a) \cup ToSet(b)
           /\ \A k \in DOMAIN a : k \in DOMAIN (a \o b) /\ (a \o b)[k] = a[k]
<1> DEFINE S == ToSet(a) \cup ToSet(b)
           c == a \o b
<1>1. /\ Len(a) \in Nat /\ DOMAIN a = 1..Len(a)
      /\ Len(b) \in Nat /\ DOMAIN b = 1..Len(b)
  BY SeqIs
<1>2. a \in Seq(S) /\ b \in Seq(S)
  <2>1. (\A k \in 1..Len(a) : a[k] \in S) /\ (\A k \in 1..Len(b) : b[k] \in S)
    BY <1>1 DEF ToSet
  <2>2. a \in Seq(ToSet(a)) /\ b \in Seq(ToSet(b))
    BY DEF IsSeq
  <2> HIDE DEF S
  <2> QED BY <2>1, <2>2
<1>3. /\ Len(c) = Len(a) + Len(b) /\ DOMAIN c = 1..Len(c) /\ c \in Seq(S)
      /\ \A k \in 1..Len(c) : c[k] = IF k <= Len(a) THEN a[k] ELSE b[k - Len(a)]
  <2> HIDE DEF S
  <2> QED BY <1>2, ConcatProperties
<1> HIDE DEF c, S
<1>4. \A k \in DOMAIN a : k \in DOMAIN c /\ c[k] = a[k]
  BY <1>1, <1>3
<1>5. \A k \in DOMAIN b : k + Len(a) \in DOMAIN c /\ c[k + Len(a)] = b[k]
  BY <1>1, <1>3
<1>6. \A k \in DOMAIN c : (k \in DOMAIN a /\ c[k] = a[k])
                          \/ (k - Len(a) \in DOMAIN b /\ c[k] = b[k - Len(a)])
  BY <1>1, <1>3
<1>7. ToSet(c) = ToSet(a) \cup ToSet(b)
  BY <1>4, <1>5, <1>6 DEF ToSet
<1>8. IsSeq(c)
  BY <1>3, <1>7 DEF IsSeq, S
<1> QED BY <1>4, <1>7, <1>8 DEF c

LEMMA PickedIsSeq ==
    ASSUME NEW s, IsSeq(s), NEW S
    PROVE  /\ IsSeq(Picked(s, S))
           /\ ToSet(Picked(s, S)) = ToSet(s) \cap S
           /\ \A i, j \in DOMAIN s : (i < j /\ s[i] \in S /\ s[j] \in S) =>
                 Before(Picked(s, S), s[i], s[j])
<1>0. Len(s) \in Nat /\ DOMAIN s = 1..Len(s)
  BY SeqIs
<1>1. PICK q : q = Picked(s, S)
  OBVIOUS
<1>2. PickedSoFar(s, S, Len(s), q)
  BY <1>1, PickedOf
<1>3. ToSet(q) = ToSet(s) \cap S
  BY <1>0, <1>2 DEF PickedSoFar, ToSet
<1>4. q \in Seq(ToSet(s))
  BY <1>2 DEF PickedSoFar
<1>5. q \in Seq(ToSet(q))
  <2>1. PICK T : T = ToSet(q)
    OBVIOUS
  <2>2. Len(q) \in Nat /\ DOMAIN q = 1..Len(q) /\ q = [k \in 1..Len(q) |-> q[k]]
    BY <1>4
  <2>3. \A k \in 1..Len(q) : q[k] \in T
    BY <2>1, <2>2 DEF ToSet
  <2> QED BY <2>1, <2>2, <2>3
<1> QED BY <1>0, <1>1, <1>2, <1>3, <1>5 DEF IsSeq, PickedSoFar

LEMMA ItemsAre ==
    ASSUME schema \in Schemas, schema.type = "list",
           NEW data, Shaped(data),
           NEW response, response = List(response[2]), IsSeq(response[2])
    PROVE  /\ IsSeq(Items(data, response))
           /\ Ordered(data, response) = List(Items(data, response))
           /\ (schema.ignoreOrder /\ data # Nil) =>
                 ToSet(Items(data, response)) =
                     Known(schema, data, response) \cup Added(schema, data, response)
<1>1. CASE ~(schema.ignoreOrder /\ data # Nil)
  BY <1>1 DEF Items, Ordered
<1>2. CASE schema.ignoreOrder /\ data # Nil
  <2> DEFINE K == Known(schema, data, response)
             A == Added(schema, data, response)
  <2>1. IsSeq(data[2])
    BY <1>2 DEF Shaped
  <2>2. K \subseteq ToSet(data[2]) /\ A \subseteq ToSet(response[2])
    BY DEF Known, Added
  <2> HIDE DEF K, A
  <2>3. PICK a, b : a = Picked(data[2], K) /\ b = Picked(response[2], A)
    OBVIOUS
  <2>4. IsSeq(a) /\ IsSeq(b) /\ ToSet(a) = K /\ ToSet(b) = A
    <3>1. IsSeq(a) /\ ToSet(a) = ToSet(data[2]) \cap K
      BY <2>1, <2>3, PickedIsSeq
    <3>2. IsSeq(b) /\ ToSet(b) = ToSet(response[2]) \cap A
      BY <2>3, PickedIsSeq
    <3> QED BY <2>2, <3>1, <3>2
  <2>5. IsSeq(a \o b) /\ ToSet(a \o b) = K \cup A
    BY <2>4, Concatenated
  <2>6. Items(data, response) = a \o b
    BY <1>2, <2>3 DEF Items, K, A
  <2>7. Ordered(data, response) = List(a \o b)
    BY <1>2, <2>3 DEF Ordered, ProcessIgnoreOrder, K, A
  <2> QED BY <2>5, <2>6, <2>7 DEF K, A
<1> QED BY <1>1, <1>2

\* The items are saved one by one.
LEMMA StoredOneByOne ==
    ASSUME schema \in Schemas, schema.type = "list",
           NEW q, IsSeq(q), NEW v, v = Convert(schema, List(q)), v # Failed
    PROVE  /\ Settled(schema, v) = List([k \in DOMAIN q |-> Stored(q[k])])
           /\ schema.items = "object" => \A k \in DOMAIN q : Stored(q[k]) # Failed
<1>0. List(q)[2] = q
  BY DEF List
<1>1. CASE schema.items = "object"
  <2>1. ~ \E m \in ToSet(q) : ConvertMap(schema, m) = Failed
    BY <1>0, <1>1 DEF Convert
  <2>2. v = Each(List(q), LAMBDA m : ConvertMap(schema, m))
    BY <1>0, <1>1, <2>1 DEF Convert
  <2>3. v = List([k \in DOMAIN q |-> ConvertMap(schema, q[k])])
    BY <1>0, <2>2 DEF Each
  <2>4. Settled(schema, v) = v
    BY <1>1 DEF Settled
  <2>5. \A k \in DOMAIN q : Stored(q[k]) = ConvertMap(schema, q[k])
    BY <1>1 DEF Stored
  <2>6. [k \in DOMAIN q |-> ConvertMap(schema, q[k])] = [k \in DOMAIN q |-> Stored(q[k])]
    BY <2>5
  <2>7. \A k \in DOMAIN q : q[k] \in ToSet(q)
    BY DEF ToSet
  <2>8. \A k \in DOMAIN q : Stored(q[k]) # Failed
    BY <2>1, <2>5, <2>7
  <2> QED BY <2>3, <2>4, <2>6, <2>8
<1>2. CASE schema.items # "object"
  <2>1. v = List(q)
    BY <1>2 DEF Convert
  <2>2. CASE schema.items = "integer"
    <3>1. Settled(schema, v) = Each(List(q), LAMBDA i : ConvertLeaf("integer", i, FALSE))
      BY <2>1, <2>2 DEF Settled
    <3>2. Settled(schema, v) = List([k \in DOMAIN q |-> ConvertLeaf("integer", q[k], FALSE)])
      BY <1>0, <3>1 DEF Each
    <3>3. \A k \in DOMAIN q : Stored(q[k]) = ConvertLeaf("integer", q[k], FALSE)
      BY <2>2 DEF Stored
    <3>4. [k \in DOMAIN q |-> ConvertLeaf("integer", q[k], FALSE)]
             = [k \in DOMAIN q |-> Stored(q[k])]
      BY <3>3, Zenon
    <3>5. Settled(schema, v) = List([k \in DOMAIN q |-> Stored(q[k])])
      BY <3>2, <3>4, Zenon
    <3> QED BY <1>2, <3>5
  <2>3. CASE schema.items # "integer"
    <3>1. Settled(schema, v) = List(q)
      BY <2>1, <2>3 DEF Settled
    <3>2. \A k \in DOMAIN q : Stored(q[k]) = q[k]
      BY <1>2, <2>3 DEF Stored
    <3>3. q = [k \in DOMAIN q |-> q[k]]
      <4>1. PICK S : S = ToSet(q)
        OBVIOUS
      <4> QED BY <4>1 DEF IsSeq
    <3>4. q = [k \in DOMAIN q |-> Stored(q[k])]
      BY <3>2, <3>3
    <3> QED BY <1>2, <3>1, <3>4
  <2> QED BY <2>2, <2>3
<1> QED BY <1>1, <1>2

\* What is saved of a list that the API has.
LEMMA SavedList ==
    ASSUME schema \in Schemas, schema.type = "list",
           NEW data, Shaped(data),
           NEW response, response = List(response[2]), IsSeq(response[2]),
           NEW q, q = Items(data, response), Saved(data, response) # Failed
    PROVE  /\ IsSeq(q)
           /\ Saved(data, response) = List([k \in DOMAIN q |-> Stored(q[k])])
           /\ schema.items = "object" => \A k \in DOMAIN q : Stored(q[k]) # Failed
<1>1. IsSeq(q) /\ Ordered(data, response) = List(q)
  BY ItemsAre
<1>2. response # Nil
  BY NotFailed
<1>3. PICK v : v = Convert(schema, List(q))
  OBVIOUS
<1>4. v # Failed /\ Saved(data, response) = Settled(schema, v)
  BY <1>1, <1>2, <1>3 DEF Saved
<1> QED BY <1>1, <1>3, <1>4, StoredOneByOne

LEMMA NamedChild ==
    ASSUME NEW p \in Schemas, NEW n \in Names(p)
    PROVE  /\ Named(p, n) \in ToSet(p.children)
           /\ Named(p, n).name = n
           /\ Named(p, n).type \in Primitives
           /\ Named(p, n).tf \in TfNames(p)
<1>1. PICK c \in ToSet(p.children) : c.name = n
  BY DEF Names
<1>2. Named(p, n) = c /\ c.type \in Primitives
  BY <1>1, ChildIsNamed
<1> QED BY <1>1, <1>2 DEF TfNames

\* An object that can be converted.
LEMMA ConvertedIs ==
    ASSUME NEW p \in Schemas, NEW m, NEW c, c = ConvertMap(p, m), c # Failed
    PROVE  /\ DOMAIN m[2] \subseteq Names(p)
           /\ c = Map([tf \in {Named(p, n).tf : n \in DOMAIN m[2]} |->
                          ConvertLeaf(Named(p, Source(p, m, tf)).type,
                                      m[2][Source(p, m, tf)], p.type = "object")])
           /\ DOMAIN c[2] = {Named(p, n).tf : n \in DOMAIN m[2]}
           /\ IsMap(c) /\ DOMAIN c[2] \subseteq TfNames(p)
<1>1. DOMAIN m[2] \subseteq Names(p)
  BY DEF ConvertMap
<1> DEFINE f == [tf \in {Named(p, n).tf : n \in DOMAIN m[2]} |->
                    ConvertLeaf(Named(p, Source(p, m, tf)).type,
                                m[2][Source(p, m, tf)], p.type = "object")]
<1>2. c = Map(f)
  BY <1>1 DEF ConvertMap
<1>3. DOMAIN f = {Named(p, n).tf : n \in DOMAIN m[2]} /\ f = [tf \in DOMAIN f |-> f[tf]]
  OBVIOUS
<1>4. {Named(p, n).tf : n \in DOMAIN m[2]} \subseteq TfNames(p)
  BY <1>1, NamedChild
<1>5. c[2] = f
  BY <1>2 DEF Map
<1>6. IsMap(c)
  <2> HIDE DEF f
  <2> QED BY <1>2, <1>3, <1>5 DEF IsMap
<1> QED BY <1>1, <1>2, <1>3, <1>4, <1>5, <1>6

LEMMA SavedShape ==
    ASSUME schema \in Schemas, NEW data, Shaped(data),
           NEW response, response = Nil \/ Conforming(schema, response),
           NEW v, v = Saved(data, response), v # Failed
    PROVE  Shaped(v)
<1>1. CASE response = Nil
  BY <1>1 DEF Saved
<1>2. CASE schema.type # "list"
  BY <1>2 DEF Shaped
<1>3. CASE response # Nil /\ schema.type = "list"
  <2>1. response = List(response[2]) /\ IsSeq(response[2])
    BY <1>3 DEF Conforming
  <2>2. PICK q : q = Items(data, response)
    OBVIOUS
  <2>3. /\ IsSeq(q)
        /\ v = List([k \in DOMAIN q |-> Stored(q[k])])
        /\ schema.items = "object" => \A k \in DOMAIN q : Stored(q[k]) # Failed
    BY <1>3, <2>1, <2>2, SavedList
  <2> DEFINE u == [k \in DOMAIN q |-> Stored(q[k])]
  <2>4. IsSeq(u) /\ DOMAIN u = DOMAIN q
    BY <2>3, ItemByItem
  <2>5. ASSUME schema.items = "object", NEW x \in ToSet(u)
        PROVE  IsMap(x) /\ DOMAIN x[2] \subseteq TfNames(schema)
    <3>1. PICK k \in DOMAIN q : x = Stored(q[k])
      BY DEF ToSet
    <3>2. x # Failed /\ x = ConvertMap(schema, q[k])
      BY <2>3, <2>5, <3>1 DEF Stored
    <3> HIDE DEF u
    <3> QED BY <3>2, ConvertedIs
  <2>6. v = List(u) /\ v[2] = u
    BY <2>3 DEF List
  <2> HIDE DEF u
  <2> QED BY <2>4, <2>5, <2>6 DEF Shaped
<1> QED BY <1>1, <1>2, <1>3

LEMMA SaveShapes ==
    ASSUME schema \in Schemas, NEW data, Shaped(data.subject), Shaped(state.subject),
           NEW o, o = Both(o.subject, o.other),
           o.subject = Nil \/ Conforming(schema, o.subject),
           NEW response \in Rearranged(o), NEW success, Save(data, response, success)
    PROVE  Shaped(state'.subject)
<1>1. response.subject = Nil \/ Conforming(schema, response.subject)
  BY ResponseOf
<1>2. CASE state' = state \/ state' = data
  BY <1>2
<1>3. CASE ~(state' = state \/ state' = data)
  <2>1. PICK v : v = Saved(data.subject, response.subject)
    OBVIOUS
  <2>2. v # Failed /\ state' = Both(v, response.other)
    BY <1>3, <2>1 DEF Save
  <2>3. Shaped(v)
    BY <1>1, <2>1, <2>2, SavedShape
  <2> QED BY <2>2, <2>3 DEF Both
<1> QED BY <1>2, <1>3

LEMMA ConfigShape ==
    ASSUME schema \in Schemas, NEW v \in ConfigValues[schema]
    PROVE  Shaped(v)
<1>1. SUFFICES ASSUME schema.type = "list", v # Nil
               PROVE  Shaped(v)
  BY DEF Shaped
<1>2. Configured(schema, v)
  BY <1>1, ConfigAssumption
<1>3. v = List(v[2]) /\ IsSeq(v[2])
  BY <1>1, <1>2 DEF Configured
<1>4. schema.items = "object" => \A x \in ToSet(v[2]) : TypedMap(schema, x)
  BY <1>1, <1>2 DEF Configured
<1> QED BY <1>3, <1>4 DEF Shaped, TypedMap

LEMMA InitShapeInv ==
    ASSUME Init
    PROVE  ShapeInv
<1>1. RemoteInv
  BY InitRemoteInv
<1>2. Shaped(config.subject)
  BY <1>1, ConfigShape DEF RemoteInv
<1>3. state.subject = Nil
  BY DEF Init, Absent, Both
<1> QED BY <1>1, <1>2, <1>3 DEF ShapeInv, Shaped

LEMMA NextShapeInv ==
    ASSUME ShapeInv, [Next]_vars
    PROVE  ShapeInv'
<1>0. RemoteInv /\ Shaped(config.subject) /\ Shaped(state.subject)
  BY DEF ShapeInv
<1>1. /\ RemoteInv' /\ schema' = schema /\ schema \in Schemas
      /\ config'.subject \in ConfigValues[schema]
  BY <1>0, NextRemoteInv, ConfigStays DEF RemoteInv
<1>2. Shaped(config'.subject)
  BY <1>1, ConfigShape
<1>3. /\ remote = Both(remote.subject, remote.other)
      /\ remote.subject = Nil \/ Conforming(schema, remote.subject)
      /\ remote' = Both(remote'.subject, remote'.other)
      /\ remote'.subject = Nil \/ Conforming(schema, remote'.subject)
  BY <1>0, <1>1 DEF RemoteInv
<1>4. SUFFICES Shaped(state'.subject)
  BY <1>1, <1>2 DEF ShapeInv, Shaped
<1>5. CASE Create
  <2>1. PICK response \in Rearranged(remote') : Save(config, response, "ok")
    BY <1>5 DEF Create
  <2> QED BY <1>0, <1>1, <1>3, <2>1, SaveShapes
<1>6. CASE Read
  <2>1. PICK response \in Rearranged(remote) : Save(state, response, "ok")
    BY <1>6 DEF Read
  <2> QED BY <1>0, <1>1, <1>3, <2>1, SaveShapes
<1>7. CASE Put
  <2>1. PICK response \in Rearranged(remote') : Save(config, response, "ok")
    BY <1>7 DEF Put
  <2> QED BY <1>0, <1>1, <1>3, <2>1, SaveShapes
<1>8. ASSUME NEW checked \in Rearranged(remote), Save(config, checked, "immutable")
      PROVE  Shaped(state'.subject)
  BY <1>0, <1>1, <1>3, <1>8, SaveShapes
<1>9. CASE UNCHANGED state
  BY <1>0, <1>9
<1>10. Create \/ Read \/ Put \/ UNCHANGED state
       \/ \E checked \in Rearranged(remote) : Save(config, checked, "immutable")
  BY DEF Next, Update, Configure, Edit, vars
<1> QED BY <1>5, <1>6, <1>7, <1>8, <1>9, <1>10

-----------------------------------------------------------------------------
(* The order after a refresh                                               *)

LEMMA ConformingEqual ==
    ASSUME NEW type \in Primitives, type # "integer", NEW v, ConformingValue(type, v)
    PROVE  EqualLeaf(type, v, v)
<1>1. CASE type = "string"
  BY <1>1 DEF ConformingValue, KindOf, EqualLeaf
<1>2. CASE type = "number"
  BY <1>2, FloatIs DEF ConformingValue, KindOf, EqualLeaf
<1>3. CASE type = "boolean"
  <2>1. v = <<"bool", v[2]>>
    BY <1>3 DEF ConformingValue
  <2>2. v[1] = "bool"
    BY <2>1
  <2> QED BY <1>3, <2>2 DEF KindOf, EqualLeaf
<1> QED BY <1>1, <1>2, <1>3 DEF Primitives

\* But for integers, nothing changes on the way to the state.
LEMMA StaysConverted ==
    ASSUME NEW type \in Primitives, type # "integer", NEW v, ConformingLeaf(type, v)
    PROVE  ConvertLeaf(type, v, FALSE) = v
<1>1. v[1] \in {"nil", "string", "bool", "float"}
  BY ConformingIs
<1> QED BY <1>1 DEF ConvertLeaf

\* Equal objects have a value of every property.
LEMMA EqualObjects ==
    ASSUME NEW p \in Schemas, p.items = "object", NEW x, NEW r, EqualItems(p, x, r),
           NEW c \in ToSet(p.children)
    PROVE  /\ c.name \in DOMAIN x[2] /\ c.name \in DOMAIN r[2]
           /\ x[2][c.name] = r[2][c.name] /\ x[2][c.name] # Nil
<1>1. PICK i \in DOMAIN p.children : p.children[i] = c
  BY DEF ToSet
<1>2. EqualLeaf(c.type, Get(x, c.name), Get(r, c.name))
  BY <1>1 DEF EqualItems, Unequal
<1>3. c.type \in Primitives
  BY SchemasAssumption
<1>4. PICK a, b : a = Get(x, c.name) /\ b = Get(r, c.name)
  OBVIOUS
<1>5. a = b /\ a # Nil
  BY <1>2, <1>3, <1>4, NothingIsUnequal DEF EqualLeaf
<1> QED BY <1>4, <1>5 DEF Get, Has

\* An item that the API has stays in the state as it is.
LEMMA KnownIsPlain ==
    ASSUME schema \in Schemas, schema.type = "list", schema.items = "object",
           ~Integers, ~Crossed,
           NEW x, IsMap(x), DOMAIN x[2] \subseteq TfNames(schema),
           NEW r, ConformingMap(schema, r), EqualItems(schema, x, r), Stored(x) # Failed
    PROVE  Stored(x) = x
<1>1. Stored(x) = ConvertMap(schema, x)
  BY DEF Stored
<1>2. DOMAIN x[2] \subseteq Names(schema)
  BY <1>1, ConvertedIs
<1>3. ASSUME NEW n \in DOMAIN x[2]
      PROVE  /\ Named(schema, n).tf = n
             /\ ConvertLeaf(Named(schema, n).type, x[2][n], FALSE) = x[2][n]
  <2>1. PICK c : c = Named(schema, n)
    OBVIOUS
  <2>2. c \in ToSet(schema.children) /\ c.name = n /\ c.type \in Primitives
    BY <1>2, <2>1, NamedChild
  <2>3. c.tf = n
    BY <2>2, Uncrossed
  <2>4. x[2][n] = r[2][n] /\ n \in DOMAIN r[2]
    BY <2>2, EqualObjects
  <2>5. ConformingLeaf(c.type, x[2][n])
    <3>1. Get(r, c.name) = x[2][n]
      BY <2>2, <2>4 DEF Get, Has
    <3> QED BY <2>2, <3>1 DEF ConformingMap
  <2>6. c.type # "integer"
    BY <2>2 DEF Integers
  <2>7. ConvertLeaf(c.type, x[2][n], FALSE) = x[2][n]
    BY <2>2, <2>5, <2>6, StaysConverted
  <2> QED BY <2>1, <2>3, <2>7
<1>4. (schema.type = "object") = FALSE
  OBVIOUS
<1> QED BY <1>1, <1>2, <1>3, <1>4, PlainMap

\* An item that the API has added and that is saved as another the state has:
\* the comparison of the two panics.
LEMMA AddedIsNew ==
    ASSUME schema \in Schemas, schema.type = "list", schema.items = "object",
           ~Integers, ~Crossed,
           NEW s, IsSeq(s), NEW t, IsSeq(t), NEW k \in DOMAIN s, NEW j \in DOMAIN t,
           ConformingMap(schema, t[j]),
           \A i \in ToSet(s) : ~EqualItems(schema, i, t[j]),
           Stored(t[j]) = s[k], s[k] # Failed
    PROVE  IgnoreOrderPanics(schema, List(s), List(t))
<1> DEFINE a == s[k]
           x == t[j]
<1>1. a = ConvertMap(schema, x)
  BY DEF Stored
<1>2. /\ DOMAIN x[2] \subseteq Names(schema)
      /\ a = Map([tf \in {Named(schema, n).tf : n \in DOMAIN x[2]} |->
                     ConvertLeaf(Named(schema, Source(schema, x, tf)).type,
                                 x[2][Source(schema, x, tf)], schema.type = "object")])
      /\ DOMAIN a[2] = {Named(schema, n).tf : n \in DOMAIN x[2]}
      /\ DOMAIN a[2] \subseteq TfNames(schema)
  <2> HIDE DEF a, x
  <2>1. a # Failed
    BY DEF a
  <2> QED BY <1>1, <2>1, ConvertedIs
<1>3. ASSUME NEW c \in ToSet(schema.children),
             Nil \notin {Get(a, c.name), Get(x, c.name)}
      PROVE  EqualLeaf(c.type, Get(a, c.name), Get(x, c.name))
  <2>1. c.name \in DOMAIN a[2] /\ c.name \in DOMAIN x[2]
    BY <1>3 DEF Get, Has
  <2>2. c.name \in TfNames(schema)
    BY <1>2, <2>1
  <2>3. PICK n : n = Source(schema, x, c.name)
    OBVIOUS
  <2>4. n \in DOMAIN x[2] /\ Named(schema, n).tf = c.name
    <3>1. PICK m \in DOMAIN x[2] : Named(schema, m).tf = c.name
      BY <1>2, <2>1
    <3> HIDE DEF x
    <3> QED BY <2>3, <3>1, SourceIs
  <2>5. Named(schema, n) \in ToSet(schema.children) /\ Named(schema, n).name = n
    BY <1>2, <2>4, NamedChild
  <2>6. Named(schema, n) = c
    BY <2>4, <2>5 DEF Crossed
  <2>7. n = c.name
    BY <2>5, <2>6
  <2>8. PICK y : y = x[2][c.name]
    OBVIOUS
  <2>9. c.type \in Primitives /\ c.type # "integer"
    BY SchemasAssumption DEF Integers
  <2>10. ConformingLeaf(c.type, y) /\ Get(x, c.name) = y /\ y # Nil
    BY <1>3, <2>1, <2>8 DEF ConformingMap, Get, Has
  <2>11. ConvertLeaf(c.type, y, FALSE) = y
    BY <2>9, <2>10, StaysConverted
  <2>12. (schema.type = "object") = FALSE
    OBVIOUS
  <2>13. a[2][c.name] = ConvertLeaf(Named(schema, n).type, x[2][n], schema.type = "object")
    <3> HIDE DEF x, a
    <3> QED BY <1>2, <2>1, <2>3 DEF Map
  <2>14. a[2][c.name] = ConvertLeaf(c.type, y, FALSE)
    <3> HIDE DEF x, a
    <3> QED BY <2>6, <2>7, <2>8, <2>12, <2>13, Zenon
  <2>15. Get(a, c.name) = y
    <3> HIDE DEF x, a
    <3>1. a[2][c.name] = y
      BY <2>11, <2>14, Zenon
    <3> QED BY <2>1, <3>1 DEF Get, Has
  <2>16. EqualLeaf(c.type, y, y)
    BY <2>9, <2>10, ConformingEqual DEF ConformingLeaf
  <2> HIDE DEF x, a
  <2> QED BY <2>10, <2>15, <2>16
<1> QED BY <1>3, Panicking

\* What is left of a list is known to the API, and stays as it is.
LEMMA LeftIsKnown ==
    ASSUME schema \in Schemas, schema.ignoreOrder, ~Integers, ~Crossed,
           NEW data, data # Nil, Shaped(data),
           NEW r, r # Nil, Conforming(schema, r), ~SavePanics(data, r),
           NEW q, q = Items(data, r),
           schema.items = "object" => \A k \in DOMAIN q : Stored(q[k]) # Failed,
           NEW a \in ToSet(data[2]), NEW k \in DOMAIN q, a = Stored(q[k])
    PROVE  a \in Known(schema, data, r) /\ Stored(a) = a
<1> DEFINE s == data[2]
           t == r[2]
<1>0. schema.type = "list" /\ schema.items # "integer"
  BY SchemasAssumption DEF Integers
<1>1. data = List(s) /\ IsSeq(s) /\ r = List(t) /\ IsSeq(t)
  BY <1>0 DEF Shaped, Conforming
<1>2. ToSet(q) = Known(schema, data, r) \cup Added(schema, data, r)
  BY <1>0, <1>1, ItemsAre
<1>3. q[k] \in Known(schema, data, r) \/ q[k] \in Added(schema, data, r)
  BY <1>2 DEF ToSet
<1>4. PICK x : x = q[k]
  OBVIOUS
<1>5. CASE schema.items = "object"
  <2>1. x \in Known(schema, data, r) => Stored(x) = x
    <3>1. SUFFICES ASSUME x \in Known(schema, data, r)
                   PROVE  Stored(x) = x
      OBVIOUS
    <3>2. PICK y \in ToSet(t) : EqualItems(schema, x, y)
      BY <3>1 DEF Known
    <3>3. x \in ToSet(s)
      BY <3>1 DEF Known
    <3>4. IsMap(x) /\ DOMAIN x[2] \subseteq TfNames(schema)
      BY <1>0, <1>5, <3>3 DEF Shaped
    <3>5. ConformingMap(schema, y)
      BY <1>0, <1>5, <3>2 DEF Conforming
    <3>6. Stored(x) # Failed
      BY <1>4, <1>5
    <3> QED BY <1>0, <1>5, <3>2, <3>4, <3>5, <3>6, KnownIsPlain
  <2>2. x \notin Added(schema, data, r)
    <3>1. SUFFICES ASSUME x \in Added(schema, data, r)
                   PROVE  FALSE
      OBVIOUS
    <3>2. PICK j \in DOMAIN t : t[j] = x
      BY <3>1 DEF Added, ToSet
    <3>3. PICK i \in DOMAIN s : s[i] = a
      BY DEF ToSet
    <3>4. ConformingMap(schema, t[j])
      BY <1>0, <1>5 DEF Conforming, ToSet
    <3>5. \A y \in ToSet(s) : ~EqualItems(schema, y, t[j])
      BY <3>1, <3>2 DEF Added
    <3>6. Stored(t[j]) = s[i] /\ s[i] # Failed
      BY <1>4, <1>5, <3>2, <3>3
    <3>7. IgnoreOrderPanics(schema, List(s), List(t))
      <4> HIDE DEF s, t
      <4> QED BY <1>0, <1>1, <1>5, <3>4, <3>5, <3>6, AddedIsNew
    <3> QED BY <1>1, <3>7 DEF SavePanics
  <2> QED BY <1>3, <1>4, <2>1, <2>2
<1>6. CASE schema.items # "object"
  <2>1. a = x
    BY <1>0, <1>4, <1>6 DEF Stored
  <2>2. x \notin Added(schema, data, r)
    <3>1. SUFFICES ASSUME x \in Added(schema, data, r)
                   PROVE  FALSE
      OBVIOUS
    <3>2. ConformingValue(schema.items, x)
      BY <1>0, <1>6, <3>1 DEF Conforming, Added
    <3>3. schema.items \in Primitives
      BY <1>0, <1>6, SchemasAssumption
    <3>4. EqualLeaf(schema.items, x, x)
      BY <1>0, <3>2, <3>3, ConformingEqual
    <3>5. EqualItems(schema, x, x)
      BY <1>6, <3>4 DEF EqualItems
    <3> QED BY <2>1, <3>1, <3>5 DEF Added
  <2>3. Stored(a) = a
    BY <1>0, <1>6 DEF Stored
  <2> QED BY <1>3, <1>4, <2>1, <2>2, <2>3
<1> QED BY <1>5, <1>6

LEMMA OneBefore ==
    ASSUME NEW s, IsSeq(s), NEW a \in ToSet(s), NEW b \in ToSet(s), a # b
    PROVE  Before(s, a, b) \/ Before(s, b, a)
<1>1. Len(s) \in Nat /\ DOMAIN s = 1..Len(s)
  BY SeqIs
<1>2. PICK i, j \in DOMAIN s : s[i] = a /\ s[j] = b
  BY DEF ToSet
<1>3. i < j \/ j < i
  BY <1>1, <1>2
<1> QED BY <1>2, <1>3 DEF Before

LEMMA KeptInOrder ==
    ASSUME schema \in Schemas, schema.ignoreOrder, ~Integers, ~Crossed,
           NEW data, data # Nil, Shaped(data),
           NEW r, r # Nil, Conforming(schema, r), ~SavePanics(data, r),
           NEW v, v = Saved(data, r), v # Failed,
           NEW a \in ToSet(data[2]) \cap ToSet(v[2]),
           NEW b \in ToSet(data[2]) \cap ToSet(v[2]),
           Before(data[2], a, b)
    PROVE  Before(v[2], a, b)
<1> DEFINE s == data[2]
           t == r[2]
           K == Known(schema, data, r)
           A == Added(schema, data, r)
<1>0. schema.type = "list"
  BY SchemasAssumption
<1>1. data = List(s) /\ IsSeq(s) /\ r = List(t) /\ IsSeq(t)
  BY <1>0 DEF Shaped, Conforming
<1>2. PICK q : q = Items(data, r)
  OBVIOUS
<1>3. /\ IsSeq(q) /\ v = List([k \in DOMAIN q |-> Stored(q[k])])
      /\ schema.items = "object" => \A k \in DOMAIN q : Stored(q[k]) # Failed
  BY <1>0, <1>1, <1>2, SavedList
<1>4. v[2] = [k \in DOMAIN q |-> Stored(q[k])]
  BY <1>3 DEF List
<1>5. ASSUME NEW c \in ToSet(s) \cap ToSet(v[2])
      PROVE  c \in K /\ Stored(c) = c
  <2>1. PICK k \in DOMAIN q : c = Stored(q[k])
    BY <1>4 DEF ToSet
  <2> QED BY <1>2, <1>3, <2>1, LeftIsKnown
<1> HIDE DEF s, t, K, A
<1>6. a \in K /\ b \in K /\ Stored(a) = a /\ Stored(b) = b
  BY <1>5 DEF s
<1>7. PICK x, y : x = Picked(s, K) /\ y = Picked(t, A)
  OBVIOUS
<1>8. Before(x, a, b)
  <2>1. PICK i, j \in DOMAIN s : i < j /\ s[i] = a /\ s[j] = b
    BY DEF Before, s
  <2> QED BY <1>1, <1>6, <1>7, <2>1, PickedIsSeq
<1>9. IsSeq(x) /\ IsSeq(y)
  BY <1>1, <1>7, PickedIsSeq
<1>10. q = x \o y
  BY <1>2, <1>7 DEF Items, s, t, K, A
<1>11. PICK i, j \in DOMAIN x : i < j /\ x[i] = a /\ x[j] = b
  BY <1>8 DEF Before
<1>12. i \in DOMAIN q /\ q[i] = a /\ j \in DOMAIN q /\ q[j] = b
  BY <1>9, <1>10, <1>11, Concatenated
<1>13. i \in DOMAIN v[2] /\ j \in DOMAIN v[2] /\ v[2][i] = a /\ v[2][j] = b
  BY <1>4, <1>6, <1>12
<1> QED BY <1>11, <1>13 DEF Before

(***************************************************************************)
(* A refresh does not rearrange what is left of a list whose order means   *)
(* nothing: of two items that the state had and has, the one before the    *)
(* other stays before it, whatever the API has added, removed or           *)
(* rearranged, and in lists of primitives and of objects                   *)
(* (processIgnoreOrderIfEnabled, common.go).                               *)
(***************************************************************************)
THEOREM RefreshesKeepOrder == Spec => RefreshKeepsOrder
<1> DEFINE Step ==
        (/\ Read /\ result' = "ok" /\ Nil \notin {state.subject, state'.subject}
         /\ schema.ignoreOrder /\ ~Integers /\ ~Crossed) =>
           \A a, b \in ToSet(state.subject[2]) \cap ToSet(state'.subject[2]) :
               (a # b /\ ~Before(state.subject[2], b, a)) =>
                   Before(state'.subject[2], a, b)
<1>1. Init => ShapeInv
  BY InitShapeInv
<1>2. ShapeInv /\ [Next]_vars => ShapeInv'
  BY NextShapeInv
<1>3. ShapeInv /\ [Next]_vars => [Step]_vars
  <2>1. SUFFICES ASSUME ShapeInv, Read, result' = "ok",
                        Nil \notin {state.subject, state'.subject},
                        schema.ignoreOrder, ~Integers, ~Crossed,
                        NEW a \in ToSet(state.subject[2]) \cap ToSet(state'.subject[2]),
                        NEW b \in ToSet(state.subject[2]) \cap ToSet(state'.subject[2]),
                        a # b, ~Before(state.subject[2], b, a)
                 PROVE  Before(state'.subject[2], a, b)
    OBVIOUS
  <2>2. /\ schema \in Schemas /\ Shaped(state.subject)
        /\ remote = Both(remote.subject, remote.other)
        /\ remote.subject = Nil \/ Conforming(schema, remote.subject)
    BY <2>1 DEF ShapeInv, RemoteInv
  <2>3. IsSeq(state.subject[2])
    BY <2>1, <2>2, SchemasAssumption DEF Shaped
  <2>4. Before(state.subject[2], a, b)
    BY <2>1, <2>3, OneBefore
  <2>5. PICK response \in Rearranged(remote) : Save(state, response, "ok")
    BY <2>1 DEF Read
  <2>6. PICK r, v : r = response.subject /\ v = Saved(state.subject, r)
    OBVIOUS
  <2>7. r = Nil \/ Conforming(schema, r)
    BY <2>2, <2>6, ResponseOf
  <2>8. ~SavePanics(state.subject, r) /\ v # Failed /\ state' = Both(v, response.other)
    BY <2>1, <2>5, <2>6 DEF Save
  <2>9. state'.subject = v
    BY <2>8 DEF Both
  <2>10. CASE r = Nil
    BY <2>4, <2>6, <2>9, <2>10 DEF Saved
  <2>11. CASE r # Nil
    BY <2>1, <2>2, <2>4, <2>6, <2>7, <2>8, <2>9, <2>11, KeptInOrder
  <2> QED BY <2>10, <2>11
<1> QED BY <1>1, <1>2, <1>3, PTL DEF Spec, RefreshKeepsOrder

-----------------------------------------------------------------------------
(* What the state says                                                     *)

LEMMA ConformingText ==
    ASSUME NEW type \in Primitives, NEW x, ConformingLeaf(type, x), x[1] = "string"
    PROVE  type = "string"
<1>1. x # Nil
  BY DEF Nil
<1>2. CASE type = "boolean"
  <2>1. x = <<"bool", x[2]>>
    BY <1>1, <1>2 DEF ConformingLeaf, ConformingValue
  <2>2. x[1] = "bool"
    BY <2>1
  <2> QED BY <2>2
<1>3. CASE type \in {"integer", "number"}
  <2>1. x = Float(x[2])
    BY <1>1, <1>3 DEF ConformingLeaf, ConformingValue
  <2>2. x[1] = "float"
    BY <2>1, FloatIs
  <2> QED BY <2>2
<1> QED BY <1>2, <1>3 DEF Primitives

LEMMA ConformingBool ==
    ASSUME NEW type \in Primitives, NEW x, ConformingLeaf(type, x), x[1] = "bool"
    PROVE  type = "boolean" /\ x = <<"bool", x[2]>>
<1>1. x # Nil
  BY DEF Nil
<1>2. CASE type = "string"
  BY <1>1, <1>2 DEF ConformingLeaf, ConformingValue
<1>3. CASE type \in {"integer", "number"}
  <2>1. x = Float(x[2])
    BY <1>1, <1>3 DEF ConformingLeaf, ConformingValue
  <2>2. x[1] = "float"
    BY <2>1, FloatIs
  <2> QED BY <2>2
<1>4. CASE type = "boolean"
  BY <1>1, <1>4 DEF ConformingLeaf, ConformingValue
<1> QED BY <1>2, <1>3, <1>4 DEF Primitives

\* A primitive outside an object means what the API has.
LEMMA LeafTold ==
    ASSUME NEW type \in Primitives, NEW x, ConformingLeaf(type, x)
    PROVE  /\ MeantLeaf(type, ConvertLeaf(type, x, FALSE)) = x
           /\ ConvertLeaf(type, x, FALSE)[1] \notin {"map", "list"}
<1>0. x[1] \in {"nil", "string", "bool", "float"}
  BY ConformingIs
<1>1. CASE x[1] = "float" /\ type = "integer"
  <2>1. x = Float(x[2]) /\ x[2] \in Int /\ x[2] % 1000 = 0
    BY <1>1, ConformingIs
  <2>2. PICK v : v = GoInt(x[2] \div 1000)
    OBVIOUS
  <2>3. ConvertLeaf(type, x, FALSE) = v
    BY <1>1, <2>2 DEF ConvertLeaf
  <2>4. v[1] = "int" /\ v[2] = x[2] \div 1000
    BY <2>2 DEF GoInt
  <2>5. MeantLeaf(type, v) = Float(1000 * (x[2] \div 1000))
    BY <2>4 DEF MeantLeaf
  <2>6. 1000 * (x[2] \div 1000) = x[2]
    BY <2>1
  <2>7. MeantLeaf(type, v) = x
    <3>1. PICK y, z : y = x[2] /\ z = 1000 * (x[2] \div 1000)
      OBVIOUS
    <3>2. y = z /\ x = Float(y) /\ MeantLeaf(type, v) = Float(z)
      <4>1. x = Float(y)
        BY <2>1, <3>1, Zenon
      <4>2. MeantLeaf(type, v) = Float(z)
        BY <2>5, <3>1, Zenon
      <4> QED BY <2>6, <3>1, <4>1, <4>2, Zenon
    <3> QED BY <3>2, Zenon
  <2>8. v[1] \notin {"map", "list"}
    BY <2>4
  <2> QED BY <2>3, <2>7, <2>8, Zenon
<1>2. CASE ~(x[1] = "float" /\ type = "integer")
  <2>1. ConvertLeaf(type, x, FALSE) = x
    BY <1>0, <1>2 DEF ConvertLeaf
  <2>2. x[1] = "string" => type = "string"
    BY ConformingText
  <2>3. MeantLeaf(type, x) = x /\ x[1] \notin {"map", "list"}
    BY <1>0, <2>2 DEF MeantLeaf
  <2> QED BY <2>1, <2>3, Zenon
<1> QED BY <1>1, <1>2

\* Inside an object numbers are rounded.
RoundedLeaf(x) == IF x[1] = "float" THEN Float(((x[2] + 5) \div 10) * 10) ELSE x

\* ... and what is text means what it looks like.
LEMMA TextMeans ==
    ASSUME NEW type, type # "string", NEW form, NEW y
    PROVE  /\ form = "int" => MeantLeaf(type, Text(form, y)) = Float(1000 * y)
           /\ form = "bool" => MeantLeaf(type, Text(form, y)) = <<"bool", y>>
           /\ form \in {"float", "padded"} => MeantLeaf(type, Text(form, y)) = Float(y)
<1>1. PICK v : v = Text(form, y)
  OBVIOUS
<1>2. v[1] = "string" /\ v[2] = form /\ v[3] = y
  BY <1>1 DEF Text
<1>3. form = "int" => MeantLeaf(type, v) = Float(1000 * y)
  BY <1>2 DEF MeantLeaf
<1>4. form = "bool" => MeantLeaf(type, v) = <<"bool", y>>
  BY <1>2 DEF MeantLeaf
<1>5. form \in {"float", "padded"} => MeantLeaf(type, v) = Float(y)
  BY <1>2 DEF MeantLeaf
<1> QED BY <1>1, <1>3, <1>4, <1>5

LEMMA LeafToldAsText ==
    ASSUME NEW type \in Primitives, NEW x, ConformingLeaf(type, x)
    PROVE  MeantLeaf(type, ConvertLeaf(type, x, TRUE)) = RoundedLeaf(x)
<1>0. x[1] \in {"nil", "string", "bool", "float"}
  BY ConformingIs
<1>1. CASE x[1] = "float" /\ type = "integer"
  <2>1. x[2] \in Int /\ x[2] % 1000 = 0
    BY <1>1, ConformingIs
  <2>2. PICK v, n : v = Text("int", n) /\ n = x[2] \div 1000
    OBVIOUS
  <2>3. ConvertLeaf(type, x, TRUE) = v
    BY <1>1, <2>2 DEF ConvertLeaf
  <2>4. MeantLeaf(type, v) = Float(1000 * n)
    BY <1>1, <2>2, TextMeans
  <2>5. 1000 * n = ((x[2] + 5) \div 10) * 10
    BY <2>1, <2>2
  <2>6. RoundedLeaf(x) = Float(((x[2] + 5) \div 10) * 10)
    BY <1>1 DEF RoundedLeaf
  <2> QED BY <2>3, <2>4, <2>5, <2>6, Zenon
<1>2. CASE x[1] = "float" /\ type # "integer"
  <2>1. x[2] \in Int /\ type = "number"
    BY <1>2, ConformingIs DEF Primitives
  <2>2. PICK y, z, v : y = x[2] /\ z = ((y + 5) \div 10) * 10 /\ v = Fixed(y)
    OBVIOUS
  <2>3. ConvertLeaf(type, x, TRUE) = v
    BY <1>2, <2>2 DEF ConvertLeaf
  <2>4. RoundedLeaf(x) = Float(z)
    BY <1>2, <2>2 DEF RoundedLeaf
  <2>5. MeantLeaf(type, v) = Float(z)
    <3>1. CASE y = 0
      <4>1. v = Text("int", 0)
        BY <2>2, <3>1 DEF Fixed
      <4>2. MeantLeaf(type, v) = Float(1000 * 0)
        BY <2>1, <4>1, TextMeans
      <4>3. z = 1000 * 0
        BY <2>2, <3>1
      <4> QED BY <4>2, <4>3
    <3>2. CASE y # 0
      <4>1. v = Text("padded", z) \/ v = Text("float", z)
        BY <2>2, <3>2 DEF Fixed
      <4> QED BY <2>1, <4>1, TextMeans
    <3> QED BY <3>1, <3>2
  <2> QED BY <2>3, <2>4, <2>5, Zenon
<1>3. CASE x[1] = "bool"
  <2>1. PICK v : v = Text("bool", x[2])
    OBVIOUS
  <2>2. ConvertLeaf(type, x, TRUE) = v
    BY <1>3, <2>1 DEF ConvertLeaf
  <2>3. type = "boolean" /\ x = <<"bool", x[2]>>
    BY <1>3, ConformingBool
  <2>4. MeantLeaf(type, v) = <<"bool", x[2]>>
    BY <2>1, <2>3, TextMeans
  <2>5. RoundedLeaf(x) = x
    BY <1>3 DEF RoundedLeaf
  <2> QED BY <2>2, <2>3, <2>4, <2>5, Zenon
<1>4. CASE x[1] \notin {"bool", "float"}
  <2>1. ConvertLeaf(type, x, TRUE) = x
    BY <1>0, <1>4 DEF ConvertLeaf
  <2>2. x[1] = "string" => type = "string"
    BY ConformingText
  <2>3. MeantLeaf(type, x) = RoundedLeaf(x)
    BY <1>0, <1>4, <2>2 DEF MeantLeaf, RoundedLeaf
  <2> QED BY <2>1, <2>3, Zenon
<1> QED BY <1>0, <1>1, <1>2, <1>3, <1>4

LEMMA MapTold ==
    ASSUME schema \in Schemas, ~Shared,
           NEW x, \A n \in DOMAIN x[2] : ConformingLeaf(Named(schema, n).type, x[2][n]),
           NEW c, c = ConvertMap(schema, x), c # Failed
    PROVE  /\ DOMAIN x[2] \subseteq Names(schema)
           /\ MeantItem(c) =
                 Map([n \in DOMAIN x[2] |->
                         IF schema.type = "object" THEN RoundedLeaf(x[2][n]) ELSE x[2][n]])
<1>1. /\ DOMAIN x[2] \subseteq Names(schema)
      /\ c = Map([tf \in {Named(schema, n).tf : n \in DOMAIN x[2]} |->
                     ConvertLeaf(Named(schema, Source(schema, x, tf)).type,
                                 x[2][Source(schema, x, tf)], schema.type = "object")])
      /\ DOMAIN c[2] = {Named(schema, n).tf : n \in DOMAIN x[2]}
      /\ IsMap(c)
  BY ConvertedIs
<1>2. c[1] = "map"
  BY <1>1, MapIs
<1>3. ASSUME NEW n \in DOMAIN x[2]
      PROVE  /\ Named(schema, n).tf \in DOMAIN c[2]
             /\ TfNamed(schema, Named(schema, n).tf).name = n
             /\ Source(schema, x, Named(schema, n).tf) = n
  <2>1. PICK d : d = Named(schema, n)
    OBVIOUS
  <2>2. d \in ToSet(schema.children) /\ d.name = n /\ d.tf \in TfNames(schema)
    BY <1>1, <2>1, NamedChild
  <2>3. TfNamed(schema, d.tf) = d
    <3>1. TfNamed(schema, d.tf) \in ToSet(schema.children) /\ TfNamed(schema, d.tf).tf = d.tf
      BY <2>2, TfChild
    <3> QED BY <2>2, <3>1 DEF Shared
  <2>4. Source(schema, x, d.tf) = n
    <3>1. PICK m : m = Source(schema, x, d.tf)
      OBVIOUS
    <3>2. m \in DOMAIN x[2] /\ Named(schema, m).tf = d.tf
      BY <2>1, <3>1, SourceIs
    <3>3. Named(schema, m) \in ToSet(schema.children) /\ Named(schema, m).name = m
      BY <1>1, <3>2, NamedChild
    <3>4. Named(schema, m) = d
      BY <2>2, <3>2, <3>3 DEF Shared
    <3> QED BY <2>2, <3>1, <3>3, <3>4
  <2> QED BY <1>1, <2>1, <2>2, <2>3, <2>4
<1>4. {TfNamed(schema, tf).name : tf \in DOMAIN c[2]} = DOMAIN x[2]
  <2>1. ASSUME NEW tf \in DOMAIN c[2]
        PROVE  TfNamed(schema, tf).name \in DOMAIN x[2]
    <3>1. PICK n \in DOMAIN x[2] : tf = Named(schema, n).tf
      BY <1>1
    <3> QED BY <1>3, <3>1
  <2>2. ASSUME NEW n \in DOMAIN x[2]
        PROVE  \E tf \in DOMAIN c[2] : TfNamed(schema, tf).name = n
    BY <1>3
  <2> QED BY <2>1, <2>2
<1>5. MeantItem(c) =
         Map([n \in DOMAIN x[2] |->
                 MeantLeaf(Named(schema, n).type, c[2][Named(schema, n).tf])])
  BY <1>2, <1>4 DEF MeantItem
<1>6. ASSUME NEW n \in DOMAIN x[2]
      PROVE  MeantLeaf(Named(schema, n).type, c[2][Named(schema, n).tf]) =
                IF schema.type = "object" THEN RoundedLeaf(x[2][n]) ELSE x[2][n]
  <2>1. PICK d, y, v : d = Named(schema, n) /\ y = x[2][n] /\ v = c[2][d.tf]
    OBVIOUS
  <2>2. v = ConvertLeaf(d.type, y, schema.type = "object")
    <3>1. \A tf \in DOMAIN c[2] :
             c[2][tf] = ConvertLeaf(Named(schema, Source(schema, x, tf)).type,
                                    x[2][Source(schema, x, tf)], schema.type = "object")
      BY <1>1 DEF Map
    <3>2. d.tf \in DOMAIN c[2] /\ Source(schema, x, d.tf) = n
      BY <1>3, <2>1
    <3>3. c[2][d.tf] = ConvertLeaf(Named(schema, n).type, x[2][n], schema.type = "object")
      BY <3>1, <3>2, Zenon
    <3> QED BY <2>1, <3>3, Zenon
  <2>3. d.type \in Primitives /\ ConformingLeaf(d.type, y)
    BY <1>1, <2>1, NamedChild
  <2>4. CASE schema.type = "object"
    <3>1. v = ConvertLeaf(d.type, y, TRUE)
      <4>1. (schema.type = "object") = TRUE
        BY <2>4
      <4> QED BY <2>2, <4>1, Zenon
    <3>2. MeantLeaf(d.type, v) = RoundedLeaf(y)
      <4>1. MeantLeaf(d.type, ConvertLeaf(d.type, y, TRUE)) = RoundedLeaf(y)
        BY <2>3, LeafToldAsText
      <4> QED BY <3>1, <4>1, Zenon
    <3> QED BY <2>1, <2>4, <3>2
  <2>5. CASE schema.type # "object"
    <3>1. v = ConvertLeaf(d.type, y, FALSE)
      <4>1. (schema.type = "object") = FALSE
        BY <2>5
      <4> QED BY <2>2, <4>1, Zenon
    <3>2. MeantLeaf(d.type, v) = y
      <4>1. MeantLeaf(d.type, ConvertLeaf(d.type, y, FALSE)) = y
        BY <2>3, LeafTold
      <4> QED BY <3>1, <4>1, Zenon
    <3> QED BY <2>1, <2>5, <3>2
  <2> QED BY <2>4, <2>5
<1>7. [n \in DOMAIN x[2] |->
          MeantLeaf(Named(schema, n).type, c[2][Named(schema, n).tf])]
      = [n \in DOMAIN x[2] |->
            IF schema.type = "object" THEN RoundedLeaf(x[2][n]) ELSE x[2][n]]
  BY <1>6
<1> QED BY <1>1, <1>5, <1>7

\* Of an item of the API, what the document describes.
Told(x) ==
    IF schema.items = "object"
    THEN Map([n \in DOMAIN x[2] \cap Names(schema) |-> x[2][n]]) ELSE x

LEMMA DocumentedList ==
    ASSUME schema.type = "list", NEW t, IsSeq(t)
    PROVE  Documented(List(t)) = List([k \in DOMAIN t |-> Told(t[k])])
<1>0. List(t)[2] = t
  BY DEF List
<1>1. CASE schema.items = "object"
  <2>1. Documented(List(t)) =
           Each(List(t), LAMBDA m : Map([n \in DOMAIN m[2] \cap Names(schema) |-> m[2][n]]))
    BY <1>1 DEF Documented
  <2>2. Documented(List(t)) =
           List([k \in DOMAIN t |->
                    Map([n \in DOMAIN t[k][2] \cap Names(schema) |-> t[k][2][n]])])
    BY <1>0, <2>1 DEF Each
  <2>3. \A k \in DOMAIN t :
           Told(t[k]) = Map([n \in DOMAIN t[k][2] \cap Names(schema) |-> t[k][2][n]])
    BY <1>1 DEF Told
  <2>4. [k \in DOMAIN t |-> Told(t[k])]
           = [k \in DOMAIN t |->
                 Map([n \in DOMAIN t[k][2] \cap Names(schema) |-> t[k][2][n]])]
    BY <2>3
  <2> QED BY <2>2, <2>4
<1>2. CASE schema.items # "object"
  <2>1. Documented(List(t)) = List(t)
    BY <1>2 DEF Documented, Rounded
  <2>2. \A k \in DOMAIN t : Told(t[k]) = t[k]
    BY <1>2 DEF Told
  <2>3. t = [k \in DOMAIN t |-> t[k]]
    <3>1. PICK S : S = ToSet(t)
      OBVIOUS
    <3> QED BY <3>1 DEF IsSeq
  <2>4. t = [k \in DOMAIN t |-> Told(t[k])]
    BY <2>2, <2>3
  <2> QED BY <2>1, <2>4
<1> QED BY <1>1, <1>2

\* An item is saved as what it equals in the API.
LEMMA StoredIsTold ==
    ASSUME schema \in Schemas, schema.type = "list", ~Shared,
           NEW y, IF schema.items = "object" THEN ConformingMap(schema, y)
                                             ELSE ConformingValue(schema.items, y),
           NEW x, x = y \/ EqualItems(schema, x, y),
           schema.items = "object" => Stored(x) # Failed
    PROVE  MeantItem(Stored(x)) = Told(y)
<1>1. CASE schema.items = "object"
  <2>1. PICK c : c = ConvertMap(schema, x)
    OBVIOUS
  <2>2. c # Failed /\ Stored(x) = c
    BY <1>1, <2>1 DEF Stored
  <2>3. DOMAIN x[2] \subseteq Names(schema)
    BY <2>1, <2>2, ConvertedIs
  <2>4. /\ DOMAIN x[2] = DOMAIN y[2] \cap Names(schema)
        /\ \A n \in DOMAIN x[2] : x[2][n] = y[2][n]
    <3>1. CASE x = y
      BY <2>3, <3>1
    <3>2. CASE EqualItems(schema, x, y)
      <4>1. \A d \in ToSet(schema.children) :
               /\ d.name \in DOMAIN x[2] /\ d.name \in DOMAIN y[2]
               /\ x[2][d.name] = y[2][d.name]
        BY <1>1, <3>2, EqualObjects
      <4>2. \A n \in Names(schema) : n \in DOMAIN x[2] /\ n \in DOMAIN y[2]
                                     /\ x[2][n] = y[2][n]
        BY <4>1 DEF Names
      <4> QED BY <2>3, <4>2
    <3> QED BY <3>1, <3>2
  <2>5. ASSUME NEW n \in DOMAIN x[2]
        PROVE  ConformingLeaf(Named(schema, n).type, x[2][n])
    <3>1. PICK d : d = Named(schema, n)
      OBVIOUS
    <3>2. d \in ToSet(schema.children) /\ d.name = n
      BY <2>3, <3>1, NamedChild
    <3>3. Get(y, d.name) = x[2][n]
      BY <2>4, <3>2 DEF Get, Has
    <3>4. ConformingMap(schema, y)
      BY <1>1
    <3> QED BY <3>1, <3>2, <3>3, <3>4 DEF ConformingMap
  <2>6. MeantItem(c) =
           Map([n \in DOMAIN x[2] |->
                   IF schema.type = "object" THEN RoundedLeaf(x[2][n]) ELSE x[2][n]])
    BY <2>1, <2>2, <2>5, MapTold
  <2>7. [n \in DOMAIN x[2] |->
            IF schema.type = "object" THEN RoundedLeaf(x[2][n]) ELSE x[2][n]]
        = [n \in DOMAIN y[2] \cap Names(schema) |-> y[2][n]]
    BY <2>4
  <2> QED BY <1>1, <2>2, <2>6, <2>7 DEF Told
<1>2. CASE schema.items # "object"
  <2>1. schema.items \in Primitives /\ ConformingValue(schema.items, y)
    BY <1>2, SchemasAssumption
  <2>2. x = y
    BY <1>2 DEF EqualItems, EqualLeaf
  <2>3. ConformingLeaf(schema.items, x)
    BY <2>1, <2>2 DEF ConformingLeaf
  <2>4. Stored(x) = ConvertLeaf(schema.items, x, FALSE)
    <3>1. CASE schema.items = "integer"
      <4>1. Stored(x) = ConvertLeaf("integer", x, FALSE)
        BY <3>1 DEF Stored
      <4> QED BY <3>1, <4>1, Zenon
    <3>2. CASE schema.items # "integer"
      <4>1. Stored(x) = x
        BY <1>2, <3>2 DEF Stored
      <4>2. ConvertLeaf(schema.items, x, FALSE) = x
        BY <2>1, <2>3, <3>2, StaysConverted
      <4> QED BY <4>1, <4>2
    <3> QED BY <3>1, <3>2
  <2>5. /\ MeantLeaf(schema.items, ConvertLeaf(schema.items, x, FALSE)) = x
        /\ ConvertLeaf(schema.items, x, FALSE)[1] \notin {"map", "list"}
    BY <2>1, <2>3, LeafTold
  <2>6. PICK v : v = ConvertLeaf(schema.items, x, FALSE)
    OBVIOUS
  <2>7. Stored(x) = v /\ MeantLeaf(schema.items, v) = x /\ v[1] \notin {"map", "list"}
    BY <2>4, <2>5, <2>6, Zenon
  <2>8. MeantItem(v) = x
    BY <2>7 DEF MeantItem
  <2>9. Told(y) = y
    BY <1>2 DEF Told
  <2> QED BY <2>2, <2>7, <2>8, <2>9
<1> QED BY <1>1, <1>2

\* What is saved of a list.
LEMMA ListTold ==
    ASSUME schema \in Schemas, schema.type = "list", ~Shared,
           NEW r, r = List(r[2]), IsSeq(r[2]), Conforming(schema, r),
           NEW q, IsSeq(q), NEW v, v = List([k \in DOMAIN q |-> Stored(q[k])]),
           schema.items = "object" => \A k \in DOMAIN q : Stored(q[k]) # Failed,
           \/ q = r[2]
           \/ /\ schema.ignoreOrder
              /\ \A x \in ToSet(q) : \E y \in ToSet(r[2]) : x = y \/ EqualItems(schema, x, y)
              /\ \A y \in ToSet(r[2]) : \E x \in ToSet(q) : x = y \/ EqualItems(schema, x, y)
    PROVE  SameItems(Meant(v), Documented(r))
<1> DEFINE t == r[2]
           m == [k \in DOMAIN q |-> MeantItem(Stored(q[k]))]
           d == [k \in DOMAIN t |-> Told(t[k])]
<1>1. Meant(v) = List(m)
  <2>1. v[1] = "list" /\ v[2] = [k \in DOMAIN q |-> Stored(q[k])]
    BY DEF List
  <2>2. Meant(v) = List([k \in DOMAIN v[2] |-> MeantItem(v[2][k])])
    BY <2>1 DEF Meant, Each
  <2>3. [k \in DOMAIN v[2] |-> MeantItem(v[2][k])] = m
    BY <2>1
  <2> QED BY <2>2, <2>3
<1>2. Documented(r) = List(d)
  BY DocumentedList
<1>3. ASSUME NEW y \in ToSet(t)
      PROVE  IF schema.items = "object" THEN ConformingMap(schema, y)
                                        ELSE ConformingValue(schema.items, y)
  BY DEF Conforming
<1>4. ASSUME NEW k \in DOMAIN q, NEW j \in DOMAIN t,
             q[k] = t[j] \/ EqualItems(schema, q[k], t[j])
      PROVE  m[k] = d[j]
  <2>1. PICK x, y : x = q[k] /\ y = t[j]
    OBVIOUS
  <2>2. schema.items = "object" => Stored(x) # Failed
    BY <2>1
  <2>3. IF schema.items = "object" THEN ConformingMap(schema, y)
                                   ELSE ConformingValue(schema.items, y)
    BY <1>3, <2>1 DEF ToSet
  <2>4. MeantItem(Stored(x)) = Told(y)
    BY <1>4, <2>1, <2>2, <2>3, StoredIsTold
  <2> QED BY <2>1, <2>4
<1>5. CASE q = t
  <2>1. m = d
    BY <1>4, <1>5
  <2> QED BY <1>1, <1>2, <2>1 DEF SameItems
<1>6. CASE /\ schema.ignoreOrder
           /\ \A x \in ToSet(q) : \E y \in ToSet(t) : x = y \/ EqualItems(schema, x, y)
           /\ \A y \in ToSet(t) : \E x \in ToSet(q) : x = y \/ EqualItems(schema, x, y)
  <2>1. ASSUME NEW k \in DOMAIN q
        PROVE  \E j \in DOMAIN t : m[k] = d[j]
    <3>1. PICK j \in DOMAIN t : q[k] = t[j] \/ EqualItems(schema, q[k], t[j])
      BY <1>6 DEF ToSet
    <3> QED BY <1>4, <3>1
  <2>2. ASSUME NEW j \in DOMAIN t
        PROVE  \E k \in DOMAIN q : m[k] = d[j]
    <3>1. PICK k \in DOMAIN q : q[k] = t[j] \/ EqualItems(schema, q[k], t[j])
      BY <1>6 DEF ToSet
    <3> QED BY <1>4, <3>1
  <2>3. DOMAIN m = DOMAIN q /\ DOMAIN d = DOMAIN t
    OBVIOUS
  <2> HIDE DEF m, d
  <2>4. ToSet(m) = ToSet(d)
    BY <2>1, <2>2, <2>3 DEF ToSet
  <2>5. List(m)[2] = m /\ List(d)[2] = d
    BY DEF List
  <2> QED BY <1>1, <1>2, <1>6, <2>4, <2>5, NotFailed DEF SameItems
<1> QED BY <1>5, <1>6

\* What is saved of a list means what the API has of it.
LEMMA SavedListTold ==
    ASSUME schema \in Schemas, schema.type = "list", ~Shared,
           NEW r, r # Nil, Conforming(schema, r),
           NEW response, Conforming(schema, response), ToSet(response[2]) = ToSet(r[2]),
           ~schema.ignoreOrder => response = r,
           NEW data, Shaped(data),
           NEW v, v = Saved(data, response), v # Failed
    PROVE  SameItems(Meant(v), Documented(r))
<1>1. /\ r = List(r[2]) /\ IsSeq(r[2])
      /\ response = List(response[2]) /\ IsSeq(response[2])
  BY DEF Conforming
<1>2. PICK q : q = Items(data, response)
  OBVIOUS
<1>3. /\ IsSeq(q) /\ v = List([k \in DOMAIN q |-> Stored(q[k])])
      /\ schema.items = "object" => \A k \in DOMAIN q : Stored(q[k]) # Failed
  BY <1>1, <1>2, SavedList
<1>4. CASE ~schema.ignoreOrder
  <2>1. q = r[2]
    BY <1>2, <1>4 DEF Items
  <2> QED BY <1>1, <1>3, <2>1, ListTold
<1>5. CASE schema.ignoreOrder
  <2>1. /\ \A x \in ToSet(q) : \E y \in ToSet(r[2]) : x = y \/ EqualItems(schema, x, y)
        /\ \A y \in ToSet(r[2]) : \E x \in ToSet(q) : x = y \/ EqualItems(schema, x, y)
    <3>1. CASE data = Nil
      BY <1>2, <3>1 DEF Items
    <3>2. CASE data # Nil
      <4>1. ToSet(q) = Known(schema, data, response) \cup Added(schema, data, response)
        BY <1>1, <1>2, <1>5, <3>2, ItemsAre
      <4> QED BY <4>1 DEF Known, Added
    <3> QED BY <3>1, <3>2
  <2> QED BY <1>1, <1>3, <1>5, <2>1, ListTold
<1> QED BY <1>4, <1>5

LEMMA SavedObjectTold ==
    ASSUME schema \in Schemas, schema.type = "object", ~Shared,
           NEW r, r # Nil, Conforming(schema, r),
           NEW data, NEW v, v = Saved(data, r), v # Failed
    PROVE  SameItems(Meant(v), Documented(r))
<1>0. ~schema.ignoreOrder /\ schema.items = ""
  BY SchemasAssumption
<1>1. PICK c : c = ConvertMap(schema, r)
  OBVIOUS
<1>2. Convert(schema, r) = c /\ Ordered(data, r) = r
  BY <1>0, <1>1 DEF Convert, Ordered
<1>3. c # Failed /\ v = c
  BY <1>0, <1>2 DEF Saved, Settled
<1>4. DOMAIN r[2] \subseteq Names(schema) /\ IsMap(c)
  BY <1>1, <1>3, ConvertedIs
<1>5. ASSUME NEW n \in DOMAIN r[2]
      PROVE  ConformingLeaf(Named(schema, n).type, r[2][n])
  <2>1. PICK d : d = Named(schema, n)
    OBVIOUS
  <2>2. d \in ToSet(schema.children) /\ d.name = n
    BY <1>4, <2>1, NamedChild
  <2>3. Get(r, d.name) = r[2][n]
    BY <2>2 DEF Get, Has
  <2> QED BY <2>1, <2>2, <2>3 DEF Conforming, ConformingMap
<1>6. MeantItem(c) =
         Map([n \in DOMAIN r[2] |->
                 IF schema.type = "object" THEN RoundedLeaf(r[2][n]) ELSE r[2][n]])
  BY <1>1, <1>3, <1>5, MapTold
<1>7. Documented(r) = Map([n \in DOMAIN r[2] |-> RoundedLeaf(r[2][n])])
  BY <1>0 DEF Documented, Rounded, RoundedLeaf
<1>8. [n \in DOMAIN r[2] |->
          IF schema.type = "object" THEN RoundedLeaf(r[2][n]) ELSE r[2][n]]
      = [n \in DOMAIN r[2] |-> RoundedLeaf(r[2][n])]
  OBVIOUS
<1>9. Meant(c) = MeantItem(c)
  BY <1>4, MapIs DEF Meant
<1> QED BY <1>3, <1>6, <1>7, <1>8, <1>9 DEF SameItems

LEMMA SavedPrimitiveTold ==
    ASSUME schema \in Schemas, schema.type \notin {"list", "object"},
           NEW r, r # Nil, Conforming(schema, r),
           NEW data, NEW v, v = Saved(data, r)
    PROVE  SameItems(Meant(v), Documented(r))
<1>0. ~schema.ignoreOrder /\ schema.items = "" /\ schema.type \in Primitives
  BY SchemasAssumption
<1>1. ConformingLeaf(schema.type, r)
  BY DEF Conforming
<1>2. /\ MeantLeaf(schema.type, ConvertLeaf(schema.type, r, FALSE)) = r
      /\ ConvertLeaf(schema.type, r, FALSE)[1] \notin {"map", "list"}
  BY <1>0, <1>1, LeafTold
<1>3. PICK c : c = ConvertLeaf(schema.type, r, FALSE)
  OBVIOUS
<1>4. MeantLeaf(schema.type, c) = r /\ c[1] \notin {"map", "list"}
  BY <1>2, <1>3, Zenon
<1>5. Convert(schema, r) = c
  <2>1. Convert(schema, r) = ConvertLeaf(schema.type, r, FALSE)
    BY <1>0 DEF Convert
  <2> QED BY <1>3, <2>1, Zenon
<1>6. v = c
  <2>1. Ordered(data, r) = r /\ Settled(schema, c) = c
    BY <1>0 DEF Ordered, Settled
  <2> QED BY <1>5, <2>1 DEF Saved
<1>7. Meant(c) = r
  BY <1>0, <1>4 DEF Meant, MeantItem
<1>8. Documented(r) = r
  BY <1>0 DEF Documented, Rounded
<1> QED BY <1>6, <1>7, <1>8 DEF SameItems

\* A successful save, and what it says of what the API has.
LEMMA SaveTells ==
    ASSUME schema \in Schemas, ~Shared, NEW data, Shaped(data.subject),
           NEW o, o = Both(o.subject, o.other), o.subject # Nil, Conforming(schema, o.subject),
           NEW response \in Rearranged(o), Save(data, response, "ok"), result' = "ok"
    PROVE  SameItems(Meant(state'.subject), Documented(o.subject))
<1>1. PICK r, v : r = response.subject /\ v = Saved(data.subject, r)
  OBVIOUS
<1>2. v # Failed /\ state'.subject = v
  BY <1>1 DEF Save, Both
<1>3. /\ r # Nil /\ Conforming(schema, r)
      /\ ~schema.ignoreOrder => r = o.subject
      /\ schema.ignoreOrder => ToSet(r[2]) = ToSet(o.subject[2])
  BY <1>1, ResponseOf
<1>4. PICK s, d : s = o.subject /\ d = data.subject
  OBVIOUS
<1>5. CASE schema.type = "list"
  <2>1. ToSet(r[2]) = ToSet(s[2]) /\ (~schema.ignoreOrder => r = s)
    BY <1>3, <1>4
  <2>2. SameItems(Meant(v), Documented(s))
    BY <1>1, <1>2, <1>3, <1>4, <1>5, <2>1, SavedListTold
  <2> QED BY <1>2, <1>4, <2>2
<1>6. CASE schema.type # "list"
  <2>1. r = s
    BY <1>3, <1>4, <1>6, SchemasAssumption
  <2>2. SameItems(Meant(v), Documented(r))
    BY <1>1, <1>2, <1>3, <1>4, <1>6, SavedObjectTold, SavedPrimitiveTold
  <2> QED BY <1>2, <1>4, <2>1, <2>2
<1> QED BY <1>5, <1>6

TruthInv == ShapeInv /\ StateTellsTheTruth

LEMMA NextTruthInv ==
    ASSUME TruthInv, [Next]_vars
    PROVE  TruthInv'
<1>0. ShapeInv /\ ShapeInv'
  BY NextShapeInv DEF TruthInv
<1>1. /\ schema' = schema /\ schema \in Schemas
      /\ Shaped(config.subject) /\ Shaped(state.subject)
      /\ remote = Both(remote.subject, remote.other)
      /\ remote.subject = Nil \/ Conforming(schema, remote.subject)
      /\ remote' = Both(remote'.subject, remote'.other)
      /\ remote'.subject = Nil \/ Conforming(schema, remote'.subject)
  BY <1>0, ConfigStays DEF ShapeInv, RemoteInv
<1>2. SUFFICES ASSUME result' = "ok", remote'.subject # Nil, ~Shared
               PROVE  SameItems(Meant(state'.subject), Documented(remote'.subject))
  <2>1. Shared' <=> Shared
    BY <1>1 DEF Shared
  <2>2. StateTellsTheTruth' <=>
           ((result' = "ok" /\ remote'.subject # Nil /\ ~Shared) =>
                SameItems(Meant(state'.subject), Documented(remote'.subject)))
    BY <1>1, <2>1 DEF StateTellsTheTruth, SameItems, Meant, MeantItem, Documented, Rounded, Each
  <2> QED BY <1>0, <1>2, <2>2 DEF TruthInv
<1>3. CASE Create
  <2>1. PICK response \in Rearranged(remote') : Save(config, response, "ok")
    BY <1>3 DEF Create
  <2> QED BY <1>1, <1>2, <2>1, SaveTells
<1>4. CASE Read
  <2>1. PICK response \in Rearranged(remote) : Save(state, response, "ok")
    BY <1>4 DEF Read
  <2>2. remote' = remote
    BY <1>4 DEF Read
  <2> QED BY <1>1, <1>2, <2>1, <2>2, SaveTells
<1>5. CASE Put
  <2>1. PICK response \in Rearranged(remote') : Save(config, response, "ok")
    BY <1>5 DEF Put
  <2> QED BY <1>1, <1>2, <2>1, SaveTells
<1>6. ASSUME NEW checked, Save(config, checked, "immutable")
      PROVE  FALSE
  BY <1>2, <1>6, SaveEnds
<1>7. CASE UNCHANGED vars
  BY <1>2, <1>7 DEF TruthInv, StateTellsTheTruth, vars
<1>8. Create \/ Read \/ Put \/ UNCHANGED vars \/ \E checked : Save(config, checked, "immutable")
  BY <1>2 DEF Next, Update, Configure, Edit
<1> QED BY <1>3, <1>4, <1>5, <1>6, <1>7, <1>8

(***************************************************************************)
(* What is saved as the state of a property is what the API has, whatever  *)
(* the API has made of it, converted to what Terraform holds; of a list    *)
(* whose order means nothing, an item is in the state if and only if the   *)
(* API has it (convertPayloadToLocalStateDataValue and                     *)
(* processIgnoreOrderIfEnabled, common.go).  How often a repeated item is  *)
(* in the state this does not say.                                         *)
(***************************************************************************)
THEOREM StatesAreTrue == Spec => []StateTellsTheTruth
<1>1. Init => TruthInv
  <2>1. SUFFICES ASSUME Init
                 PROVE  TruthInv
    OBVIOUS
  <2>2. ShapeInv /\ result # "ok"
    BY <2>1, InitShapeInv DEF Init
  <2> QED BY <2>2 DEF TruthInv, StateTellsTheTruth
<1>2. TruthInv /\ [Next]_vars => TruthInv'
  BY NextTruthInv
<1>3. TruthInv => StateTellsTheTruth
  BY DEF TruthInv
<1> QED BY <1>1, <1>2, <1>3, PTL DEF Spec
=============================================================================
