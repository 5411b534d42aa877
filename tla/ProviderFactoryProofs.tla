------------------------- MODULE ProviderFactoryProofs -------------------------
(***************************************************************************)
(* Proofs about the registration of resources and what a provider is made  *)
(* of once it is ready, for every set of documents and every order in      *)
(* which their paths are walked.                                           *)
(***************************************************************************)
EXTENDS ProviderFactoryProps, SortedSetsProofs, SequenceTheorems

\* The resources a document can yield.
Regions == STRING \cup {""}
ResourcesIn(d) == {Resource(d, c[1], c[2]) : c \in Paths(d) \X Regions}

(***************************************************************************)
(* The inductive invariant: what the resource map holds of the resources   *)
(* met so far, when no three of them share a name.                         *)
(***************************************************************************)
Walked ==
    /\ doc \in Documents
    /\ found \in Seq(ResourcesIn(doc))
    /\ todo \subseteq Paths(doc)
    /\ next \in 1..(Len(found) + 1)
    /\ phase = "analyse" => next = 1
    /\ phase \in {"dataSources", "ready"} => next = Len(found) + 1

OnlyOffers ==
    \A n \in DOMAIN resourceMap :
        \E i \in Offers(n, next - 1) :
            Offers(n, next - 1) = {i} /\ resourceMap[n] = found[i]

EveryOffer ==
    \A i \in 1..(next - 1) :
        Offers(found[i].name, next - 1) = {i} => found[i].name \in DOMAIN resourceMap

RegInv ==
    /\ Walked
    /\ phase = "analyse" => DOMAIN resourceMap = {}
    /\ AtMostTwo => OnlyOffers /\ EveryOffer

-----------------------------------------------------------------------------
\* Whatever the analysis of a path yields is a sequence of resources.
LEMMA OutcomesAreSequences ==
    ASSUME NEW d \in Documents, NEW p \in Paths(d), NEW s \in Outcomes(d, p)
    PROVE  s \in Seq(ResourcesIn(d))
<1>1. d.regions \in Seq(STRING)
  BY DocumentsAssumption
<1>r. ASSUME NEW g \in Regions PROVE Resource(d, p, g) \in ResourcesIn(d)
  <2>1. PICK c \in Paths(d) \X Regions : c = <<p, g>>
    OBVIOUS
  <2>2. Resource(d, c[1], c[2]) = Resource(d, p, g)
    BY <2>1
  <2>3. QED
    BY <2>2 DEF ResourcesIn
<1>2. <<>> \in Seq(ResourcesIn(d))
  OBVIOUS
<1>3. ResourcesOf(d, p) \in Seq(ResourcesIn(d))
  <2>1. <<Resource(d, p, "")>> \in Seq(ResourcesIn(d))
    <3>1. Resource(d, p, "") \in ResourcesIn(d)
      BY <1>r DEF Regions
    <3>2. ASSUME NEW S, NEW x \in S PROVE <<x>> \in Seq(S)
      OBVIOUS
    <3>3. QED
      BY <3>1, <3>2
  <2>2. [i \in DOMAIN d.regions |-> Resource(d, p, d.regions[i])]
            \in Seq(ResourcesIn(d))
    <3>1. /\ Len(d.regions) \in Nat
          /\ DOMAIN d.regions = 1..Len(d.regions)
          /\ \A i \in DOMAIN d.regions : d.regions[i] \in STRING
      BY <1>1
    <3>2. \A i \in DOMAIN d.regions :
             Resource(d, p, d.regions[i]) \in ResourcesIn(d)
      BY <3>1, <1>r DEF Regions
    <3>3. QED
      BY <3>1, <3>2, IsASeq
  <2>3. QED
    BY <1>2, <2>1, <2>2 DEF ResourcesOf
<1>4. QED
  BY <1>2, <1>3 DEF Outcomes

\* One more resource met: an offer of its own name, unless it is ignored.
LEMMA OneMoreOffer ==
    ASSUME NEW n, Walked, next <= Len(found)
    PROVE  Offers(n, next) =
              IF found[next].name = n /\ ~found[next].ignored
              THEN Offers(n, next - 1) \cup {next}
              ELSE Offers(n, next - 1)
<1>1. next \in Nat /\ next >= 1 /\ 1..next = (1..(next - 1)) \cup {next}
  BY DEF Walked
<1>2. QED
  BY <1>1 DEF Offers

LEMMA InitRegInv == Init => RegInv
<1> SUFFICES ASSUME Init PROVE RegInv
  OBVIOUS
<1>1. Walked
  BY DEF Init, Walked
<1>2. DOMAIN resourceMap = {} /\ next = 1
  BY DEF Init, NoMap
<1>3. QED
  BY <1>1, <1>2 DEF RegInv, OnlyOffers, EveryOffer

\* The walk adds resources while the map is still empty.
LEMMA AnalyseKeepsRegInv ==
    ASSUME RegInv, NEW path \in todo, AnalysePath(path)
    PROVE  RegInv'
<1>1. PICK resources \in Outcomes(doc, path) : found' = found \o resources
  BY DEF AnalysePath
<1>2. resources \in Seq(ResourcesIn(doc))
  BY <1>1, OutcomesAreSequences DEF RegInv, Walked
<1>3. phase = "analyse" /\ phase' = "analyse" /\ doc' = doc /\ next' = next
      /\ resourceMap' = resourceMap /\ todo' = todo \ {path}
  BY DEF AnalysePath, Visit
<1>4. /\ found' \in Seq(ResourcesIn(doc))
      /\ Len(found') = Len(found) + Len(resources)
      /\ Len(found) \in Nat /\ Len(resources) \in Nat
  BY <1>1, <1>2, ConcatProperties DEF RegInv, Walked
<1>5. Walked'
  BY <1>3, <1>4 DEF RegInv, Walked
<1>6. DOMAIN resourceMap' = {} /\ next' = 1
  BY <1>3 DEF RegInv, Walked
<1>7. QED
  BY <1>5, <1>6 DEF RegInv, OnlyOffers, EveryOffer

\* The loop's body keeps the map to the names that one resource has offered.
LEMMA RegisterKeepsRegInv ==
    ASSUME RegInv, NEW r, RegisterResource(r)
    PROVE  RegInv'
<1>1. /\ r = found[next] /\ next <= Len(found) /\ next' = next + 1
      /\ UNCHANGED <<doc, phase, todo, found>> /\ phase = "register"
      /\ next' - 1 = next /\ next \in Nat /\ next >= 1
  BY DEF RegisterResource, Registering, RegInv, Walked
<1>2. Walked'
  BY <1>1 DEF RegInv, Walked
<1>3. ASSUME AtMostTwo'
      PROVE  OnlyOffers' /\ EveryOffer'
  <2>1. AtMostTwo /\ OnlyOffers /\ EveryOffer
    BY <1>1, <1>3 DEF RegInv, AtMostTwo
  <2>2. ASSUME NEW n
        PROVE  /\ Offers(n, next - 1)' = Offers(n, next)
               /\ Offers(n, next) =
                    IF r.name = n /\ ~r.ignored
                    THEN Offers(n, next - 1) \cup {next}
                    ELSE Offers(n, next - 1)
               /\ Offers(n, next - 1) \subseteq 1..(next - 1)
               /\ next \notin Offers(n, next - 1)
    <3>1. Offers(n, next - 1)' = Offers(n, next)
      BY <1>1 DEF Offers
    <3>2. QED
      BY <3>1, <1>1, OneMoreOffer DEF RegInv, Offers
  <2>3. CASE r.ignored
    <3>1. resourceMap' = resourceMap
      BY <2>3 DEF RegisterResource
    <3>2. \A n : Offers(n, next - 1)' = Offers(n, next - 1)
      BY <2>2, <2>3
    <3>3. OnlyOffers'
      BY <1>1, <2>1, <3>1, <3>2 DEF OnlyOffers
    <3>4. EveryOffer'
      <4>1. SUFFICES ASSUME NEW i \in 1..next,
                            Offers(found[i].name, next - 1) = {i}
                     PROVE  found[i].name \in DOMAIN resourceMap
        BY <1>1, <3>1, <3>2 DEF EveryOffer
      <4>2. i \in 1..(next - 1)
        BY <4>1, <2>2
      <4>3. QED
        BY <4>1, <4>2, <2>1 DEF EveryOffer
    <3>5. QED
      BY <3>3, <3>4
  <2>4. CASE ~r.ignored /\ r.name \in DOMAIN resourceMap
    <3>1. resourceMap' = Drop(resourceMap, r.name)
      BY <2>4 DEF RegisterResource, TakeOut
    <3>2. DOMAIN resourceMap' = DOMAIN resourceMap \ {r.name}
          /\ \A n \in DOMAIN resourceMap' : resourceMap'[n] = resourceMap[n]
      BY <3>1 DEF Drop
    <3>3. PICK j \in Offers(r.name, next - 1) : TRUE
      BY <2>1, <2>4 DEF OnlyOffers
    <3>4. OnlyOffers'
      <4>1. SUFFICES ASSUME NEW n \in DOMAIN resourceMap, n # r.name
                     PROVE  \E i \in Offers(n, next - 1) :
                                /\ Offers(n, next - 1) = {i}
                                /\ resourceMap'[n] = found[i]
        BY <1>1, <2>2, <3>2 DEF OnlyOffers
      <4>2. QED
        BY <4>1, <2>1, <3>2 DEF OnlyOffers
    <3>5. EveryOffer'
      <4>1. SUFFICES ASSUME NEW i \in 1..next,
                            Offers(found[i].name, next) = {i}
                     PROVE  found[i].name \in DOMAIN resourceMap'
        BY <1>1, <2>2 DEF EveryOffer
      <4>2. found[i].name # r.name
        BY <4>1, <2>2, <2>4, <3>3
      <4>3. i \in 1..(next - 1) /\ Offers(found[i].name, next - 1) = {i}
        BY <4>1, <4>2, <2>2, <1>1
      <4>4. QED
        BY <4>2, <4>3, <2>1, <3>2 DEF EveryOffer
    <3>6. QED
      BY <3>4, <3>5
  <2>5. CASE ~r.ignored /\ r.name \notin DOMAIN resourceMap
    <3>1. resourceMap' = Put(resourceMap, r.name, r)
      BY <2>5 DEF RegisterResource, PutIn
    <3>2. /\ DOMAIN resourceMap' = DOMAIN resourceMap \cup {r.name}
          /\ resourceMap'[r.name] = r
          /\ \A n \in DOMAIN resourceMap : resourceMap'[n] = resourceMap[n]
      BY <3>1, <2>5 DEF Put
    <3>3. Offers(r.name, next - 1) = {}
      <4>1. SUFFICES ASSUME NEW i \in Offers(r.name, next - 1) PROVE FALSE
        OBVIOUS
      <4>2. i \in 1..(next - 1) /\ found[i].name = r.name /\ ~found[i].ignored
        BY <4>1 DEF Offers
      <4>3. Offers(r.name, next - 1) # {i}
        BY <4>2, <2>1, <2>5 DEF EveryOffer
      <4>4. PICK j \in Offers(r.name, next - 1) : j # i
        BY <4>1, <4>3
      <4>5. j \in 1..(next - 1) /\ found[j].name = r.name /\ ~found[j].ignored
        BY <4>4 DEF Offers
      <4>6. 1..next \subseteq DOMAIN found
        BY <1>1 DEF RegInv, Walked
      <4>7. i # next /\ j # next /\ i \in 1..next /\ j \in 1..next
        BY <4>2, <4>5, <1>1
      <4>8. QED
        BY <1>1, <4>2, <4>4, <4>5, <4>6, <4>7, <2>1, <2>5 DEF AtMostTwo
    <3>4. OnlyOffers'
      <4>1. SUFFICES ASSUME NEW n \in DOMAIN resourceMap'
                     PROVE  \E i \in Offers(n, next) :
                                /\ Offers(n, next) = {i}
                                /\ resourceMap'[n] = found[i]
        BY <1>1, <2>2 DEF OnlyOffers
      <4>2. CASE n = r.name
        <5>1. Offers(n, next) = {next}
          BY <4>2, <2>2, <2>5, <3>3
        <5>2. QED
          BY <5>1, <4>2, <3>2, <1>1
      <4>3. CASE n # r.name
        <5>1. n \in DOMAIN resourceMap /\ Offers(n, next) = Offers(n, next - 1)
          BY <4>1, <4>3, <2>2, <3>2
        <5>2. QED
          BY <5>1, <2>1, <3>2 DEF OnlyOffers
      <4>4. QED
        BY <4>2, <4>3
    <3>5. EveryOffer'
      <4>1. SUFFICES ASSUME NEW i \in 1..next,
                            Offers(found[i].name, next) = {i},
                            found[i].name # r.name
                     PROVE  found[i].name \in DOMAIN resourceMap'
        BY <1>1, <2>2, <3>2 DEF EveryOffer
      <4>2. i \in 1..(next - 1) /\ Offers(found[i].name, next - 1) = {i}
        BY <4>1, <2>2, <1>1
      <4>3. QED
        BY <4>2, <2>1, <3>2 DEF EveryOffer
    <3>6. QED
      BY <3>4, <3>5
  <2>6. QED
    BY <2>3, <2>4, <2>5
<1>4. QED
  BY <1>1, <1>2, <1>3 DEF RegInv

\* Nothing else touches the map, nor what it was made from.
LEMMA OthersKeepRegInv ==
    ASSUME RegInv,
           UNCHANGED <<doc, found, next, resourceMap>>,
           todo' \subseteq Paths(doc),
           phase' = "analyse" => phase = "analyse",
           phase' \in {"dataSources", "ready"} => next = Len(found) + 1
    PROVE  RegInv'
<1>1. Walked'
  BY DEF RegInv, Walked
<1>2. \A n : Offers(n, next - 1)' = Offers(n, next - 1)
  BY DEF Offers
<1>3. AtMostTwo' => AtMostTwo
  BY DEF AtMostTwo
<1>4. OnlyOffers => OnlyOffers'
  BY <1>2 DEF OnlyOffers
<1>5. EveryOffer => EveryOffer'
  BY <1>2 DEF EveryOffer
<1>6. QED
  BY <1>1, <1>3, <1>4, <1>5 DEF RegInv

LEMMA NextRegInv == RegInv /\ [Next]_vars => RegInv'
<1> SUFFICES ASSUME RegInv, [Next]_vars PROVE RegInv'
  OBVIOUS
<1>a. /\ todo \subseteq Paths(doc)
      /\ phase \in {"dataSources", "ready"} => next = Len(found) + 1
      /\ next \in 1..(Len(found) + 1) /\ Len(found) \in Nat
  BY DEF RegInv, Walked
<1>1. ASSUME NEW path \in todo, AnalysePath(path) PROVE RegInv'
  BY <1>1, AnalyseKeepsRegInv
<1>2. ASSUME NEW path \in todo, AnalyseDataSource(path) PROVE RegInv'
  BY <1>2, <1>a, OthersKeepRegInv DEF AnalyseDataSource, Visit
<1>3. ASSUME NEW path \in todo, DataSourceFails(path) PROVE RegInv'
  BY <1>3, <1>a, OthersKeepRegInv DEF DataSourceFails, Fails
<1>4. ASSUME NEW r \in ToSet(found), RegisterResource(r) PROVE RegInv'
  BY <1>4, RegisterKeepsRegInv
<1>5. ASSUME NEW r \in ToSet(found), RegistrationFails(r) PROVE RegInv'
  BY <1>5, <1>a, OthersKeepRegInv DEF RegistrationFails, Fails
<1>6. CASE EndAnalysis
  BY <1>6, <1>a, OthersKeepRegInv DEF EndAnalysis
<1>7. CASE EndRegistration
  BY <1>7, <1>a, OthersKeepRegInv DEF EndRegistration
<1>8. CASE EndDataSources
  BY <1>8, <1>a, OthersKeepRegInv DEF EndDataSources
<1>9. CASE UNCHANGED vars
  BY <1>9, <1>a, OthersKeepRegInv DEF vars
<1>10. QED
  BY <1>1, <1>2, <1>3, <1>4, <1>5, <1>6, <1>7, <1>8, <1>9 DEF Next

\* What the loop keeps is what the properties say once it is over.
LEMMA RegInvMeansPairsExcluded == RegInv => PairsExcluded
<1> SUFFICES ASSUME RegInv, AtMostTwo, phase \in {"dataSources", "ready"}
             PROVE  /\ CollisionsExcluded
                    /\ \A i \in DOMAIN found :
                          Offers(found[i].name, Len(found)) = {i} =>
                              found[i].name \in DOMAIN resourceMap
  BY DEF PairsExcluded
<1>1. next - 1 = Len(found) /\ DOMAIN found = 1..Len(found)
  BY DEF RegInv, Walked
<1>2. QED
  BY <1>1 DEF RegInv, OnlyOffers, EveryOffer, CollisionsExcluded

(***************************************************************************)
(* Whatever the document and the order of the walks: as long as no three   *)
(* resources share a name, a name is registered exactly when one resource  *)
(* has it (createTerraformProviderResourceMapAndDataSourceInstanceMap).    *)
(***************************************************************************)
THEOREM NamesAreUnambiguous == Spec => []PairsExcluded
<1>1. Init => RegInv
  BY InitRegInv
<1>2. RegInv /\ [Next]_vars => RegInv'
  BY NextRegInv
<1>3. RegInv => PairsExcluded
  BY RegInvMeansPairsExcluded
<1>4. QED
  BY <1>1, <1>2, <1>3, PTL DEF Spec

-----------------------------------------------------------------------------
(* Names are sequences                                                     *)

IsSeq(s) == \E S : s \in Seq(S)

LEMMA EmptyIsSeq == IsSeq(<<>>)
<1>1. <<>> \in Seq({})
  OBVIOUS
<1> QED BY <1>1 DEF IsSeq

LEMMA OneIsSeq ==
    ASSUME NEW x
    PROVE  IsSeq(<<x>>)
<1>1. <<x>> \in Seq({x})
  OBVIOUS
<1> QED BY <1>1 DEF IsSeq

\* Two sequences are sequences of the same kind of thing.
LEMMA CommonSeq ==
    ASSUME NEW s, NEW t, IsSeq(s), IsSeq(t)
    PROVE  \E S : s \in Seq(S) /\ t \in Seq(S)
<1>1. PICK S : s \in Seq(S)
  BY DEF IsSeq
<1>2. PICK T : t \in Seq(T)
  BY DEF IsSeq
<1>3. s \in Seq(S \cup T)
  BY <1>1
<1>4. t \in Seq(S \cup T)
  BY <1>2
<1> QED BY <1>3, <1>4

LEMMA ConcatIsSeq ==
    ASSUME NEW s, NEW t, IsSeq(s), IsSeq(t)
    PROVE  IsSeq(s \o t)
<1>1. PICK S : s \in Seq(S) /\ t \in Seq(S)
  BY CommonSeq
<1>2. s \o t \in Seq(S)
  BY <1>1
<1> QED BY <1>2 DEF IsSeq

\* What an instance's data source is called tells the resource's name.
LEMMA InstanceNamesDiffer ==
    ASSUME NEW s, NEW t, IsSeq(s), IsSeq(t), InstanceName(s) = InstanceName(t)
    PROVE  s = t
<1>1. PICK S : s \in Seq(S) /\ t \in Seq(S)
  BY CommonSeq
<1> DEFINE U == S \cup {"instance"}
<1>2. s \in Seq(U) /\ t \in Seq(U) /\ <<"instance">> \in Seq(U)
  BY <1>1
<1>3. s \o <<"instance">> = t \o <<"instance">>
  BY DEF InstanceName
<1> HIDE DEF U
<1>4. Len(s) = Len(t)
  <2>1. Len(s \o <<"instance">>) = Len(s) + 1 /\ Len(t \o <<"instance">>) = Len(t) + 1
    BY <1>2
  <2> QED BY <1>2, <1>3, <2>1
<1>5. \A i \in 1..Len(s) : s[i] = t[i]
  <2>1. \A i \in 1..Len(s) : (s \o <<"instance">>)[i] = s[i]
    BY <1>2
  <2>2. \A i \in 1..Len(t) : (t \o <<"instance">>)[i] = t[i]
    BY <1>2
  <2> QED BY <1>3, <1>4, <2>1, <2>2
<1> QED BY <1>2, <1>4, <1>5, SeqEqual

\* The set below a number that a recursion on numbers comes down to.
\* FlattenSeq is a fold that exists, and so it computes what it says.
LEMMA FlattenExists ==
    ASSUME NEW seqs, NEW n \in Nat
    PROVE  \E f : f = [i \in 1..n |-> IF i = 1 THEN seqs[i] ELSE f[i-1] \o seqs[i]]
<1> DEFINE Flat(f, k) ==
               f = [i \in 1..k |-> IF i = 1 THEN seqs[i] ELSE f[i-1] \o seqs[i]]
           T == {k \in Nat : ~ \E f : Flat(f, k)}
<1>1. SUFFICES ASSUME T # {} PROVE FALSE
  OBVIOUS
<1>2. PICK k \in T : \A j \in T : k <= j
  <2> HIDE DEF T
  <2>1. T \in SUBSET Nat
    BY DEF T
  <2> QED BY <1>1, <2>1, LeastIsThere
<1>3. k # 0
  <2>1. Flat([i \in {} |-> seqs], 0)
    OBVIOUS
  <2> QED BY <2>1
<1>4. k - 1 \in Nat /\ k - 1 \notin T
  <2>1. k \in Nat
    OBVIOUS
  <2> HIDE DEF T
  <2> QED BY <1>2, <1>3, <2>1
<1>5. PICK g : Flat(g, k - 1)
  BY <1>4
<1> DEFINE f == [i \in 1..k |-> IF i < k THEN g[i]
                                ELSE IF k = 1 THEN seqs[1] ELSE g[k-1] \o seqs[k]]
<1>6. \A i \in 1..k : f[i] = IF i = 1 THEN seqs[i] ELSE f[i-1] \o seqs[i]
  <2>1. \A i \in 1..(k-1) : g[i] = IF i = 1 THEN seqs[i] ELSE g[i-1] \o seqs[i]
    BY <1>4, <1>5
  <2>2. \A i \in 1..(k-1) : f[i] = g[i]
    BY <1>4
  <2>3. f[k] = IF k = 1 THEN seqs[1] ELSE g[k-1] \o seqs[k]
    BY <1>3, <1>4
  <2> HIDE DEF f
  <2>4. ASSUME NEW i \in 1..k, i # k
        PROVE  f[i] = IF i = 1 THEN seqs[i] ELSE f[i-1] \o seqs[i]
    <3>1. i \in 1..(k-1) /\ (i # 1 => i - 1 \in 1..(k-1))
      BY <1>4, <2>4
    <3>2. f[i] = g[i] /\ (i # 1 => f[i-1] = g[i-1])
      BY <2>2, <3>1
    <3> QED BY <2>1, <3>1, <3>2
  <2>5. k # 1 => f[k-1] = g[k-1]
    BY <1>4, <1>3, <2>2
  <2> QED BY <2>3, <2>4, <2>5
<1>7. Flat(f, k)
  BY <1>6
<1> QED BY <1>2, <1>7

\* What it makes of sequences is one, and any property of sequences that joining
\* two of them keeps carries over.
LEMMA FlattenIsSeq ==
    ASSUME NEW seqs, NEW n \in Nat, seqs = [i \in 1..n |-> seqs[i]],
           \A i \in 1..n : IsSeq(seqs[i])
    PROVE  IsSeq(FlattenSeq(seqs))
<1>1. Len(seqs) = n
  BY LenProperties
<1>2. CASE n = 0
  <2>1. seqs = <<>>
    BY <1>2
  <2>2. FlattenSeq(seqs) = seqs
    BY <1>1, <1>2 DEF FlattenSeq
  <2> QED BY <2>1, <2>2, EmptyIsSeq
<1>3. CASE n # 0
  <2> DEFINE Flat(f) ==
                 f = [i \in 1..n |-> IF i = 1 THEN seqs[i] ELSE f[i-1] \o seqs[i]]
             f == CHOOSE f : Flat(f)
             T == {i \in 1..n : ~IsSeq(f[i])}
  <2>1. FlattenSeq(seqs) = f[n]
    BY <1>1, <1>3 DEF FlattenSeq
  <2>2. Flat(f)
    BY FlattenExists
  <2>3. \A i \in 1..n : f[i] = IF i = 1 THEN seqs[i] ELSE f[i-1] \o seqs[i]
    <3> HIDE DEF f
    <3> QED BY <2>2
  <2> HIDE DEF f
  <2>4. T = {}
    <3>1. SUFFICES ASSUME T # {} PROVE FALSE
      OBVIOUS
    <3>2. T \in SUBSET Nat
      OBVIOUS
    <3>3. PICK k \in T : \A j \in T : k <= j
      <4> HIDE DEF T
      <4> QED BY <3>1, <3>2, LeastIsThere
    <3>4. k \in 1..n /\ ~IsSeq(f[k])
      BY <3>3
    <3>5. CASE k = 1
      BY <2>3, <3>4, <3>5
    <3>6. CASE k # 1
      <4>1. k - 1 \in 1..n /\ k - 1 \notin T
        <5>1. k - 1 \in 1..n /\ ~ (k <= k - 1)
          BY <3>4, <3>6
        <5> HIDE DEF T
        <5> QED BY <3>3, <5>1
      <4>2. IsSeq(f[k-1]) /\ IsSeq(seqs[k])
        BY <3>4, <4>1
      <4>3. f[k] = f[k-1] \o seqs[k]
        BY <2>3, <3>4, <3>6
      <4> QED BY <3>4, <4>2, <4>3, ConcatIsSeq
    <3> QED BY <3>5, <3>6
  <2>5. n \in 1..n
    BY <1>3
  <2> QED BY <2>1, <2>4, <2>5
<1> QED BY <1>2, <1>3

\* How many parents a path has is a number.
LEMMA ParentsAreCounted ==
    ASSUME NEW segs \in Seq(STRING)
    PROVE  \E n \in Nat : ParentRoots(segs) = [k \in 1..n |-> ParentRoots(segs)[k]]
<1> DEFINE js == {j \in 1..Len(segs) : segs[j] \in Params /\ ParentStarts(segs, j) # {}}
<1>1. IsFiniteSet(js)
  <2>1. IsFiniteSet(1..Len(segs))
    BY FS_Interval
  <2> QED BY <2>1, FS_Subset
<1>2. Cardinality(js) \in Nat
  BY <1>1, FS_CardinalityType
<1> DEFINE n == Cardinality(js)
<1>3. DOMAIN ParentParams(segs) = 1..n
  BY DEF ParentParams, Ascending
<1>4. Len(ParentParams(segs)) = n
  <2> HIDE DEF n
  <2> QED BY <1>2, <1>3 DEF n
<1> QED BY <1>2, <1>4 DEF ParentRoots

LEMMA PathNamesAreSeqs ==
    ASSUME NEW segs, NEW preferred
    PROVE  IsSeq(BuildResourceNameFromPath(segs, preferred))
<1>1. IsSeq(VersionOf(segs))
  BY EmptyIsSeq, OneIsSeq DEF VersionOf
<1>2. ASSUME NEW text PROVE IsSeq(Parts(text))
  BY EmptyIsSeq, OneIsSeq, PartsAssumption DEF Parts, IsSeq
<1> QED BY <1>1, <1>2, ConcatIsSeq DEF BuildResourceNameFromPath

LEMMA NamesAreSeqs ==
    ASSUME NEW d \in Documents, NEW root, root.segs \in Seq(STRING), NEW region
    PROVE  IsSeq(ResourceName(d, root, region))
<1> DEFINE segs == root.segs
           piece(k) == BuildResourceNameFromPath(ParentRoots(segs)[k],
                                                 PreferredParent(d, segs, k))
<1>1. PICK n \in Nat : ParentRoots(segs) = [k \in 1..n |-> ParentRoots(segs)[k]]
  BY ParentsAreCounted
<1>2. Len(ParentRoots(segs)) = n
  BY <1>1, LenProperties
<1>3. IsSeq(ParentName(d, segs))
  <2> DEFINE seqs == [k \in 1..n |-> piece(k)]
  <2>1. \A k \in 1..n : IsSeq(seqs[k])
    BY PathNamesAreSeqs
  <2>2. seqs = [k \in 1..n |-> seqs[k]]
    OBVIOUS
  <2>3. ParentName(d, segs) = FlattenSeq(seqs)
    BY <1>2 DEF ParentName
  <2> HIDE DEF seqs
  <2> QED BY <2>1, <2>2, <2>3, FlattenIsSeq
<1>4. IsSeq(BuildResourceNameFromPath(segs, d.paths[root].preferred))
  BY PathNamesAreSeqs
<1>5. IsSeq(IF region = "" THEN <<>> ELSE Parts(region))
  BY EmptyIsSeq, OneIsSeq, PartsAssumption DEF Parts, IsSeq
<1> HIDE DEF segs
<1>6. IsSeq(ParentName(d, segs) \o BuildResourceNameFromPath(segs, d.paths[root].preferred))
  BY <1>3, <1>4, ConcatIsSeq
<1> QED BY <1>5, <1>6, ConcatIsSeq DEF ResourceName, segs

\* ... and so is the name of every resource that the analysis finds.
LEMMA ResourcesAreNamed ==
    ASSUME NEW d \in Documents, NEW r \in ResourcesIn(d)
    PROVE  IsSeq(r.name)
<1>1. PICK c \in Paths(d) \X Regions : r = Resource(d, c[1], c[2])
  BY DEF ResourcesIn
<1>2. c[1] \in [segs : Seq(STRING), slash : BOOLEAN]
  BY DocumentsAssumption
<1>3. Front(c[1].segs) \in Seq(STRING)
  <2>1. \A s \in Seq(STRING) : SubSeq(s, 1, Len(s) - 1) \in Seq(STRING)
    BY SubSeqProperties
  <2> QED BY <1>2, <2>1 DEF Front
<1>4. RootOf(d, c[1]).segs = Front(c[1].segs)
  BY DEF RootOf, At
<1>5. r.name = ResourceName(d, RootOf(d, c[1]), c[2])
  BY <1>1 DEF Resource
<1> QED BY <1>3, <1>4, <1>5, NamesAreSeqs
-----------------------------------------------------------------------------
(* A resource and its instances                                            *)

\* RegInv's account of the walk is needed for the names, no more.
FollowInv ==
    /\ Walked
    /\ \A n \in DOMAIN resourceMap : IsSeq(n)
    /\ InstancesFollowResources

LEMMA WalkedAlways == RegInv => Walked
BY DEF RegInv

LEMMA InitFollowInv == Init => FollowInv
<1> SUFFICES ASSUME Init PROVE FollowInv
  OBVIOUS
<1>1. Walked
  BY InitRegInv, WalkedAlways
<1>2. DOMAIN resourceMap = {} /\ DOMAIN instanceMap = {}
  BY DEF Init, NoMap
<1> QED BY <1>1, <1>2 DEF FollowInv, InstancesFollowResources

\* The loop's body, for a resource that has a name: both maps take it in or
\* lose it.
LEMMA RegisterFollows ==
    ASSUME FollowInv, NEW r, RegisterResource(r)
    PROVE  (\A n \in DOMAIN resourceMap' : IsSeq(n)) /\ InstancesFollowResources'
<1>1. r = found[next] /\ phase = "register" /\ phase' = "register"
  BY DEF RegisterResource, Registering
<1>2. IsSeq(r.name)
  <2>1. found[next] \in ResourcesIn(doc)
    BY DEF FollowInv, Walked, RegisterResource, Registering
  <2> QED BY <1>1, <2>1, ResourcesAreNamed DEF FollowInv, Walked
<1>3. /\ \A n \in DOMAIN resourceMap : IsSeq(n)
      /\ DOMAIN instanceMap = {InstanceName(n) : n \in DOMAIN resourceMap}
      /\ \A n \in DOMAIN resourceMap : instanceMap[InstanceName(n)] = resourceMap[n]
  BY DEF FollowInv, InstancesFollowResources
<1>4. \A n \in DOMAIN resourceMap : InstanceName(n) = InstanceName(r.name) => n = r.name
  BY <1>2, <1>3, InstanceNamesDiffer
<1>5. SUFFICES
         /\ \A n \in DOMAIN resourceMap' : IsSeq(n)
         /\ DOMAIN instanceMap' = {InstanceName(n) : n \in DOMAIN resourceMap'}
         /\ \A n \in DOMAIN resourceMap' : instanceMap'[InstanceName(n)] = resourceMap'[n]
  BY <1>1 DEF InstancesFollowResources
<1>6. CASE UNCHANGED <<resourceMap, instanceMap>>
  BY <1>3, <1>6
<1>7. CASE r.name \in DOMAIN resourceMap /\ TakeOut(r.name)
  <2>1. /\ DOMAIN resourceMap' = DOMAIN resourceMap \ {r.name}
        /\ DOMAIN instanceMap' = DOMAIN instanceMap \ {InstanceName(r.name)}
        /\ \A n \in DOMAIN resourceMap' : resourceMap'[n] = resourceMap[n]
        /\ \A n \in DOMAIN instanceMap' : instanceMap'[n] = instanceMap[n]
    BY <1>7 DEF TakeOut, Drop
  <2>2. DOMAIN instanceMap' = {InstanceName(n) : n \in DOMAIN resourceMap'}
    BY <1>3, <1>4, <2>1
  <2> QED BY <1>3, <2>1, <2>2
<1>8. CASE r.name \notin DOMAIN resourceMap /\ PutIn(r)
  <2>1. /\ DOMAIN resourceMap' = DOMAIN resourceMap \cup {r.name}
        /\ DOMAIN instanceMap' = DOMAIN instanceMap \cup {InstanceName(r.name)}
        /\ \A n \in DOMAIN resourceMap : resourceMap'[n] = resourceMap[n]
        /\ resourceMap'[r.name] = r /\ instanceMap'[InstanceName(r.name)] = r
        /\ \A n \in DOMAIN instanceMap :
              n # InstanceName(r.name) => instanceMap'[n] = instanceMap[n]
    BY <1>8 DEF PutIn, Put
  <2>2. \A n \in DOMAIN resourceMap :
            /\ InstanceName(n) \in DOMAIN instanceMap
            /\ InstanceName(n) # InstanceName(r.name)
    BY <1>3, <1>4, <1>8
  <2> QED BY <1>2, <1>3, <2>1, <2>2
<1> QED BY <1>6, <1>7, <1>8 DEF RegisterResource

LEMMA NextFollowInv == RegInv /\ FollowInv /\ [Next]_vars => FollowInv'
<1> SUFFICES ASSUME RegInv, FollowInv, [Next]_vars PROVE FollowInv'
  OBVIOUS
<1>1. Walked'
  BY NextRegInv DEF RegInv
<1>2. ASSUME UNCHANGED <<resourceMap, instanceMap>>,
             phase' = "ready" => phase = "ready" /\ UNCHANGED dataSourceMap
      PROVE  FollowInv'
  BY <1>1, <1>2 DEF FollowInv, InstancesFollowResources
<1>3. ASSUME NEW path \in todo,
             AnalysePath(path) \/ AnalyseDataSource(path) \/ DataSourceFails(path)
      PROVE  FollowInv'
  BY <1>2, <1>3 DEF AnalysePath, AnalyseDataSource, DataSourceFails, Fails
<1>4. ASSUME NEW r \in ToSet(found), RegisterResource(r)
      PROVE  FollowInv'
  BY <1>1, <1>4, RegisterFollows DEF FollowInv
<1>5. ASSUME NEW r \in ToSet(found), RegistrationFails(r)
      PROVE  FollowInv'
  BY <1>2, <1>5 DEF RegistrationFails, Fails
<1>6. CASE EndAnalysis \/ EndRegistration
  BY <1>2, <1>6 DEF EndAnalysis, EndRegistration
<1>7. CASE EndDataSources
  <2>1. \A n \in DOMAIN instanceMap : dataSourceMap'[n] = instanceMap[n]
    BY <1>7 DEF EndDataSources
  <2>2. UNCHANGED <<resourceMap, instanceMap>>
    BY <1>7 DEF EndDataSources
  <2>3. \A n \in DOMAIN resourceMap : InstanceName(n) \in DOMAIN instanceMap
    BY DEF FollowInv, InstancesFollowResources
  <2> QED BY <1>1, <2>1, <2>2, <2>3 DEF FollowInv, InstancesFollowResources
<1>8. CASE UNCHANGED vars
  BY <1>2, <1>8 DEF vars
<1> QED BY <1>3, <1>4, <1>5, <1>6, <1>7, <1>8 DEF Next

(***************************************************************************)
(* InstancesFollowResources: whatever the document, the data source of a   *)
(* resource's instances is there exactly when the resource is, and no data *)
(* source of a path takes its place (createProvider).                      *)
(***************************************************************************)
THEOREM InstancesFollow == Spec => []InstancesFollowResources
<1>1. FollowInv => InstancesFollowResources
  BY DEF FollowInv
<1> QED BY <1>1, InitRegInv, NextRegInv, InitFollowInv, NextFollowInv, PTL DEF Spec
-----------------------------------------------------------------------------
(* The order of the walks                                                  *)

\* The names that one path's resource or another's has.
CandidatesFrom(n, P) == {c \in Candidates : NameOf(c) = n /\ c[1] \in P}

\* The paths whose resources have been found.
Analysed == IF phase = "analyse" THEN Paths(doc) \ todo ELSE Paths(doc)

\* As many resources have been found under a name as the paths walked stand for.
CountInv ==
    Determinate =>
        \A n : Cardinality(Offers(n, Len(found))) = Cardinality(CandidatesFrom(n, Analysed))

\* A name is registered while an odd number of resources have offered it.
OddInv ==
    \A n : n \in DOMAIN resourceMap <=> Cardinality(Offers(n, next - 1)) % 2 = 1

\* The data sources that the paths walked stand for.
SourcesOf(P) ==
    {DataSourceName(p) : p \in {q \in P : DataSourceCompliant(doc, q)}}
SourcesInv ==
    /\ phase \in {"analyse", "register"} => DOMAIN dataSourceMap = {}
    /\ phase = "dataSources" => DOMAIN dataSourceMap = SourcesOf(Paths(doc) \ todo)
    /\ phase = "ready" =>
          DOMAIN dataSourceMap = SourcesOf(Paths(doc)) \cup DOMAIN instanceMap

WalkInv ==
    /\ FollowInv
    /\ CountInv /\ OddInv /\ SourcesInv

LEMMA OffersAreFinite ==
    ASSUME NEW n, NEW k \in Nat
    PROVE  IsFiniteSet(Offers(n, k)) /\ Cardinality(Offers(n, k)) \in Nat
<1>1. IsFiniteSet(1..k)
  BY FS_Interval
<1>2. IsFiniteSet(Offers(n, k))
  BY <1>1, FS_Subset DEF Offers
<1> QED BY <1>2, FS_CardinalityType

LEMMA CandidatesAreFinite ==
    ASSUME doc \in Documents, NEW n, NEW P
    PROVE  IsFiniteSet(CandidatesFrom(n, P))
<1>1. IsFiniteSet(Paths(doc)) /\ Len(doc.regions) + 1 \in Int
  BY DocumentsAssumption
<1>2. IsFiniteSet(Paths(doc) \X (1..(Len(doc.regions) + 1)))
  <2>1. IsFiniteSet(1..(Len(doc.regions) + 1))
    BY <1>1, FS_Interval
  <2> QED BY <1>1, <2>1, FS_Product
<1>3. CandidatesFrom(n, P) \subseteq Paths(doc) \X (1..(Len(doc.regions) + 1))
  BY DEF CandidatesFrom, Candidates, Walkable
<1> QED BY <1>2, <1>3, FS_Subset

LEMMA DisjointUnion ==
    ASSUME NEW S, NEW T, IsFiniteSet(S), IsFiniteSet(T), S \cap T = {}
    PROVE  Cardinality(S \cup T) = Cardinality(S) + Cardinality(T)
<1>1. Cardinality(S \cap T) = 0 /\ Cardinality(S) \in Nat /\ Cardinality(T) \in Nat
  BY FS_EmptySet, FS_CardinalityType
<1>2. Cardinality(S \cup T) = Cardinality(S) + Cardinality(T) - Cardinality(S \cap T)
  BY FS_Union
<1> QED BY <1>1, <1>2

LEMMA NotInIsFalse ==
    ASSUME NEW x, NEW S, x \notin S
    PROVE  (x \in S) = FALSE
OBVIOUS

\* A path has finitely many outcomes, and none is longer than the regions allow.
LEMMA OutcomesAreFinite ==
    ASSUME NEW d \in Documents, NEW p \in Paths(d)
    PROVE  IsFiniteSet(Outcomes(d, p))
<1>1. CASE ~(/\ IsInstancePath(p) /\ d.paths[p].get /\ HasRoot(d, p)
             /\ d.paths[RootOf(d, p)].schemas # {})
  BY <1>1, FS_Singleton DEF Outcomes
<1>2. CASE /\ IsInstancePath(p) /\ d.paths[p].get /\ HasRoot(d, p)
           /\ d.paths[RootOf(d, p)].schemas # {}
  <2> DEFINE S == d.paths[RootOf(d, p)].schemas
             E(schema) == IF SchemaComplies(d.paths[RootOf(d, p)], schema)
                          THEN ResourcesOf(d, p) ELSE <<>>
             f == [schema \in S |-> E(schema)]
             T == {E(schema) : schema \in S}
  <2>1. RootOf(d, p) \in Paths(d)
    <3>1. PICK slash \in BOOLEAN : At(Front(p.segs), slash) \in Paths(d)
      BY <1>2 DEF HasRoot, PathExists
    <3>2. CASE At(Front(p.segs), TRUE) \in Paths(d)
      <4>1. (At(Front(p.segs), TRUE) \in Paths(d)) = TRUE
        BY <3>2
      <4> QED BY <3>2, <4>1, Zenon DEF RootOf
    <3>3. CASE At(Front(p.segs), TRUE) \notin Paths(d)
      <4>1. (At(Front(p.segs), TRUE) \in Paths(d)) = FALSE
        BY <3>3, NotInIsFalse
      <4>2. slash = FALSE
        BY <3>1, <3>3
      <4> QED BY <3>1, <4>1, <4>2, Zenon DEF RootOf
    <3> QED BY <3>2, <3>3
  <2>2. S \subseteq {"identified", "readonly", "anonymous", "missing"}
    BY <2>1, DocumentsAssumption DEF Item, Paths
  <2>3. IsFiniteSet({"identified", "readonly", "anonymous", "missing"})
    <3>1. IsFiniteSet({"identified"} \cup {"readonly"} \cup {"anonymous"} \cup {"missing"})
      BY FS_Singleton, FS_Union
    <3>2. {"identified"} \cup {"readonly"} \cup {"anonymous"} \cup {"missing"}
             = {"identified", "readonly", "anonymous", "missing"}
      OBVIOUS
    <3> QED BY <3>1, <3>2
  <2>4. IsFiniteSet(S)
    BY <2>2, <2>3, FS_Subset
  <2>5. f \in Surjection(S, T)
    <3> HIDE DEF S, E
    <3> QED BY DEF Surjection
  <2>6. Outcomes(d, p) = T
    BY <1>2 DEF Outcomes
  <2> HIDE DEF S, E, f, T
  <2> QED BY <2>4, <2>5, <2>6, FS_Surjection
<1> QED BY <1>1, <1>2

LEMMA OutcomesAreShort ==
    ASSUME NEW d \in Documents, NEW p \in Paths(d), NEW s \in Outcomes(d, p)
    PROVE  Len(s) <= Len(d.regions) + 1
<1>1. d.regions \in Seq(STRING)
  BY DocumentsAssumption
<1>2. s = <<>> \/ s = <<Resource(d, p, "")>>
      \/ s = [i \in DOMAIN d.regions |-> Resource(d, p, d.regions[i])]
  BY DEF Outcomes, ResourcesOf
<1>3. CASE s = <<>> \/ s = <<Resource(d, p, "")>>
  <2>1. ASSUME NEW x PROVE Len(<<x>>) = 1
    OBVIOUS
  <2>2. Len(<<>>) = 0
    OBVIOUS
  <2>3. Len(s) = 0 \/ Len(s) = 1
    BY <1>3, <2>1, <2>2, Zenon
  <2>4. Len(d.regions) \in Nat
    BY <1>1
  <2>5. \A l, k : l \in Nat /\ (k = 0 \/ k = 1) => k <= l + 1
    OBVIOUS
  <2> QED BY <2>3, <2>4, <2>5, Zenon
<1>4. CASE s = [i \in DOMAIN d.regions |-> Resource(d, p, d.regions[i])]
  <2>1. DOMAIN s = 1..Len(d.regions) /\ Len(d.regions) \in Nat
    BY <1>1, <1>4
  <2>2. Len(s) = Len(d.regions)
    BY <2>1, LenProperties
  <2> QED BY <2>1, <2>2
<1> QED BY <1>2, <1>3, <1>4

\* In a document without a choice a path stands for the one outcome it has.
LEMMA TheOutcome ==
    ASSUME doc \in Documents, Determinate, NEW p \in Paths(doc),
           NEW s \in Outcomes(doc, p)
    PROVE  Outcomes(doc, p) = {s} /\ (CHOOSE resources \in Outcomes(doc, p) : TRUE) = s
<1>1. IsFiniteSet(Outcomes(doc, p)) /\ Cardinality(Outcomes(doc, p)) = 1
  BY OutcomesAreFinite DEF Determinate
<1>2. PICK x : Outcomes(doc, p) = {x}
  BY <1>1, FS_Singleton
<1> QED BY <1>2

\* The candidates of one path are what its outcome holds.
LEMMA CandidatesOfPath ==
    ASSUME doc \in Documents, Determinate, NEW path \in Paths(doc),
           NEW s \in Outcomes(doc, path), NEW n
    PROVE  CandidatesFrom(n, {path}) =
              {<<path, k>> : k \in {j \in 1..Len(s) : s[j].name = n /\ ~s[j].ignored}}
<1>1. Outcomes(doc, path) = {s} /\ (CHOOSE resources \in Outcomes(doc, path) : TRUE) = s
  BY TheOutcome
<1>2. s \in Seq(ResourcesIn(doc)) /\ Len(s) <= Len(doc.regions) + 1
      /\ Len(doc.regions) \in Nat
  BY OutcomesAreSequences, OutcomesAreShort, DocumentsAssumption
<1>3. DOMAIN s = 1..Len(s) /\ DOMAIN s \subseteq 1..(Len(doc.regions) + 1)
  BY <1>2
<1>4. ASSUME NEW k
      PROVE  /\ <<path, k>> \in Candidates <=> k \in DOMAIN s /\ ~s[k].ignored
             /\ NameOf(<<path, k>>) = s[k].name
  BY <1>1, <1>3 DEF Candidates, Walkable, NameOf, ResourceOf
<1>5. \A c \in Candidates : c[1] = path => c = <<path, c[2]>>
  BY DEF Candidates, Walkable
<1> QED BY <1>3, <1>4, <1>5 DEF CandidatesFrom

\* A path that is analysed adds to both counts as much.
LEMMA AnalyseCounts ==
    ASSUME WalkInv, Determinate, NEW path \in todo, AnalysePath(path), NEW n
    PROVE  Cardinality(Offers(n, Len(found))') = Cardinality(CandidatesFrom(n, Analysed)')
<1>1. PICK s \in Outcomes(doc, path) : found' = found \o s
  BY DEF AnalysePath
<1>2. doc' = doc /\ phase = "analyse" /\ phase' = "analyse" /\ todo' = todo \ {path}
  BY DEF AnalysePath, Visit
<1>3. doc \in Documents /\ path \in Paths(doc) /\ found \in Seq(ResourcesIn(doc))
      /\ todo \subseteq Paths(doc)
  BY DEF WalkInv, FollowInv, Walked
<1>4. s \in Seq(ResourcesIn(doc))
  BY <1>3, OutcomesAreSequences
<1> DEFINE L == Len(found)
           K == Len(s)
           Here == {j \in 1..K : s[j].name = n /\ ~s[j].ignored}
           New == {i \in (L + 1)..(L + K) : i - L \in Here}
           NewC == {<<path, k>> : k \in Here}
<1>5. L \in Nat /\ K \in Nat /\ Len(found') = L + K
      /\ (\A i \in 1..L : found'[i] = found[i])
      /\ (\A i \in (L + 1)..(L + K) : found'[i] = s[i - L])
  BY <1>1, <1>3, <1>4, ConcatProperties
<1>6. Offers(n, Len(found))' = Offers(n, L) \cup New /\ Offers(n, L) \cap New = {}
  BY <1>5 DEF Offers
<1>7. CandidatesFrom(n, {path}) = NewC
  BY <1>2, <1>3, CandidatesOfPath
<1>8. CandidatesFrom(n, Analysed)' = CandidatesFrom(n, Analysed) \cup NewC
      /\ CandidatesFrom(n, Analysed) \cap NewC = {}
  <2>1. Candidates' = Candidates /\ \A c : NameOf(c)' = NameOf(c)
    BY <1>2 DEF Candidates, Walkable, NameOf, ResourceOf
  <2>2. Analysed' = Analysed \cup {path} /\ path \notin Analysed
    BY <1>2, <1>3 DEF Analysed
  <2> HIDE DEF NewC
  <2> QED BY <1>7, <2>1, <2>2 DEF CandidatesFrom
<1>9. IsFiniteSet(New) /\ IsFiniteSet(NewC) /\ Cardinality(New) = Cardinality(NewC)
  <2> DEFINE g == [i \in New |-> <<path, i - L>>]
  <2>1. g \in Bijection(New, NewC)
    <3>1. g \in [New -> NewC]
      OBVIOUS
    <3>2. \A i, j \in New : g[i] = g[j] => i = j
      BY <1>5
    <3>3. ASSUME NEW c \in NewC PROVE \E i \in New : g[i] = c
      <4>1. PICK k \in Here : c = <<path, k>>
        OBVIOUS
      <4>2. k + L \in New /\ (k + L) - L = k
        BY <1>5
      <4> QED BY <4>1, <4>2
    <3> HIDE DEF g, New, NewC
    <3> QED BY <3>1, <3>2, <3>3 DEF Bijection, Injection, Surjection, IsInjective
  <2>2. ExistsBijection(New, NewC)
    BY <2>1 DEF ExistsBijection
  <2>3. IsFiniteSet(New)
    <3>1. IsFiniteSet((L + 1)..(L + K))
      BY <1>5, FS_Interval
    <3> QED BY <3>1, FS_Subset
  <2> HIDE DEF New, NewC
  <2> QED BY <2>2, <2>3, FS_Bijection
<1>10. IsFiniteSet(Offers(n, L)) /\ IsFiniteSet(CandidatesFrom(n, Analysed))
  BY <1>3, <1>5, OffersAreFinite, CandidatesAreFinite
<1>11. Cardinality(Offers(n, L)) = Cardinality(CandidatesFrom(n, Analysed))
  BY DEF WalkInv, CountInv
<1> HIDE DEF New, NewC, L
<1>12. Cardinality(Offers(n, L) \cup New) = Cardinality(Offers(n, L)) + Cardinality(New)
  BY <1>6, <1>9, <1>10, DisjointUnion
<1>13. Cardinality(CandidatesFrom(n, Analysed) \cup NewC)
          = Cardinality(CandidatesFrom(n, Analysed)) + Cardinality(NewC)
  BY <1>8, <1>9, <1>10, DisjointUnion
<1> QED BY <1>6, <1>8, <1>9, <1>11, <1>12, <1>13

\* One resource more makes an odd number even and an even one odd.
LEMMA RegisterFlips ==
    ASSUME Walked, OddInv, NEW r, RegisterResource(r)
    PROVE  OddInv'
<1>1. /\ r = found[next] /\ next <= Len(found) /\ next' = next + 1
      /\ found' = found /\ next' - 1 = next /\ next \in Nat /\ next >= 1 /\ next - 1 \in Nat
  BY DEF RegisterResource, Registering, Walked
<1>2. SUFFICES ASSUME NEW n
               PROVE  n \in DOMAIN resourceMap' <=> Cardinality(Offers(n, next)) % 2 = 1
  <2>1. \A n : Offers(n, next - 1)' = Offers(n, next)
    BY <1>1 DEF Offers
  <2> QED BY <1>2, <2>1 DEF OddInv
<1> DEFINE before == Cardinality(Offers(n, next - 1))
<1>3. before \in Nat /\ (n \in DOMAIN resourceMap <=> before % 2 = 1)
  BY <1>1, OffersAreFinite DEF OddInv
<1>4. Cardinality(Offers(n, next)) = IF r.name = n /\ ~r.ignored THEN before + 1 ELSE before
  <2>1. next \notin Offers(n, next - 1) /\ IsFiniteSet(Offers(n, next - 1))
    <3>1. IsFiniteSet(Offers(n, next - 1))
      BY <1>1, OffersAreFinite
    <3> QED BY <1>1, <3>1 DEF Offers
  <2>2. Offers(n, next) = IF r.name = n /\ ~r.ignored
                          THEN Offers(n, next - 1) \cup {next}
                          ELSE Offers(n, next - 1)
    BY <1>1, OneMoreOffer
  <2> QED BY <2>1, <2>2, FS_AddElement
<1>5. (before + 1) % 2 = 1 <=> ~(before % 2 = 1)
  BY <1>3
<1> HIDE DEF before
<1>6. CASE r.ignored
  BY <1>3, <1>4, <1>6 DEF RegisterResource
<1>7. CASE ~r.ignored /\ r.name \in DOMAIN resourceMap
  <2>1. DOMAIN resourceMap' = DOMAIN resourceMap \ {r.name}
    BY <1>7 DEF RegisterResource, TakeOut, Drop
  <2> QED BY <1>3, <1>4, <1>5, <1>7, <2>1
<1>8. CASE ~r.ignored /\ r.name \notin DOMAIN resourceMap
  <2>1. DOMAIN resourceMap' = DOMAIN resourceMap \cup {r.name}
    BY <1>8 DEF RegisterResource, PutIn, Put
  <2> QED BY <1>3, <1>4, <1>5, <1>8, <2>1
<1> QED BY <1>6, <1>7, <1>8

LEMMA InitWalkInv == Init => WalkInv
<1> SUFFICES ASSUME Init PROVE WalkInv
  OBVIOUS
<1>1. FollowInv
  BY InitFollowInv
<1>2. Len(found) = 0 /\ next - 1 = 0 /\ phase = "analyse" /\ todo = Paths(doc)
      /\ DOMAIN resourceMap = {} /\ DOMAIN dataSourceMap = {}
  BY DEF Init, NoMap
<1>3. ASSUME NEW n PROVE Offers(n, 0) = {} /\ CandidatesFrom(n, Analysed) = {}
  BY <1>2 DEF Offers, CandidatesFrom, Analysed
<1>4. Cardinality({}) = 0
  BY FS_EmptySet
<1>5. CountInv
  BY <1>2, <1>3 DEF CountInv
<1>6. OddInv
  <2>1. ASSUME NEW n PROVE Cardinality(Offers(n, next - 1)) = 0
    BY <1>2, <1>3, <1>4
  <2>2. ~(0 % 2 = 1)
    OBVIOUS
  <2> QED BY <1>2, <2>1, <2>2 DEF OddInv
<1>7. SourcesInv
  BY <1>2 DEF SourcesInv
<1> QED BY <1>1, <1>5, <1>6, <1>7 DEF WalkInv

\* What the steps of the other loops leave of the counts.
LEMMA CountsStay ==
    ASSUME WalkInv, UNCHANGED <<doc, found>>, Analysed' = Analysed
    PROVE  CountInv'
<1>1. \A n : Offers(n, Len(found))' = Offers(n, Len(found))
  BY DEF Offers
<1>2. Candidates' = Candidates /\ \A c : NameOf(c)' = NameOf(c)
  BY DEF Candidates, Walkable, NameOf, ResourceOf
<1>3. \A n : CandidatesFrom(n, Analysed)' = CandidatesFrom(n, Analysed)
  BY <1>2 DEF CandidatesFrom
<1>4. Determinate' => Determinate
  BY DEF Determinate
<1> QED BY <1>1, <1>3, <1>4 DEF WalkInv, CountInv

LEMMA OddStays ==
    ASSUME OddInv, Walked, \/ UNCHANGED <<found, next, resourceMap>>
                           \/ next' = next /\ next = 1 /\ resourceMap' = resourceMap
    PROVE  OddInv'
<1>1. \A n : Offers(n, next - 1)' = Offers(n, next - 1)
  BY DEF Offers
<1> QED BY <1>1 DEF OddInv

LEMMA NextWalkInv == RegInv /\ WalkInv /\ [Next]_vars => WalkInv'
<1> SUFFICES ASSUME RegInv, WalkInv, [Next]_vars PROVE WalkInv'
  OBVIOUS
<1>1. FollowInv' /\ Walked /\ CountInv /\ OddInv /\ SourcesInv
  BY NextFollowInv DEF WalkInv, FollowInv
<1>2. SUFFICES CountInv' /\ OddInv' /\ SourcesInv'
  BY <1>1 DEF WalkInv
<1>3. ASSUME NEW path \in todo, AnalysePath(path)
      PROVE  CountInv' /\ OddInv' /\ SourcesInv'
  <2>1. /\ UNCHANGED <<doc, phase, next, resourceMap, instanceMap, dataSourceMap>>
        /\ phase = "analyse" /\ next = 1
    BY <1>1, <1>3 DEF AnalysePath, Walked
  <2>2. Determinate' => Determinate
    BY <2>1 DEF Determinate
  <2>3. CountInv'
    BY <1>3, <2>2, AnalyseCounts DEF CountInv
  <2>4. OddInv'
    BY <1>1, <2>1, OddStays
  <2>5. SourcesInv'
    BY <1>1, <2>1 DEF SourcesInv
  <2> QED BY <2>3, <2>4, <2>5
<1>4. ASSUME NEW path \in todo, AnalyseDataSource(path)
      PROVE  CountInv' /\ OddInv' /\ SourcesInv'
  <2>1. /\ UNCHANGED <<doc, phase, found, next, resourceMap, instanceMap>>
        /\ phase = "dataSources" /\ todo' = todo \ {path} /\ todo \subseteq Paths(doc)
    BY <1>1, <1>4 DEF AnalyseDataSource, Visit, Walked
  <2>2. Analysed' = Analysed
    BY <2>1 DEF Analysed
  <2>3. DOMAIN dataSourceMap = SourcesOf(Paths(doc) \ todo)
    BY <1>1, <2>1 DEF SourcesInv
  <2>4. DOMAIN dataSourceMap' = IF DataSourceCompliant(doc, path)
                                THEN DOMAIN dataSourceMap \cup {DataSourceName(path)}
                                ELSE DOMAIN dataSourceMap
    BY <1>4 DEF AnalyseDataSource, Put
  <2>5. Paths(doc) \ todo' = (Paths(doc) \ todo) \cup {path}
    BY <2>1
  <2>6. SourcesOf(Paths(doc) \ todo') = IF DataSourceCompliant(doc, path)
                                        THEN SourcesOf(Paths(doc) \ todo) \cup {DataSourceName(path)}
                                        ELSE SourcesOf(Paths(doc) \ todo)
    BY <2>5 DEF SourcesOf
  <2>7. SourcesOf(Paths(doc) \ todo)' = SourcesOf(Paths(doc) \ todo')
    BY <2>1 DEF SourcesOf, DataSourceName
  <2>8. SourcesInv'
    BY <2>1, <2>3, <2>4, <2>6, <2>7 DEF SourcesInv
  <2> QED BY <1>1, <2>1, <2>2, <2>8, CountsStay, OddStays
<1>5. ASSUME NEW path \in todo, DataSourceFails(path)
      PROVE  CountInv' /\ OddInv' /\ SourcesInv'
  <2>1. /\ UNCHANGED <<doc, found, next, resourceMap>> /\ phase = "dataSources"
        /\ phase' = "failed"
    BY <1>5 DEF DataSourceFails, Fails
  <2> QED BY <1>1, <2>1, CountsStay, OddStays DEF Analysed, SourcesInv
<1>6. ASSUME NEW r \in ToSet(found), RegisterResource(r)
      PROVE  CountInv' /\ OddInv' /\ SourcesInv'
  <2>1. UNCHANGED <<doc, phase, todo, found, dataSourceMap>> /\ phase = "register"
    BY <1>6 DEF RegisterResource, Registering
  <2>2. Analysed' = Analysed
    BY <2>1 DEF Analysed
  <2>3. SourcesInv'
    BY <1>1, <2>1 DEF SourcesInv
  <2> QED BY <1>1, <1>6, <2>1, <2>2, <2>3, CountsStay, RegisterFlips
<1>7. ASSUME NEW r \in ToSet(found), RegistrationFails(r)
      PROVE  CountInv' /\ OddInv' /\ SourcesInv'
  <2>1. /\ UNCHANGED <<doc, found, next, resourceMap>> /\ phase = "register"
        /\ phase' = "failed"
    BY <1>7 DEF RegistrationFails, Registering, Fails
  <2> QED BY <1>1, <2>1, CountsStay, OddStays DEF Analysed, SourcesInv
<1>8. CASE EndAnalysis
  <2>1. /\ UNCHANGED <<doc, found, next, resourceMap, dataSourceMap>>
        /\ phase = "analyse" /\ phase' = "register" /\ todo = {}
    BY <1>8 DEF EndAnalysis
  <2> QED BY <1>1, <2>1, CountsStay, OddStays DEF Analysed, SourcesInv
<1>9. CASE EndRegistration
  <2>1. /\ UNCHANGED <<doc, found, next, resourceMap, dataSourceMap>>
        /\ phase = "register" /\ phase' = "dataSources" /\ todo' = Paths(doc)
    BY <1>9 DEF EndRegistration
  <2>2. SourcesInv'
    <3>1. SourcesOf(Paths(doc) \ todo)' = {}
      BY <2>1 DEF SourcesOf
    <3> QED BY <1>1, <2>1, <3>1 DEF SourcesInv
  <2> QED BY <1>1, <2>1, <2>2, CountsStay, OddStays DEF Analysed
<1>10. CASE EndDataSources
  <2>1. /\ UNCHANGED <<doc, todo, found, next, resourceMap, instanceMap>>
        /\ phase = "dataSources" /\ phase' = "ready" /\ todo = {}
        /\ DOMAIN dataSourceMap' = DOMAIN dataSourceMap \cup DOMAIN instanceMap
    BY <1>10 DEF EndDataSources
  <2>2. SourcesInv'
    <3>1. DOMAIN dataSourceMap = SourcesOf(Paths(doc))
      <4>1. Paths(doc) \ todo = Paths(doc)
        BY <2>1
      <4> QED BY <1>1, <2>1, <4>1 DEF SourcesInv
    <3>2. SourcesOf(Paths(doc))' = SourcesOf(Paths(doc))
      BY <2>1 DEF SourcesOf, DataSourceName
    <3> QED BY <2>1, <3>1, <3>2 DEF SourcesInv
  <2> QED BY <1>1, <2>1, <2>2, CountsStay, OddStays DEF Analysed
<1>11. CASE UNCHANGED vars
  <2>1. SourcesOf(Paths(doc))' = SourcesOf(Paths(doc))
        /\ SourcesOf(Paths(doc) \ todo)' = SourcesOf(Paths(doc) \ todo)
    BY <1>11 DEF vars, SourcesOf, DataSourceName
  <2> QED BY <1>1, <1>11, <2>1, CountsStay, OddStays DEF vars, Analysed, SourcesInv
<1> QED BY <1>3, <1>4, <1>5, <1>6, <1>7, <1>8, <1>9, <1>10, <1>11 DEF Next

LEMMA WalkInvHides ==
    ASSUME WalkInv
    PROVE  WalkOrderIsInvisible
<1> SUFFICES ASSUME phase = "ready", Determinate PROVE WalkOrderIsInvisible
  BY DEF WalkOrderIsInvisible
<1> DEFINE oddly == {n \in {NameOf(c) : c \in Candidates} :
                       Cardinality({c \in Candidates : NameOf(c) = n}) % 2 = 1}
<1>1. next - 1 = Len(found) /\ doc \in Documents
  BY DEF WalkInv, FollowInv, Walked
<1>2. ASSUME NEW n
      PROVE  CandidatesFrom(n, Analysed) = {c \in Candidates : NameOf(c) = n}
  BY DEF CandidatesFrom, Analysed, Candidates, Walkable
<1>3. ASSUME NEW n
      PROVE  n \in DOMAIN resourceMap <=>
                Cardinality({c \in Candidates : NameOf(c) = n}) % 2 = 1
  BY <1>1, <1>2 DEF WalkInv, CountInv, OddInv
<1>4. ASSUME NEW n, n \notin {NameOf(c) : c \in Candidates}
      PROVE  n \notin DOMAIN resourceMap
  <2>1. {c \in Candidates : NameOf(c) = n} = {}
    BY <1>4
  <2>2. Cardinality({c \in Candidates : NameOf(c) = n}) = 0
    BY <2>1, FS_EmptySet
  <2> QED BY <1>3, <2>2
<1>5. DOMAIN resourceMap = oddly
  BY <1>3, <1>4
<1>6. DOMAIN dataSourceMap = SourcesOf(Paths(doc)) \cup {InstanceName(n) : n \in oddly}
  <2> HIDE DEF oddly
  <2> QED BY <1>5 DEF WalkInv, FollowInv, SourcesInv, InstancesFollowResources
<1> QED BY <1>5, <1>6 DEF WalkOrderIsInvisible, SourcesOf

(***************************************************************************)
(* WalkOrderIsInvisible: the names a provider ends up with follow from the *)
(* document, whatever the order in which Go goes through its maps, and     *)
(* however many resources share a name.                                    *)
(***************************************************************************)
THEOREM WalksLeaveNoTrace == Spec => []WalkOrderIsInvisible
<1>1. WalkInv => WalkOrderIsInvisible
  BY WalkInvHides
<1> QED BY <1>1, InitRegInv, NextRegInv, InitWalkInv, NextWalkInv, PTL DEF Spec

-----------------------------------------------------------------------------
(* Whether the provider starts                                             *)

\* A resource at which the registration stops, if it is looked at.
Refused(r) == r.name = NoName \/ (~r.ignored /\ ~r.sound)

\* The resources found are those that the paths walked stand for, and those
\* registered have been looked at, unless their name had been met before.
FoundInv ==
    Determinate =>
        {found[i] : i \in DOMAIN found} =
           {ResourceOf(c) : c \in {w \in Walkable : w[1] \in Analysed}}
LookedAtInv ==
    \A i \in 1..(next - 1) :
        /\ found[i].name # NoName
        /\ Refused(found[i]) => Offers(found[i].name, i - 1) # {}
BlameInv ==
    /\ phase = "dataSources" => \A p \in Paths(doc) \ todo : ~SourceRefused(p)
    /\ phase = "ready" => \A p \in Paths(doc) : ~SourceRefused(p)
    /\ phase = "failed" => \/ \E p \in Paths(doc) : SourceRefused(p)
                           \/ \E i \in DOMAIN found : Refused(found[i])

StartInv == FoundInv /\ LookedAtInv /\ BlameInv

\* A path that is analysed adds the resources of its outcome.
LEMMA AnalyseFinds ==
    ASSUME WalkInv, FoundInv, Determinate, NEW path \in todo, AnalysePath(path)
    PROVE  FoundInv'
<1>1. PICK s \in Outcomes(doc, path) : found' = found \o s
  BY DEF AnalysePath
<1>2. doc' = doc /\ phase = "analyse" /\ phase' = "analyse" /\ todo' = todo \ {path}
  BY DEF AnalysePath, Visit
<1>3. doc \in Documents /\ path \in Paths(doc) /\ found \in Seq(ResourcesIn(doc))
      /\ todo \subseteq Paths(doc)
  BY DEF WalkInv, FollowInv, Walked
<1>4. /\ s \in Seq(ResourcesIn(doc)) /\ Len(s) <= Len(doc.regions) + 1
      /\ Len(doc.regions) \in Nat
  BY <1>3, OutcomesAreSequences, OutcomesAreShort, DocumentsAssumption
<1>5. Outcomes(doc, path) = {s} /\ (CHOOSE resources \in Outcomes(doc, path) : TRUE) = s
  BY <1>3, TheOutcome
<1> DEFINE L == Len(found)
           K == Len(s)
           Old == {ResourceOf(c) : c \in {w \in Walkable : w[1] \in Analysed}}
           New == {ResourceOf(c) : c \in {w \in Walkable : w[1] = path}}
<1>6. L \in Nat /\ K \in Nat /\ DOMAIN s = 1..K /\ DOMAIN found = 1..L
      /\ DOMAIN found' = 1..(L + K)
      /\ (\A i \in 1..L : found'[i] = found[i])
      /\ (\A i \in (L + 1)..(L + K) : found'[i] = s[i - L])
  <2>1. found' \in Seq(ResourcesIn(doc)) /\ Len(found') = L + K
    BY <1>1, <1>3, <1>4, ConcatProperties
  <2> QED BY <1>1, <1>3, <1>4, <2>1, ConcatProperties
<1>7. {found'[i] : i \in DOMAIN found'} =
         {found[i] : i \in DOMAIN found} \cup {s[k] : k \in DOMAIN s}
  <2>1. ASSUME NEW k \in DOMAIN s PROVE \E i \in DOMAIN found' : found'[i] = s[k]
    <3>1. k + L \in (L + 1)..(L + K) /\ k + L \in 1..(L + K) /\ (k + L) - L = k
      BY <1>6
    <3> HIDE DEF L, K
    <3> QED BY <1>6, <3>1
  <2>2. ASSUME NEW i \in DOMAIN found', i \notin DOMAIN found
        PROVE  \E k \in DOMAIN s : found'[i] = s[k]
    <3>1. i \in (L + 1)..(L + K) /\ i - L \in 1..K
      BY <1>6, <2>2
    <3> HIDE DEF L, K
    <3> QED BY <1>6, <3>1
  <2>3. \A i \in DOMAIN found : i \in DOMAIN found' /\ found'[i] = found[i]
    BY <1>6
  <2> QED BY <2>1, <2>2, <2>3
<1>8. New = {s[k] : k \in DOMAIN s}
  <2>1. \A w \in Walkable : w[1] = path =>
            w[2] \in DOMAIN s /\ ResourceOf(w) = s[w[2]]
    BY <1>5 DEF Walkable, ResourceOf
  <2>2. ASSUME NEW k \in DOMAIN s
        PROVE  <<path, k>> \in Walkable /\ ResourceOf(<<path, k>>) = s[k]
    <3>1. k \in 1..(Len(doc.regions) + 1)
      BY <1>4, <1>6
    <3> QED BY <1>3, <1>5, <3>1 DEF Walkable, ResourceOf
  <2>3. ASSUME NEW x \in New PROVE x \in {s[k] : k \in DOMAIN s}
    <3>1. PICK w \in Walkable : w[1] = path /\ x = ResourceOf(w)
      BY <2>3
    <3> QED BY <2>1, <3>1
  <2>4. ASSUME NEW k \in DOMAIN s PROVE s[k] \in New
    <3>1. /\ <<path, k>> \in {w \in Walkable : w[1] = path}
          /\ s[k] = ResourceOf(<<path, k>>)
      BY <2>2
    <3> QED BY <3>1
  <2> HIDE DEF New
  <2> QED BY <2>3, <2>4
<1>9. {ResourceOf(c) : c \in {w \in Walkable : w[1] \in Analysed}}' = Old \cup New
  <2>1. Walkable' = Walkable /\ \A c : ResourceOf(c)' = ResourceOf(c)
    BY <1>2 DEF Walkable, ResourceOf
  <2>2. Analysed' = Analysed \cup {path}
    BY <1>2, <1>3 DEF Analysed
  <2> QED BY <2>1, <2>2
<1>10. Old = {found[i] : i \in DOMAIN found}
  BY DEF FoundInv
<1> QED BY <1>7, <1>8, <1>9, <1>10 DEF FoundInv

\* A resource that has been registered or taken out was looked at, or its name
\* was taken, and then by one met before.
LEMMA RegisterLooks ==
    ASSUME Walked, OddInv, LookedAtInv, NEW r, RegisterResource(r)
    PROVE  LookedAtInv'
<1>1. /\ r = found[next] /\ next' = next + 1 /\ found' = found /\ next' - 1 = next
      /\ next \in Nat /\ next >= 1 /\ next - 1 \in Nat /\ r.name # NoName
  BY DEF RegisterResource, Registering, Walked
<1>2. Refused(r) => Offers(r.name, next - 1) # {}
  <2> SUFFICES ASSUME Refused(r), Offers(r.name, next - 1) = {} PROVE FALSE
    OBVIOUS
  <2>1. r.name \in DOMAIN resourceMap
    BY <1>1 DEF RegisterResource, Refused
  <2>2. Cardinality(Offers(r.name, next - 1)) = 0
    BY FS_EmptySet
  <2>3. ~(0 % 2 = 1)
    OBVIOUS
  <2> QED BY <2>1, <2>2, <2>3 DEF OddInv
<1>3. \A i : Offers(found[i].name, i - 1)' = Offers(found[i].name, i - 1)
  BY <1>1 DEF Offers
<1>4. ASSUME NEW i \in 1..next
      PROVE  found[i].name # NoName /\ (Refused(found[i]) => Offers(found[i].name, i - 1) # {})
  <2>1. CASE i = next
    BY <1>1, <1>2, <2>1
  <2>2. CASE i # next
    <3>1. i \in 1..(next - 1)
      BY <1>1, <2>2
    <3> QED BY <3>1 DEF LookedAtInv
  <2> QED BY <2>1, <2>2
<1> QED BY <1>1, <1>3, <1>4 DEF LookedAtInv, Refused

\* What the steps of the other loops leave of this.
LEMMA FoundStays ==
    ASSUME FoundInv, UNCHANGED <<doc, found>>, Analysed' = Analysed
    PROVE  FoundInv'
<1>1. Walkable' = Walkable /\ \A c : ResourceOf(c)' = ResourceOf(c)
  BY DEF Walkable, ResourceOf
<1>2. Determinate' => Determinate
  BY DEF Determinate
<1> QED BY <1>1, <1>2 DEF FoundInv

LEMMA LookedAtStays ==
    ASSUME LookedAtInv, Walked, UNCHANGED next, UNCHANGED found \/ next = 1
    PROVE  LookedAtInv'
<1>1. CASE next = 1
  BY <1>1 DEF LookedAtInv
<1>2. CASE UNCHANGED found
  <2>1. \A i : Offers(found[i].name, i - 1)' = Offers(found[i].name, i - 1)
    BY <1>2 DEF Offers
  <2> QED BY <1>2, <2>1 DEF LookedAtInv, Refused
<1> QED BY <1>1, <1>2

LEMMA SourcesStay ==
    ASSUME UNCHANGED doc
    PROVE  \A p : SourceRefused(p)' <=> SourceRefused(p)
BY DEF SourceRefused, DataSourceName

LEMMA InitStartInv == Init => StartInv
<1> SUFFICES ASSUME Init PROVE StartInv
  OBVIOUS
<1>1. found = <<>> /\ next = 1 /\ phase = "analyse" /\ Analysed = {}
  BY DEF Init, Analysed
<1>2. FoundInv
  BY <1>1 DEF FoundInv
<1> QED BY <1>1, <1>2 DEF StartInv, LookedAtInv, BlameInv

LEMMA NextStartInv == WalkInv /\ StartInv /\ [Next]_vars => StartInv'
<1> SUFFICES ASSUME WalkInv, StartInv, [Next]_vars PROVE StartInv'
  OBVIOUS
<1>a. Walked /\ OddInv /\ FoundInv /\ LookedAtInv /\ BlameInv
  BY DEF WalkInv, FollowInv, StartInv
<1>b. todo \subseteq Paths(doc)
  BY <1>a DEF Walked
<1>1. ASSUME NEW path \in todo, AnalysePath(path)
      PROVE  StartInv'
  <2>1. /\ UNCHANGED <<doc, phase, next>> /\ phase = "analyse" /\ next = 1
    BY <1>a, <1>1 DEF AnalysePath, Walked
  <2>2. Determinate' => Determinate
    BY <2>1 DEF Determinate
  <2>3. FoundInv'
    BY <1>1, <1>a, <2>2, AnalyseFinds DEF FoundInv
  <2>4. LookedAtInv'
    BY <1>a, <2>1, LookedAtStays
  <2> QED BY <2>1, <2>3, <2>4 DEF StartInv, BlameInv
<1>2. ASSUME NEW path \in todo, AnalyseDataSource(path)
      PROVE  StartInv'
  <2>1. /\ UNCHANGED <<doc, phase, found, next>> /\ phase = "dataSources"
        /\ todo' = todo \ {path} /\ ~SourceRefused(path)
    BY <1>2 DEF AnalyseDataSource, Visit, SourceRefused
  <2>2. Analysed' = Analysed
    BY <2>1 DEF Analysed
  <2>3. \A p \in Paths(doc) \ todo' : ~SourceRefused(p)
    BY <1>a, <2>1 DEF BlameInv
  <2>4. BlameInv'
    BY <2>1, <2>3, SourcesStay DEF BlameInv
  <2> QED BY <1>a, <2>1, <2>2, <2>4, FoundStays, LookedAtStays DEF StartInv
<1>3. ASSUME NEW path \in todo, DataSourceFails(path)
      PROVE  StartInv'
  <2>1. /\ UNCHANGED <<doc, found, next>> /\ phase = "dataSources" /\ phase' = "failed"
        /\ SourceRefused(path)
    BY <1>3 DEF DataSourceFails, Fails, SourceRefused
  <2>2. Analysed' = Analysed
    BY <2>1 DEF Analysed
  <2>3. BlameInv'
    BY <1>b, <2>1, SourcesStay DEF BlameInv
  <2> QED BY <1>a, <2>1, <2>2, <2>3, FoundStays, LookedAtStays DEF StartInv
<1>4. ASSUME NEW r \in ToSet(found), RegisterResource(r)
      PROVE  StartInv'
  <2>1. UNCHANGED <<doc, phase, todo, found>> /\ phase = "register"
    BY <1>4 DEF RegisterResource, Registering
  <2>2. Analysed' = Analysed
    BY <2>1 DEF Analysed
  <2>3. BlameInv'
    BY <2>1 DEF BlameInv
  <2>4. LookedAtInv'
    BY <1>4, <1>a, RegisterLooks
  <2> QED BY <1>a, <2>1, <2>2, <2>3, <2>4, FoundStays DEF StartInv
<1>5. ASSUME NEW r \in ToSet(found), RegistrationFails(r)
      PROVE  StartInv'
  <2>1. /\ UNCHANGED <<doc, found, next>> /\ phase = "register" /\ phase' = "failed"
        /\ Refused(found[next])
    BY <1>5 DEF RegistrationFails, Registering, Fails, Refused
  <2>2. Analysed' = Analysed
    BY <2>1 DEF Analysed
  <2>3. next \in DOMAIN found
    BY <1>5, <1>a DEF RegistrationFails, Registering, Walked
  <2>4. BlameInv'
    BY <2>1, <2>3 DEF BlameInv, Refused
  <2> QED BY <1>a, <2>1, <2>2, <2>4, FoundStays, LookedAtStays DEF StartInv
<1>6. CASE EndAnalysis
  <2>1. /\ UNCHANGED <<doc, found, next>> /\ phase = "analyse" /\ phase' = "register"
        /\ todo = {}
    BY <1>6 DEF EndAnalysis
  <2> QED BY <1>a, <2>1, FoundStays, LookedAtStays DEF StartInv, Analysed, BlameInv
<1>7. CASE EndRegistration
  <2>1. /\ UNCHANGED <<doc, found, next>> /\ phase = "register"
        /\ phase' = "dataSources" /\ todo' = Paths(doc)
    BY <1>7 DEF EndRegistration
  <2> QED BY <1>a, <2>1, FoundStays, LookedAtStays DEF StartInv, Analysed, BlameInv
<1>8. CASE EndDataSources
  <2>1. /\ UNCHANGED <<doc, todo, found, next>> /\ phase = "dataSources"
        /\ phase' = "ready" /\ todo = {}
    BY <1>8 DEF EndDataSources
  <2>2. \A p \in Paths(doc) : ~SourceRefused(p)
    BY <1>a, <2>1 DEF BlameInv
  <2>3. BlameInv'
    BY <2>1, <2>2, SourcesStay DEF BlameInv
  <2> QED BY <1>a, <2>1, <2>3, FoundStays, LookedAtStays DEF StartInv, Analysed
<1>9. CASE UNCHANGED vars
  <2>1. UNCHANGED <<doc, phase, todo, found, next>>
    BY <1>9 DEF vars
  <2>2. BlameInv'
    BY <1>a, <2>1, SourcesStay DEF BlameInv, Refused
  <2> QED BY <1>a, <2>1, <2>2, FoundStays, LookedAtStays DEF StartInv, Analysed
<1> QED BY <1>1, <1>2, <1>3, <1>4, <1>5, <1>6, <1>7, <1>8, <1>9 DEF Next

\* Of two resources found under one name, neither is the only candidate for it.
LEMMA TakenByAnother ==
    ASSUME WalkInv, Determinate, phase = "ready", NEW c \in Candidates,
           NEW i \in DOMAIN found, found[i] = ResourceOf(c),
           Offers(found[i].name, i - 1) # {}
    PROVE  \E other \in Candidates \ {c} : NameOf(other) = NameOf(c)
<1> DEFINE n == NameOf(c)
           S == Offers(n, Len(found))
           C == CandidatesFrom(n, Analysed)
<1>1. Len(found) \in Nat /\ DOMAIN found = 1..Len(found) /\ doc \in Documents
  BY DEF WalkInv, FollowInv, Walked
<1>2. found[i].name = n /\ ~found[i].ignored
  BY DEF Candidates, NameOf
<1>3. PICK j \in Offers(n, i - 1) : TRUE
  BY <1>2
<1>4. i \in S /\ j \in S /\ i # j
  BY <1>1, <1>2, <1>3 DEF Offers
<1>5. IsFiniteSet(S) /\ IsFiniteSet(C) /\ Cardinality(S) = Cardinality(C)
  BY <1>1, OffersAreFinite, CandidatesAreFinite DEF WalkInv, CountInv
<1>6. SUFFICES ASSUME C \subseteq {c} PROVE FALSE
  <2>1. ASSUME NEW d \in C, d # c PROVE d \in Candidates \ {c} /\ NameOf(d) = n
    BY <2>1 DEF CandidatesFrom
  <2> HIDE DEF C
  <2> QED BY <2>1
<1> HIDE DEF S, C, n
<1>7. Cardinality(C) <= 1
  <2>1. IsFiniteSet({c}) /\ Cardinality({c}) = 1
    BY FS_Singleton
  <2> QED BY <1>6, <2>1, FS_Subset
<1>8. Cardinality(S) >= 2
  <2>1. IsFiniteSet({i}) /\ Cardinality({i}) = 1
    BY FS_Singleton
  <2>2. IsFiniteSet({i} \cup {j}) /\ Cardinality({i} \cup {j}) = 2
    <3>1. j \notin {i}
      BY <1>4
    <3>2. IsFiniteSet({i} \cup {j}) /\ Cardinality({i} \cup {j}) = Cardinality({i}) + 1
      BY <2>1, <3>1, FS_AddElement
    <3> QED BY <2>1, <3>2
  <2>3. {i} \cup {j} \subseteq S
    BY <1>4
  <2> QED BY <1>5, <2>2, <2>3, FS_Subset
<1>9. Cardinality(S) \in Nat /\ Cardinality(C) \in Nat
  BY <1>5, FS_CardinalityType
<1> QED BY <1>5, <1>7, <1>8, <1>9

LEMMA StartInvStarts ==
    ASSUME WalkInv, StartInv
    PROVE  StartsUnlessRefused
<1> SUFFICES ASSUME Determinate PROVE StartsUnlessRefused
  BY DEF StartsUnlessRefused
<1>1. /\ next \in 1..(Len(found) + 1) /\ Len(found) \in Nat /\ DOMAIN found = 1..Len(found)
      /\ phase = "ready" => next - 1 = Len(found)
  BY DEF WalkInv, FollowInv, Walked
<1>2. ASSUME phase # "analyse"
      PROVE  {found[i] : i \in DOMAIN found} = {ResourceOf(c) : c \in Walkable}
  <2>1. Analysed = Paths(doc)
    BY <1>2 DEF Analysed
  <2>2. {w \in Walkable : w[1] \in Analysed} = Walkable
    BY <2>1 DEF Walkable
  <2> QED BY <2>2 DEF StartInv, FoundInv
<1>3. ASSUME phase = "failed"
      PROVE  \/ \E p \in Paths(doc) : SourceRefused(p)
             \/ \E c \in Walkable : NameOf(c) = NoName
             \/ \E c \in Candidates : ~ResourceOf(c).sound
  <2> SUFFICES ASSUME NEW i \in DOMAIN found, Refused(found[i])
               PROVE  \/ \E c \in Walkable : NameOf(c) = NoName
                      \/ \E c \in Candidates : ~ResourceOf(c).sound
    BY <1>3 DEF StartInv, BlameInv
  <2>1. PICK c \in Walkable : found[i] = ResourceOf(c)
    BY <1>2, <1>3
  <2> QED BY <2>1 DEF Refused, Candidates, NameOf
<1>4. ASSUME phase = "ready", NEW c \in Walkable
      PROVE  /\ NameOf(c) # NoName
             /\ c \in Candidates =>
                   \/ ResourceOf(c).sound
                   \/ \E other \in Candidates \ {c} : NameOf(other) = NameOf(c)
  <2>1. PICK i \in DOMAIN found : found[i] = ResourceOf(c)
    BY <1>2, <1>4
  <2>2. i \in 1..(next - 1)
    BY <1>1, <1>4
  <2>3. found[i].name # NoName /\ (Refused(found[i]) => Offers(found[i].name, i - 1) # {})
    BY <2>2 DEF StartInv, LookedAtInv
  <2>4. ASSUME c \in Candidates, ~ResourceOf(c).sound
        PROVE  \E other \in Candidates \ {c} : NameOf(other) = NameOf(c)
    <3>1. Refused(found[i])
      BY <2>1, <2>4 DEF Refused, Candidates
    <3> QED BY <1>4, <2>1, <2>3, <2>4, <3>1, TakenByAnother
  <2> QED BY <2>1, <2>3, <2>4 DEF NameOf
<1>5. phase = "ready" => \A p \in Paths(doc) : ~SourceRefused(p)
  BY DEF StartInv, BlameInv
<1>6. Candidates \subseteq Walkable
  BY DEF Candidates
<1> QED BY <1>3, <1>4, <1>5, <1>6 DEF StartsUnlessRefused

(***************************************************************************)
(* StartsUnlessRefused: whatever the document and the order of the walks,  *)
(* the provider stops only at something without a name or with a schema    *)
(* that cannot be built, and lets such a thing pass only when its name is  *)
(* that of another resource                                                *)
(* (createTerraformProviderResourceMapAndDataSourceInstanceMap).           *)
(***************************************************************************)
THEOREM NothingIsPassedOver == Spec => []StartsUnlessRefused
<1>1. WalkInv /\ StartInv => StartsUnlessRefused
  BY StartInvStarts
<1> QED BY <1>1, InitRegInv, NextRegInv, InitWalkInv, NextWalkInv,
           InitStartInv, NextStartInv, PTL DEF Spec

-----------------------------------------------------------------------------
(* Parents                                                                 *)

\* What the analysis lets a resource be: it has a path of the document, which names
\* it, and unless it is of a region its parents comply.
Lawful(d, r) ==
    /\ r.root \in Paths(d)
    /\ Nameable(r.root)
    /\ r.region = "" => ParentsComply(d, r.root)

LEMMA OutcomesAreLawful ==
    ASSUME NEW d \in Documents, NEW p \in Paths(d), NEW s \in Outcomes(d, p)
    PROVE  \A i \in DOMAIN s : Lawful(d, s[i])
<1>1. CASE s = <<>>
  BY <1>1
<1>2. CASE s # <<>>
  <2>1. HasRoot(d, p) /\ s = ResourcesOf(d, p)
    BY <1>2 DEF Outcomes
  <2>2. RootOf(d, p) \in Paths(d)
    <3>1. PICK slash \in BOOLEAN : At(Front(p.segs), slash) \in Paths(d)
      BY <2>1 DEF HasRoot, PathExists
    <3>2. CASE At(Front(p.segs), TRUE) \in Paths(d)
      <4>1. RootOf(d, p) = At(Front(p.segs), TRUE)
        BY <3>2 DEF RootOf
      <4> QED BY <3>2, <4>1
    <3>3. CASE At(Front(p.segs), TRUE) \notin Paths(d)
      <4>1. RootOf(d, p) = At(Front(p.segs), FALSE)
        BY <3>3, NotInIsFalse DEF RootOf
      <4>2. slash = FALSE
        BY <3>1, <3>3
      <4> QED BY <3>1, <4>1, <4>2
    <3> QED BY <3>2, <3>3
  <2>3. Nameable(RootOf(d, p))
    BY <1>2, <2>1 DEF ResourcesOf
  <2>4. \A region : Resource(d, p, region).root = RootOf(d, p)
                    /\ Resource(d, p, region).region = region
    BY DEF Resource
  <2>5. CASE d.paths[RootOf(d, p)].regional
    <3>1. /\ "" \notin ToSet(d.regions)
          /\ s = [i \in DOMAIN d.regions |-> Resource(d, p, d.regions[i])]
      BY <1>2, <2>1, <2>3, <2>5 DEF ResourcesOf
    <3>2. \A i \in DOMAIN s : s[i] = Resource(d, p, d.regions[i]) /\ d.regions[i] # ""
      BY <3>1 DEF ToSet
    <3> QED BY <2>2, <2>3, <2>4, <3>2 DEF Lawful
  <2>6. CASE ~d.paths[RootOf(d, p)].regional
    <3>1. ParentsComply(d, RootOf(d, p)) /\ s = <<Resource(d, p, "")>>
      BY <1>2, <2>1, <2>3, <2>6 DEF ResourcesOf
    <3> DEFINE r == Resource(d, p, "")
    <3>2. Lawful(d, r)
      BY <2>2, <2>3, <2>4, <3>1 DEF Lawful
    <3> HIDE DEF r
    <3>3. \A i \in DOMAIN <<r>> : <<r>>[i] = r
      OBVIOUS
    <3>4. s = <<r>>
      BY <3>1 DEF r
    <3> QED BY <3>2, <3>3, <3>4
  <2> QED BY <2>5, <2>6
<1> QED BY <1>1, <1>2

(***************************************************************************)
(* Only such resources are found, and so only such are registered.         *)
(***************************************************************************)
LawfulInv ==
    /\ Walked
    /\ \A i \in DOMAIN found : Lawful(doc, found[i])
    /\ \A n \in DOMAIN resourceMap : Lawful(doc, resourceMap[n])

LEMMA InitLawfulInv == Init => LawfulInv
<1> SUFFICES ASSUME Init PROVE LawfulInv
  OBVIOUS
<1>1. Walked
  BY InitRegInv, WalkedAlways
<1>2. found = <<>> /\ DOMAIN resourceMap = {}
  BY DEF Init, NoMap
<1> QED BY <1>1, <1>2 DEF LawfulInv

LEMMA NextLawfulInv == RegInv /\ LawfulInv /\ [Next]_vars => LawfulInv'
<1> SUFFICES ASSUME RegInv, LawfulInv, [Next]_vars PROVE LawfulInv'
  OBVIOUS
<1>1. Walked'
  BY NextRegInv, WalkedAlways DEF RegInv
<1>2. doc' = doc
  BY DEF Next, AnalysePath, RegisterResource, RegistrationFails, EndAnalysis,
         EndRegistration, AnalyseDataSource, DataSourceFails, EndDataSources, Fails, vars
<1>3. ASSUME NEW path \in todo, AnalysePath(path) PROVE LawfulInv'
  <2>1. PICK s \in Outcomes(doc, path) : found' = found \o s
    BY <1>3 DEF AnalysePath
  <2>2. resourceMap' = resourceMap
    BY <1>3 DEF AnalysePath
  <2>3. doc \in Documents /\ path \in Paths(doc) /\ found \in Seq(ResourcesIn(doc))
    BY DEF LawfulInv, Walked
  <2>4. s \in Seq(ResourcesIn(doc)) /\ \A i \in DOMAIN s : Lawful(doc, s[i])
    BY <2>3, OutcomesAreSequences, OutcomesAreLawful
  <2>5. /\ found' \in Seq(ResourcesIn(doc))
        /\ Len(found') = Len(found) + Len(s)
        /\ \A i \in 1 .. Len(found) + Len(s) : found'[i] =
              IF i <= Len(found) THEN found[i] ELSE s[i - Len(found)]
    BY <2>1, <2>3, <2>4, ConcatProperties
  <2>6. /\ DOMAIN found' = 1..(Len(found) + Len(s)) /\ Len(found) \in Nat /\ Len(s) \in Nat
        /\ DOMAIN found = 1..Len(found) /\ DOMAIN s = 1..Len(s)
    BY <2>3, <2>4, <2>5
  <2>7. \A i \in DOMAIN found' : Lawful(doc, found'[i])
    <3> TAKE i \in DOMAIN found'
    <3>1. CASE i <= Len(found)
      <4>1. i \in DOMAIN found /\ found'[i] = found[i]
        BY <2>5, <2>6, <3>1
      <4> QED BY <4>1 DEF LawfulInv
    <3>2. CASE ~(i <= Len(found))
      <4>1. i - Len(found) \in DOMAIN s /\ found'[i] = s[i - Len(found)]
        BY <2>5, <2>6, <3>2
      <4> QED BY <2>4, <4>1
    <3> QED BY <3>1, <3>2
  <2> QED BY <1>1, <1>2, <2>2, <2>7 DEF LawfulInv
<1>4. ASSUME NEW r, RegisterResource(r) PROVE LawfulInv'
  <2>1. /\ found' = found /\ r = found[next] /\ next \in DOMAIN found
    BY <1>4 DEF RegisterResource, Registering, LawfulInv, Walked
  <2>2. Lawful(doc, r)
    BY <2>1 DEF LawfulInv
  <2>3. \A n \in DOMAIN resourceMap' : Lawful(doc, resourceMap'[n])
    BY <1>4, <2>2 DEF LawfulInv, RegisterResource, PutIn, TakeOut, Put, Drop
  <2> QED BY <1>1, <1>2, <2>1, <2>3 DEF LawfulInv
<1>5. CASE UNCHANGED <<found, resourceMap>>
  BY <1>1, <1>2, <1>5 DEF LawfulInv
<1>6. \/ UNCHANGED <<found, resourceMap>>
      \/ \E path \in todo : AnalysePath(path)
      \/ \E r \in ToSet(found) : RegisterResource(r)
  BY DEF Next, AnalyseDataSource, DataSourceFails, RegistrationFails, Fails,
         EndAnalysis, EndRegistration, EndDataSources, vars
<1> QED BY <1>3, <1>4, <1>5, <1>6

\* Sequences that are not empty make one that is not.
Filled(s) == IsSeq(s) /\ s # <<>>

LEMMA ConcatIsFilled ==
    ASSUME NEW s, NEW t, Filled(s), Filled(t)
    PROVE  Filled(s \o t)
<1>1. PICK S : s \in Seq(S) /\ t \in Seq(S)
  BY CommonSeq DEF Filled
<1>2. s \o t \in Seq(S) /\ s \o t # <<>>
  BY <1>1 DEF Filled
<1> QED BY <1>2 DEF Filled, IsSeq

LEMMA FlattenIsFilled ==
    ASSUME NEW seqs, NEW n \in Nat, n # 0, seqs = [i \in 1..n |-> seqs[i]],
           \A i \in 1..n : Filled(seqs[i])
    PROVE  Filled(FlattenSeq(seqs))
<1>1. Len(seqs) = n
  BY LenProperties
<1> DEFINE Flat(f) ==
               f = [i \in 1..n |-> IF i = 1 THEN seqs[i] ELSE f[i-1] \o seqs[i]]
           f == CHOOSE f : Flat(f)
           T == {i \in 1..n : ~Filled(f[i])}
<1>2. FlattenSeq(seqs) = f[n]
  BY <1>1 DEF FlattenSeq
<1>3. Flat(f)
  BY FlattenExists
<1>4. \A i \in 1..n : f[i] = IF i = 1 THEN seqs[i] ELSE f[i-1] \o seqs[i]
  <2> HIDE DEF f
  <2> QED BY <1>3
<1> HIDE DEF f
<1>5. T = {}
  <2>1. SUFFICES ASSUME T # {} PROVE FALSE
    OBVIOUS
  <2>2. T \in SUBSET Nat
    OBVIOUS
  <2>3. PICK k \in T : \A j \in T : k <= j
    <3> HIDE DEF T
    <3> QED BY <2>1, <2>2, LeastIsThere
  <2>4. k \in 1..n /\ ~Filled(f[k])
    BY <2>3
  <2>5. CASE k = 1
    BY <1>4, <2>4, <2>5
  <2>6. CASE k # 1
    <3>1. k - 1 \in 1..n /\ k - 1 \notin T
      <4>1. k - 1 \in 1..n /\ ~ (k <= k - 1)
        BY <2>4, <2>6
      <4> HIDE DEF T
      <4> QED BY <2>3, <4>1
    <3>2. Filled(f[k-1]) /\ Filled(seqs[k])
      BY <2>4, <3>1
    <3>3. f[k] = f[k-1] \o seqs[k]
      BY <1>4, <2>4, <2>6
    <3> QED BY <2>4, <3>2, <3>3, ConcatIsFilled
  <2> QED BY <2>5, <2>6
<1>6. n \in 1..n
  OBVIOUS
<1> QED BY <1>2, <1>5, <1>6

LEMMA FrontAndLast ==
    ASSUME NEW S, NEW s \in Seq(S), s # <<>>
    PROVE  Append(Front(s), Last(s)) = s
<1>1. Len(s) \in Nat /\ Len(s) > 0 /\ DOMAIN s = 1..Len(s)
  <2>1. Len(s) # 0
    BY EmptySeq
  <2> QED BY <2>1
<1>2. /\ Front(s) \in Seq(S) /\ Len(Front(s)) = Len(s) - 1
      /\ \A i \in 1..(Len(s) - 1) : Front(s)[i] = s[i]
  BY <1>1, SubSeqProperties DEF Front
<1>3. Last(s) = s[Len(s)] /\ s[Len(s)] \in S
  BY <1>1 DEF Last
<1>4. /\ Append(Front(s), Last(s)) \in Seq(S)
      /\ Len(Append(Front(s), Last(s))) = Len(s)
      /\ \A i \in 1..Len(s) : Append(Front(s), Last(s))[i] = s[i]
  <2> DEFINE f == Front(s)
             l == Last(s)
  <2>0. f \in Seq(S) /\ l \in S /\ Len(f) = Len(s) - 1
    BY <1>2, <1>3
  <2> HIDE DEF f, l
  <2>1. /\ Append(f, l) \in Seq(S) /\ Len(Append(f, l)) = Len(f) + 1
        /\ \A i \in 1..Len(f) : Append(f, l)[i] = f[i]
        /\ Append(f, l)[Len(f) + 1] = l
    BY <2>0, AppendProperties
  <2>2. \A i \in 1..Len(s) : Append(f, l)[i] = s[i]
    <3> TAKE i \in 1..Len(s)
    <3>1. CASE i = Len(s)
      BY <1>1, <1>3, <2>0, <2>1, <3>1 DEF l
    <3>2. CASE i # Len(s)
      <4>0. \A n \in Nat : \A j \in 1..n : j # n => j \in 1..(n - 1)
        OBVIOUS
      <4>1. i \in 1..(Len(s) - 1)
        BY ONLY <1>1, <3>2, <4>0, i \in 1..Len(s)
      <4> QED BY <1>2, <2>0, <2>1, <4>1 DEF f
    <3> QED BY <3>1, <3>2
  <2>3. Len(Append(f, l)) = Len(s)
    BY <1>1, <2>0, <2>1
  <2> QED BY <2>1, <2>2, <2>3 DEF f, l
<1> DEFINE whole == Append(Front(s), Last(s))
<1> HIDE DEF whole
<1>5. whole \in Seq(S) /\ Len(whole) = Len(s) /\ \A i \in 1..Len(s) : whole[i] = s[i]
  BY <1>4 DEF whole
<1>6. whole = s
  BY <1>5, SeqEqual
<1> QED BY <1>6 DEF whole

\* An instance of a parent has a path to take the last segment from.
LEMMA InstancesAreFilled ==
    ASSUME NEW segs \in Seq(STRING), NEW k \in DOMAIN ParentRoots(segs)
    PROVE  Filled(ParentInstances(segs)[k])
<1> DEFINE S == {j \in 1..Len(segs) : segs[j] \in Params /\ ParentStarts(segs, j) # {}}
           js == ParentParams(segs)
           n == Cardinality(S)
<1>1. n \in Nat /\ js \in [1..n -> S]
  <2>1. IsFiniteSet(1..Len(segs)) /\ S \in SUBSET (1..Len(segs))
    BY FS_Interval
  <2>2. IsFiniteSet(S) /\ S \in SUBSET Nat
    BY <2>1, FS_Subset
  <2> HIDE DEF S
  <2>3. Cardinality(S) \in Nat /\ Ascending(S) \in [1..Cardinality(S) -> S]
    BY <2>2, Ascends
  <2> QED BY <2>3 DEF ParentParams, S
<1> HIDE DEF n
<1>2. Len(js) = n
  <2> HIDE DEF js, S
  <2> QED BY <1>1
<1>3. k \in 1..n
  BY <1>2 DEF ParentRoots
<1>4. \A j \in S : Filled(ParentPiece(segs, j))
  <2> SUFFICES ASSUME NEW j \in S PROVE Filled(ParentPiece(segs, j))
    OBVIOUS
  <2>1. j \in 1..Len(segs) /\ ParentStarts(segs, j) # {}
    OBVIOUS
  <2>2. ParentStarts(segs, j) \in SUBSET Nat /\ ParentStarts(segs, j) \subseteq 1..(j - 1)
    BY <2>1 DEF ParentStarts
  <2> DEFINE i == CHOOSE i \in ParentStarts(segs, j) :
                     \A l \in ParentStarts(segs, j) : i <= l
  <2>3. i \in ParentStarts(segs, j)
    BY <2>1, <2>2, LeastIsThere
  <2>4. ParentPiece(segs, j) = SubSeq(segs, i, j)
    BY DEF ParentPiece
  <2> HIDE DEF i
  <2>5. i \in 1..(j - 1) /\ Len(segs) \in Nat
    BY <2>2, <2>3
  <2>6. SubSeq(segs, i, j) \in Seq(STRING) /\ Len(SubSeq(segs, i, j)) = j - i + 1
    BY <2>1, <2>5, SubSeqProperties
  <2>7. SubSeq(segs, i, j) # <<>>
    BY <2>1, <2>5, <2>6
  <2> QED BY <2>4, <2>6, <2>7 DEF Filled, IsSeq
<1> DEFINE pieces == [m \in 1..k |-> ParentPiece(segs, js[m])]
<1>5. ParentInstances(segs)[k] = FlattenSeq(pieces)
  BY <1>2, <1>3 DEF ParentInstances
<1>6. \A m \in 1..k : Filled(pieces[m])
  <2> HIDE DEF js, S
  <2> QED BY <1>1, <1>3, <1>4
<1>7. pieces = [m \in 1..k |-> pieces[m]] /\ k \in Nat /\ k # 0
  BY <1>3
<1> HIDE DEF pieces
<1> QED BY <1>5, <1>6, <1>7, FlattenIsFilled

\* A path whose parameters follow words has a parent for each.
LEMMA ParentForEach ==
    ASSUME NEW segs \in Seq(STRING), ParametersFollowWords(segs)
    PROVE  Len(ParentRoots(segs)) = Cardinality({i \in DOMAIN segs : segs[i] \in Params})
<1> DEFINE S == {j \in 1..Len(segs) : segs[j] \in Params /\ ParentStarts(segs, j) # {}}
           P == {i \in DOMAIN segs : segs[i] \in Params}
<1>1. DOMAIN segs = 1..Len(segs) /\ Len(segs) \in Nat
  OBVIOUS
<1>2. \A j \in P : ParentStarts(segs, j) # {}
  <2> SUFFICES ASSUME NEW j \in P PROVE j - 1 \in ParentStarts(segs, j)
    OBVIOUS
  <2>1. j - 1 \in 1..Len(segs) /\ Word(segs[j - 1]) /\ j \in Nat
    BY <1>1 DEF ParametersFollowWords
  <2> QED BY <2>1 DEF ParentStarts
<1>3. S = P
  BY <1>1, <1>2
<1>4. IsFiniteSet(P)
  <2>1. IsFiniteSet(1..Len(segs)) /\ P \in SUBSET (1..Len(segs))
    BY <1>1, FS_Interval
  <2> HIDE DEF P
  <2> QED BY <2>1, FS_Subset
<1>5. Cardinality(P) \in Nat
  BY <1>4, FS_CardinalityType
<1>6. DOMAIN ParentParams(segs) = 1..Cardinality(P)
  BY <1>3 DEF ParentParams, Ascending
<1> HIDE DEF P
<1>7. Len(ParentParams(segs)) = Cardinality(P)
  BY <1>5, <1>6
<1>8. DOMAIN ParentRoots(segs) = 1..Cardinality(P)
  BY <1>7 DEF ParentRoots
<1>9. Len(ParentRoots(segs)) = Cardinality(P)
  BY <1>5, <1>8
<1> QED BY <1>9 DEF P

\* A resource that the analysis lets be has the parents its path names.
LEMMA LawfulHasParents ==
    ASSUME NEW d \in Documents, NEW r, Lawful(d, r), r.region = "",
           NEW k \in DOMAIN ParentRoots(r.root.segs)
    PROVE  /\ PathExists(d, ParentRoots(r.root.segs)[k])
           /\ PathExists(d, Append(ParentRoots(r.root.segs)[k],
                                  Last(ParentInstances(r.root.segs)[k])))
           /\ ~ItemAt(d, ParentRoots(r.root.segs)[k]).ignored
<1> DEFINE segs == r.root.segs
           root == ParentRoots(segs)[k]
           instance == ParentInstances(segs)[k]
<1>1. segs \in Seq(STRING) /\ ParentsComply(d, r.root)
  BY DocumentsAssumption DEF Lawful
<1>2. PathExists(d, instance) /\ PathExists(d, root) /\ ~ShouldIgnoreResource(ItemAt(d, root))
  BY <1>1 DEF ParentsComply
<1>3. Append(root, Last(instance)) = instance
  <2>1. Filled(instance)
    BY <1>1, InstancesAreFilled
  <2>2. root = Front(instance)
    BY DEF ParentRoots
  <2> HIDE DEF root, instance
  <2>3. PICK S : instance \in Seq(S)
    BY <2>1 DEF Filled, IsSeq
  <2> QED BY <2>1, <2>2, <2>3, FrontAndLast DEF Filled
<1>4. ItemAt(d, root).ignored => ItemAt(d, root).post # "none"
  <2>1. PICK slash \in BOOLEAN : At(root, slash) \in Paths(d)
    BY <1>2 DEF PathExists
  <2>2. \E p \in Paths(d) : ItemAt(d, root) = d.paths[p]
    <3>1. CASE At(root, FALSE) \in Paths(d)
      <4>1. (At(root, FALSE) \notin Paths(d)) = FALSE
        BY <3>1
      <4> QED BY <3>1, <4>1 DEF ItemAt
    <3>2. CASE At(root, FALSE) \notin Paths(d)
      <4>1. (At(root, FALSE) \notin Paths(d)) = TRUE /\ slash = TRUE
        BY <2>1, <3>2
      <4> QED BY <2>1, <4>1 DEF ItemAt
    <3> QED BY <3>1, <3>2
  <2> QED BY <2>2, DocumentsAssumption
<1> HIDE DEF root, instance, segs
<1>5. ~ItemAt(d, root).ignored
  BY <1>2, <1>4 DEF ShouldIgnoreResource
<1> QED BY <1>2, <1>3, <1>5 DEF root, instance, segs

(***************************************************************************)
(* ParametersAreParents: whatever the document, each parameter of a        *)
(* registered resource whose parameters follow words is a parent, and each *)
(* parent is in the document and not excluded (GetParentResourceInfo,      *)
(* validateSubResourceTerraformCompliance).                                *)
(***************************************************************************)
THEOREM ParentsAreThere == Spec => []ParametersAreParents
<1>1. LawfulInv => ParametersAreParents
  <2> SUFFICES ASSUME LawfulInv, NEW n \in DOMAIN resourceMap
               PROVE  LET r == resourceMap[n] IN
                      /\ ParentsExist(r)
                      /\ ParametersFollowWords(r.root.segs) =>
                            Len(ParentRoots(r.root.segs)) =
                               Cardinality({i \in DOMAIN r.root.segs :
                                               r.root.segs[i] \in Params})
    BY DEF ParametersAreParents, Registered
  <2> DEFINE r == resourceMap[n]
  <2>1. doc \in Documents /\ Lawful(doc, r)
    BY DEF LawfulInv, Walked
  <2> HIDE DEF r
  <2>2. ParentsExist(r)
    BY <2>1, LawfulHasParents DEF ParentsExist
  <2>3. r.root.segs \in Seq(STRING)
    BY <2>1, DocumentsAssumption DEF Lawful
  <2>4. ParametersFollowWords(r.root.segs) =>
           Len(ParentRoots(r.root.segs)) =
              Cardinality({i \in DOMAIN r.root.segs : r.root.segs[i] \in Params})
    BY <2>3, ParentForEach
  <2> QED BY <2>2, <2>4 DEF r
<1> QED BY <1>1, InitRegInv, NextRegInv, InitLawfulInv, NextLawfulInv, PTL DEF Spec
=============================================================================
