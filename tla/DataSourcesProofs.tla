--------------------------- MODULE DataSourcesProofs ---------------------------
(***************************************************************************)
(* Proofs about the data sources, for every document, collection and       *)
(* search: the one object that a search finds, the identifier that leads   *)
(* back to it, the properties that have a role, and the schemas that are   *)
(* made of the document.                                                   *)
(***************************************************************************)
EXTENDS DataSourcesProps, SortedSetsProofs, SequenceTheorems

USE DEF doc

Collections == {setup.objects, setup.later}
Items == setup.objects \cup setup.later
Reading == read.pc \in {"listing", "getting"}

\* A read is the record that NoRead is.
Shaped(x) ==
    x = [kind |-> x.kind, pc |-> x.pc, filters |-> x.filters, id |-> x.id,
         answered |-> x.answered, body |-> x.body, state |-> x.state]

\* The identifiers that may be left of an object, and the reasons for none.
IDs(item) == {StateID(item, name) : name \in ResourceIdentifiers(DataSourceSchema)}

\* What a read is at, and what it reads.
ReadInv ==
    /\ setup \in Setups
    /\ objects \in Collections
    /\ Shaped(read)
    /\ read.pc = "listing" =>
          read.kind = "search" /\ ValidateInput(read.filters) = "listing"
    /\ read.pc = "getting" => read.kind = "instance"
    /\ Reading => ~read.answered /\ phase = "ready"
    /\ read.kind = "search" =>
          \E search \in setup.searches : read.filters \in SetToSeqs(search)
    /\ read.answered => read.body \in Collections
    /\ read.pc = "done" => read.answered

\* The object that was found last, and the one that was read by its identifier.
FoundInv ==
    found.item = <<>> \/ (found.item \in Items /\ found.id \in IDs(found.item) \ Verdicts)
ReadBack ==
    read.kind = "instance" /\ read.pc = "done" =>
        \E item \in read.body :
            /\ setup.key \in DOMAIN item /\ item[setup.key].text = read.id
            /\ read.state.id \in IDs(item)
            /\ \A a \in DOMAIN read.state.attributes : From(item, a)
IdInv == ReadInv /\ FoundInv /\ ReadBack

-----------------------------------------------------------------------------
(* Operators                                                               *)

LEMMA MinIsMember ==
    ASSUME NEW S \in SUBSET Nat, S # {}
    PROVE  Min(S) \in S
BY LeastIsThere DEF Min

\* The filters of a search, in the order of the set they come from.
Filtering(filters) ==
    \E search \in setup.searches : filters \in SetToSeqs(search)

LEMMA FiltersAreListed ==
    ASSUME setup \in Setups, NEW filters, Filtering(filters)
    PROVE  /\ DOMAIN filters \subseteq Nat
           /\ \A i \in DOMAIN filters : filters[i] \in UNION setup.searches
<1>1. PICK search \in setup.searches : filters \in SetToSeqs(search)
  BY DEF Filtering
<1>2. IsFiniteSet(search)
  BY SetupsAssumption
<1>3. Cardinality(search) \in Nat
  BY <1>2, FS_CardinalityType
<1>4. filters \in [1..Cardinality(search) -> search]
  BY <1>1 DEF SetToSeqs
<1> QED BY <1>3, <1>4

LEMMA MatchDecides ==
    ASSUME setup \in Setups, NEW filters, Filtering(filters), NEW item
    PROVE  /\ FilterMatch(filters, item) = "yes" =>
                 \A i \in DOMAIN filters : ItemVerdict(filters[i], item) = "yes"
           /\ FilterMatch(filters, item) # "yes" =>
                 \E i \in DOMAIN filters :
                    ItemVerdict(filters[i], item) = FilterMatch(filters, item)
           /\ (\A i \in DOMAIN filters : ItemVerdict(filters[i], item) = "yes") =>
                 FilterMatch(filters, item) = "yes"
<1> DEFINE settled == {i \in DOMAIN filters : ItemVerdict(filters[i], item) # "yes"}
<1>1. settled \in SUBSET Nat
  BY FiltersAreListed
<1>2. settled # {} => Min(settled) \in settled
  BY <1>1, MinIsMember
<1>3. FilterMatch(filters, item) =
         IF settled = {} THEN "yes" ELSE ItemVerdict(filters[Min(settled)], item)
  BY DEF FilterMatch
<1>4. settled # {} => /\ Min(settled) \in DOMAIN filters
                      /\ ItemVerdict(filters[Min(settled)], item) # "yes"
  BY <1>2
<1> QED BY <1>3, <1>4

LEMMA InputDecides ==
    ASSUME setup \in Setups, NEW filters, Filtering(filters)
    PROVE  /\ ValidateInput(filters) \in {"listing", "failed", "panicked"}
           /\ ValidateInput(filters) = "listing" =>
                 \A i \in DOMAIN filters : FilterVerdict(filters[i]) = "listing"
<1> DEFINE wrong == {i \in DOMAIN filters : FilterVerdict(filters[i]) # "listing"}
<1>1. wrong \in SUBSET Nat
  BY FiltersAreListed
<1>2. wrong # {} => Min(wrong) \in wrong
  BY <1>1, MinIsMember
<1>3. ValidateInput(filters) =
         IF wrong = {} THEN "listing" ELSE FilterVerdict(filters[Min(wrong)])
  BY DEF ValidateInput
<1>4. \A f : FilterVerdict(f) \in {"listing", "failed", "panicked"}
  BY DEF FilterVerdict
<1>5. wrong # {} => FilterVerdict(filters[Min(wrong)]) # "listing"
  BY <1>2
<1> QED BY <1>3, <1>4, <1>5

LEMMA FilterIsFine ==
    ASSUME NEW f, FilterVerdict(f) = "listing"
    PROVE  /\ PropertyNamed(f.name) \in Top(DataSourceSchema)
           /\ PropertyNamed(f.name).path[1] = f.name
           /\ PropertyNamed(f.name).type \in Primitives
<1>1. Known(f.name) /\ PropertyNamed(f.name).type \in Primitives
  BY DEF FilterVerdict
<1> QED BY <1>1 DEF Known, PropertyNamed

\* A verdict on a value, but for the value itself.
LEMMA VerdictMeans ==
    ASSUME NEW f, NEW item
    PROVE  /\ ItemVerdict(f, item) = "yes" <=>
                 /\ f.name \in DOMAIN item /\ item[f.name].kind = Asserted(f.name)
                 /\ Text(item[f.name]) = f.values[1]
           /\ ItemVerdict(f, item) = "panicked" =>
                 f.name \in DOMAIN item /\ item[f.name].kind # Asserted(f.name)
BY DEF ItemVerdict

LEMMA ItemsAreKnown ==
    ASSUME setup \in Setups, NEW x \in Items
    PROVE  /\ IsFiniteSet(DOMAIN x)
           /\ \A n \in DOMAIN x :
                 /\ x[n].text \notin Verdicts
                 /\ x[n].inner # {} => x[n].kind \in {"list", "object"}
                 /\ \A e \in x[n].inner : e.path[1] = n
                 /\ x[n].kind = "number" => /\ x[n].text \in DOMAIN FloatText
                                            /\ IntegerText[x[n].text] \notin Verdicts
BY SetupsAssumption DEF Items

\* With the type of a property known, a filter that finds a value means it.
LEMMA YesIsMeant ==
    ASSUME setup \in Setups, NEW x \in Items, NEW f,
           FilterVerdict(f) = "listing", ItemVerdict(f, x) = "yes"
    PROVE  f.name \in DOMAIN x /\ Means(f, x[f.name])
<1>1. /\ f.name \in DOMAIN x /\ x[f.name].kind = Asserted(f.name)
      /\ Text(x[f.name]) = f.values[1]
  BY VerdictMeans
<1>2. CASE x[f.name].kind = "number"
  <2>1. x[f.name].text \in DOMAIN FloatText
    BY <1>1, <1>2, ItemsAreKnown
  <2>2. f.values[1] = FloatText[x[f.name].text]
    BY <1>1, <1>2 DEF Text
  <2> QED BY <1>1, <1>2, <2>1, <2>2, NumbersAssumption DEF Means
<1>3. CASE x[f.name].kind # "number"
  <2>1. Asserted(f.name) # "null"
    BY FilterIsFine DEF Asserted, Primitives
  <2> QED BY <1>1, <1>3, <2>1 DEF Means, Text
<1> QED BY <1>2, <1>3

\* And the other way round, of a value that is as another that was found.
LEMMA NoIsNotMeant ==
    ASSUME setup \in Setups, NEW x \in Items, NEW y \in Items, NEW f,
           ItemVerdict(f, x) = "yes",
           f.name \in DOMAIN y, Means(f, y[f.name]),
           ItemVerdict(f, y) # "yes"
    PROVE  ItemVerdict(f, y) = "panicked"
<1>1. /\ f.name \in DOMAIN x /\ x[f.name].kind = Asserted(f.name)
      /\ Text(x[f.name]) = f.values[1]
  BY VerdictMeans
<1>2. SUFFICES ASSUME y[f.name].kind = Asserted(f.name)
               PROVE  FALSE
  BY DEF ItemVerdict
<1>3. Text(y[f.name]) # f.values[1]
  BY <1>2, VerdictMeans
<1>4. CASE Asserted(f.name) = "number"
  <2>1. FloatText[f.values[1]] = FloatText[y[f.name].text]
    BY <1>2, <1>4 DEF Means
  <2>2. f.values[1] = FloatText[x[f.name].text] /\ x[f.name].text \in DOMAIN FloatText
    BY <1>1, <1>4, ItemsAreKnown DEF Text
  <2>3. FloatText[f.values[1]] = f.values[1]
    BY <2>2, NumbersAssumption
  <2> QED BY <1>2, <1>3, <1>4, <2>1, <2>3 DEF Text
<1>5. CASE Asserted(f.name) # "number"
  BY <1>2, <1>3, <1>5 DEF Means, Text
<1> QED BY <1>4, <1>5

-----------------------------------------------------------------------------
(* Steps                                                                   *)

\* What is left of an object in the state is what the API says of it.
Tells(item, attributes) ==
    /\ DOMAIN attributes = {SavedName(n) : n \in Saved(item)}
    /\ \A a \in DOMAIN attributes : \E n \in Described(item) :
          SavedName(n) = a /\ item[n] = attributes[a]

LEMMA StatesTell ==
    ASSUME NEW item, IsFiniteSet(DOMAIN item), NEW id, NEW state \in States(item, id)
    PROVE  /\ state = [id |-> state.id, attributes |-> state.attributes]
           /\ Tells(item, state.attributes)
<1>1. PICK last \in SUBSET Saved(item) :
         /\ \A n \in Saved(item) :
               Cardinality({m \in last : SavedName(m) = SavedName(n)}) = 1
         /\ state = [id |-> id, attributes |-> [a \in {SavedName(n) : n \in Saved(item)} |->
                        item[CHOOSE n \in last : SavedName(n) = a]]]
  BY DEF States
<1> DEFINE attributes == [a \in {SavedName(n) : n \in Saved(item)} |->
                             item[CHOOSE n \in last : SavedName(n) = a]]
<1>2. state.attributes = attributes /\ state.id = id
  BY <1>1
<1>3. ASSUME NEW n \in Saved(item)
      PROVE  \E m \in Described(item) :
                SavedName(m) = SavedName(n) /\ item[m] = attributes[SavedName(n)]
  <2> DEFINE S == {m \in last : SavedName(m) = SavedName(n)}
  <2>1. IsFiniteSet(S)
    <3>1. S \subseteq DOMAIN item
      BY DEF Saved
    <3> QED BY <3>1, FS_Subset
  <2>2. Cardinality(S) = 1
    BY <1>1
  <2>3. PICK m : S = {m}
    <3> HIDE DEF S
    <3> QED BY <2>1, <2>2, FS_Singleton
  <2>4. \E k \in last : SavedName(k) = SavedName(n)
    BY <2>3
  <2> DEFINE k == CHOOSE x \in last : SavedName(x) = SavedName(n)
  <2>5. k \in last /\ SavedName(k) = SavedName(n)
    BY <2>4
  <2>6. attributes[SavedName(n)] = item[k]
    OBVIOUS
  <2>7. k \in Described(item)
    BY <2>5 DEF Saved, Described
  <2> QED BY <2>5, <2>6, <2>7
<1>4. DOMAIN attributes = {SavedName(n) : n \in Saved(item)}
  OBVIOUS
<1>5. \A a \in DOMAIN attributes : \E n \in Described(item) :
          SavedName(n) = a /\ item[n] = attributes[a]
  <2>1. SUFFICES ASSUME NEW a \in DOMAIN attributes
                 PROVE  \E n \in Described(item) :
                           SavedName(n) = a /\ item[n] = attributes[a]
    OBVIOUS
  <2>2. PICK n \in Saved(item) : a = SavedName(n)
    BY <1>4
  <2> HIDE DEF attributes
  <2> QED BY <1>3, <2>2
<1>6. Tells(item, attributes)
  <2> HIDE DEF attributes
  <2> QED BY <1>4, <1>5 DEF Tells
<1> HIDE DEF attributes
<1> QED BY <1>1, <1>2, <1>6

\* What ends a read, as Finish does it with an object.
Ends(item) ==
    /\ Shaped(read') /\ read'.kind = read.kind /\ read'.filters = read.filters
    /\ read'.id = read.id /\ read'.answered /\ read'.body = objects
    /\ \/ /\ read'.pc = "failed" /\ found' = found
          /\ IDs(item) = {} \/ "missing" \in IDs(item) \/ Unsaved(item) # {}
       \/ /\ read'.pc = "panicked" /\ found' = found
          /\ "panicked" \in IDs(item) \/ Unsaved(item) # {}
       \/ /\ read'.pc = "done"
          /\ read'.state.id \in IDs(item) \ Verdicts
          /\ Tells(item, read'.state.attributes)
          /\ found' = IF read.kind = "search"
                      THEN [id |-> read'.state.id, item |-> item] ELSE found

LEMMA EndedIs ==
    ASSUME Shaped(read), NEW pc, NEW state
    PROVE  /\ Ended(pc) = [kind |-> read.kind, pc |-> pc, filters |-> read.filters,
                           id |-> read.id, answered |-> TRUE, body |-> objects,
                           state |-> read.state]
           /\ [Ended(pc) EXCEPT !.state = state] =
                 [kind |-> read.kind, pc |-> pc, filters |-> read.filters,
                  id |-> read.id, answered |-> TRUE, body |-> objects, state |-> state]
<1> DEFINE yes == TRUE
           first == [read EXCEPT !.pc = pc]
           second == [first EXCEPT !.answered = yes]
           third == [second EXCEPT !.body = objects]
<1>1. Ended(pc) = third
  BY DEF Ended
<1> HIDE DEF yes
<1>2. first = [kind |-> read.kind, pc |-> pc, filters |-> read.filters,
               id |-> read.id, answered |-> read.answered, body |-> read.body,
               state |-> read.state]
  BY DEF Shaped
<1> HIDE DEF first
<1>3. second = [kind |-> read.kind, pc |-> pc, filters |-> read.filters,
                id |-> read.id, answered |-> yes, body |-> read.body,
                state |-> read.state]
  BY <1>2
<1> HIDE DEF second
<1>4. third = [kind |-> read.kind, pc |-> pc, filters |-> read.filters,
               id |-> read.id, answered |-> yes, body |-> objects,
               state |-> read.state]
  BY <1>3
<1> HIDE DEF third
<1>5. [third EXCEPT !.state = state] =
         [kind |-> read.kind, pc |-> pc, filters |-> read.filters,
          id |-> read.id, answered |-> yes, body |-> objects, state |-> state]
  BY <1>4
<1> QED BY <1>1, <1>4, <1>5, Zenon DEF yes

LEMMA FinishEnds ==
    ASSUME Shaped(read), NEW item, IsFiniteSet(DOMAIN item), Finish(item)
    PROVE  Ends(item)
<1> DEFINE ids == IDs(item)
<1>1. CASE /\ ids = {} \/ "missing" \in ids \/ Unsaved(item) # {}
           /\ read' = Ended("failed") /\ UNCHANGED found
  <2>1. read' = [kind |-> read.kind, pc |-> "failed", filters |-> read.filters,
                 id |-> read.id, answered |-> TRUE, body |-> objects, state |-> read.state]
    BY <1>1, EndedIs
  <2> QED BY <1>1, <2>1 DEF Ends, Shaped
<1>2. CASE /\ "panicked" \in ids \/ Unsaved(item) # {}
           /\ read' = Ended("panicked") /\ UNCHANGED found
  <2>1. read' = [kind |-> read.kind, pc |-> "panicked", filters |-> read.filters,
                 id |-> read.id, answered |-> TRUE, body |-> objects, state |-> read.state]
    BY <1>2, EndedIs
  <2> QED BY <1>2, <2>1 DEF Ends, Shaped
<1>3. ASSUME NEW id \in ids \ Verdicts, NEW state \in States(item, ""),
             read' = [Ended("done") EXCEPT !.state = [state EXCEPT !.id = id]],
             found' = IF read.kind = "search" THEN [id |-> id, item |-> item] ELSE found
      PROVE  Ends(item)
  <2>1. state = [id |-> state.id, attributes |-> state.attributes]
    BY <1>3, StatesTell
  <2> DEFINE none == ""
  <2>6. Tells(item, state.attributes)
    <3>1. state \in States(item, none)
      BY <1>3
    <3> HIDE DEF none, ids
    <3> QED BY <3>1, StatesTell
  <2>2. PICK left : left = [state EXCEPT !.id = id]
    OBVIOUS
  <2>3. left.id = id /\ left.attributes = state.attributes
    BY <2>1, <2>2
  <2>4. read' = [kind |-> read.kind, pc |-> "done", filters |-> read.filters,
                 id |-> read.id, answered |-> TRUE, body |-> objects, state |-> left]
    BY <1>3, <2>2, EndedIs
  <2>5. /\ Shaped(read') /\ read'.kind = read.kind /\ read'.filters = read.filters
        /\ read'.id = read.id /\ read'.answered /\ read'.body = objects
        /\ read'.pc = "done" /\ read'.state = left
    BY <2>4 DEF Shaped
  <2> HIDE DEF ids
  <2>7. Tells(item, read'.state.attributes)
    BY <2>3, <2>5, <2>6
  <2> QED BY <1>3, <2>3, <2>5, <2>7 DEF Ends, ids
<1>4. \/ /\ ids = {} \/ "missing" \in ids \/ Unsaved(item) # {}
         /\ read' = Ended("failed") /\ UNCHANGED found
      \/ /\ "panicked" \in ids \/ Unsaved(item) # {}
         /\ read' = Ended("panicked") /\ UNCHANGED found
      \/ \E id \in ids \ Verdicts, state \in States(item, "") :
            /\ read' = [Ended("done") EXCEPT !.state = [state EXCEPT !.id = id]]
            /\ found' = IF read.kind = "search" THEN [id |-> id, item |-> item] ELSE found
  <2> HIDE DEF ids
  <2>1. ids = {StateID(item, name) : name \in ResourceIdentifiers(DataSourceSchema)}
    BY DEF ids, IDs
  <2> QED BY <2>1 DEF Finish
<1> QED BY <1>1, <1>2, <1>3, <1>4

LEMMA IdOfNone ==
    ASSUME setup \in Setups, NEW item \in Items,
           "missing" \in IDs(item) \/ "panicked" \in IDs(item)
    PROVE  Unkeepable(item)
<1>1. PICK n \in ResourceIdentifiers(DataSourceSchema) : StateID(item, n) \in Verdicts
  BY DEF IDs, Verdicts
<1>2. SUFFICES ASSUME n \in DOMAIN item, item[n].kind \in {"string", "number"}
               PROVE  FALSE
  BY <1>1 DEF Unkeepable
<1>3. item[n].kind # "null"
  BY <1>2
<1>4. StateID(item, n) =
         IF item[n].kind = "number" THEN IntegerText[item[n].text] ELSE item[n].text
  BY <1>2, <1>3 DEF StateID
<1> QED BY <1>1, <1>2, <1>4, ItemsAreKnown

-----------------------------------------------------------------------------
(* Matches                                                                 *)

\* What the answer of the API has for a search, as the code and the user see it.
Matches == {x \in objects : FilterMatch(read.filters, x) = "yes"}
Answers == {x \in objects : Meant(x)}
Settled == \A x \in objects : FilterMatch(read.filters, x) # "panicked"

LEMMA Searching ==
    ASSUME ReadInv, read.pc = "listing"
    PROVE  /\ setup \in Setups /\ Filtering(read.filters) /\ objects \subseteq Items
           /\ \A i \in DOMAIN read.filters :
                 /\ FilterVerdict(read.filters[i]) = "listing"
                 /\ read.filters[i] \in UNION setup.searches
<1>1. setup \in Setups /\ Filtering(read.filters) /\ objects \subseteq Items
  BY DEF ReadInv, Filtering, Collections, Items
<1> QED BY <1>1, InputDecides, FiltersAreListed DEF ReadInv

LEMMA MatchesAreMeant ==
    ASSUME ReadInv, read.pc = "listing"
    PROVE  Matches \subseteq Answers
<1>1. SUFFICES ASSUME NEW x \in Matches, NEW i \in DOMAIN read.filters
               PROVE  /\ read.filters[i].name \in DOMAIN x
                      /\ Means(read.filters[i], x[read.filters[i].name])
  BY DEF Matches, Answers, Meant
<1>2. ItemVerdict(read.filters[i], x) = "yes"
  BY <1>1, MatchDecides, Searching DEF Matches
<1> QED BY <1>1, <1>2, Searching, YesIsMeant DEF Matches

\* With a match and no panic, what is meant is a match.
LEMMA NoOtherIsMeant ==
    ASSUME ReadInv, read.pc = "listing", Settled, NEW x \in Matches
    PROVE  Answers \subseteq Matches
<1>1. SUFFICES ASSUME NEW y \in Answers, FilterMatch(read.filters, y) # "yes"
               PROVE  FALSE
  BY DEF Matches, Answers
<1>2. y \in Items /\ x \in Items /\ y \in objects
  BY Searching DEF Answers, Matches
<1>3. PICK i \in DOMAIN read.filters :
         ItemVerdict(read.filters[i], y) = FilterMatch(read.filters, y)
  BY <1>1, MatchDecides, Searching
<1>4. ItemVerdict(read.filters[i], x) = "yes"
  BY MatchDecides, Searching DEF Matches
<1>5. /\ read.filters[i].name \in DOMAIN y
      /\ Means(read.filters[i], y[read.filters[i].name])
  BY <1>1 DEF Answers, Meant
<1>6. ItemVerdict(read.filters[i], y) = "panicked"
  BY <1>1, <1>2, <1>3, <1>4, <1>5, NoIsNotMeant, Searching
<1> QED BY <1>2, <1>3, <1>6 DEF Settled

\* What defeats a search, as the answer to it shows.
Defeats ==
    \E i \in DOMAIN read.filters :
        LET f == read.filters[i]
        IN \E item \in objects :
              /\ f.name \in DOMAIN item
              /\ \/ PropertyNamed(f.name).type = "integer"
                 \/ item[f.name].kind = "null"
                 \/ /\ item[f.name].kind = "number"
                    /\ f.values[1] \in DOMAIN FloatText
                    /\ FloatText[f.values[1]] # f.values[1]

LEMMA ItConforms ==
    ASSUME setup \in Setups, NEW f \in UNION setup.searches, FilterVerdict(f) = "listing",
           NEW x \in Items, f.name \in DOMAIN x
    PROVE  \/ x[f.name].kind = "null"
           \/ PropertyNamed(f.name).type = "integer"
           \/ x[f.name].kind = Asserted(f.name)
<1>1. \A d \in Top(ConvertToDataSource(GetResourceSchema(setup.doc))) :
         d.path[1] = f.name /\ d.type \in Primitives /\ f.name \in DOMAIN x =>
                  \/ x[f.name].kind = "null"
                  \/ x[f.name].kind = IF d.type = "integer" THEN "number" ELSE d.type
  BY ConformingAssumption DEF Items
<1>2. PropertyNamed(f.name) \in Top(ConvertToDataSource(GetResourceSchema(setup.doc)))
  BY FilterIsFine DEF DataSourceSchema
<1> QED BY <1>1, <1>2, FilterIsFine DEF Asserted

LEMMA PanicsDefeat ==
    ASSUME ReadInv, read.pc = "listing", ~Settled
    PROVE  Defeats
<1>1. PICK x \in objects : FilterMatch(read.filters, x) = "panicked"
  BY DEF Settled
<1>2. PICK i \in DOMAIN read.filters :
         ItemVerdict(read.filters[i], x) = FilterMatch(read.filters, x)
  BY <1>1, MatchDecides, Searching
<1>3. /\ read.filters[i].name \in DOMAIN x
      /\ x[read.filters[i].name].kind # Asserted(read.filters[i].name)
  BY <1>1, <1>2, VerdictMeans
<1>4. x \in Items
  BY Searching
<1> QED BY <1>3, <1>4, ItConforms, Searching DEF Defeats

LEMMA MeantIsMatched ==
    ASSUME ReadInv, read.pc = "listing", ~Defeats
    PROVE  Answers \subseteq Matches
<1>1. SUFFICES ASSUME NEW x \in Answers, NEW i \in DOMAIN read.filters
               PROVE  ItemVerdict(read.filters[i], x) = "yes"
  BY MatchDecides, Searching DEF Answers, Matches
<1> DEFINE f == read.filters[i]
           value == x[f.name]
<1>2. x \in objects /\ x \in Items /\ f.name \in DOMAIN x /\ Means(f, value)
  BY Searching DEF Answers, Meant
<1>3. /\ value.kind # "null"
      /\ PropertyNamed(f.name).type # "integer"
      /\ value.kind = "number" /\ f.values[1] \in DOMAIN FloatText =>
            FloatText[f.values[1]] = f.values[1]
  BY <1>2 DEF Defeats
<1>4. value.kind = Asserted(f.name)
  BY <1>2, <1>3, ItConforms, Searching
<1>5. Text(value) = f.values[1]
  BY <1>2, <1>3 DEF Means, Text
<1> QED BY <1>2, <1>4, <1>5, VerdictMeans

LEMMA AnswersAreFinite ==
    ASSUME ReadInv, read.pc = "listing"
    PROVE  IsFiniteSet(Matches) /\ IsFiniteSet(Answers)
<1>1. IsFiniteSet(objects)
  BY SetupsAssumption DEF ReadInv, Collections
<1> QED BY <1>1, FS_Subset DEF Matches, Answers

-----------------------------------------------------------------------------
(* What a read is at                                                       *)

\* The actions that leave the reads alone.
Elsewhere == CreateProvider \/ Others
\* And those that begin one, or end it without an answer.
Turning == Restart \/ StartSearch \/ StartInstanceRead \/ ReadFails
Answering == SearchAnswered \/ InstanceAnswered

LEMMA NextSteps ==
    ASSUME [Next]_vars
    PROVE  \/ (Elsewhere \/ UNCHANGED vars) /\ UNCHANGED <<setup, read, found>>
           \/ Turning
           \/ Answering
BY DEF Next, Elsewhere, Turning, Answering, CreateProvider, Others, vars

LEMMA SetupStays ==
    ASSUME ReadInv, [Next]_vars
    PROVE  setup' = setup /\ objects' \in Collections
BY DEF ReadInv, Collections, Next, vars, CreateProvider, Restart, StartSearch,
       SearchAnswered, StartInstanceRead, InstanceAnswered, ReadFails, Others

\* A turn leaves what was found, and no read that is done.
LEMMA TurnsAreShaped ==
    ASSUME ReadInv, Turning
    PROVE  /\ Shaped(read') /\ ~read'.answered /\ found' = found
           /\ \/ read'.kind = "none" /\ read'.pc = "idle"
              \/ /\ read'.kind = "search" /\ Filtering(read'.filters)
                 /\ read'.pc = ValidateInput(read'.filters)
                 /\ read'.pc \in {"listing", "failed", "panicked"}
              \/ read'.kind = "instance" /\ read'.pc \in {"failed", "getting"}
              \/ /\ read'.kind = read.kind /\ read'.filters = read.filters
                 /\ read'.pc = "failed"
<1>1. CASE Restart
  BY <1>1 DEF Restart, NoRead, Shaped
<1>2. CASE StartSearch
  <2>1. PICK search \in setup.searches : \E filters \in SetToSeqs(search) :
           read' = [NoRead EXCEPT !.kind = "search", !.filters = filters,
                                  !.pc = ValidateInput(filters)]
    BY <1>2 DEF StartSearch
  <2>2. PICK filters \in SetToSeqs(search) :
           read' = [NoRead EXCEPT !.kind = "search", !.filters = filters,
                                  !.pc = ValidateInput(filters)]
    BY <2>1
  <2>3. Filtering(filters) /\ setup \in Setups
    BY DEF Filtering, ReadInv
  <2>4. PICK verdict : verdict = ValidateInput(filters)
    OBVIOUS
  <2>5. verdict \in {"listing", "failed", "panicked"}
    BY <2>3, <2>4, InputDecides
  <2>6. read' = [kind |-> "search", pc |-> verdict, filters |-> filters, id |-> "",
                 answered |-> FALSE, body |-> {}, state |-> <<>>]
    BY <2>2, <2>4 DEF NoRead
  <2>7. /\ Shaped(read') /\ ~read'.answered /\ read'.kind = "search"
        /\ read'.filters = filters /\ read'.pc = verdict
    BY <2>6 DEF Shaped
  <2> QED BY <1>2, <2>3, <2>4, <2>5, <2>7 DEF StartSearch
<1>3. CASE StartInstanceRead
  <2>1. PICK id \in setup.ids \cup {found.id} :
          read' = [NoRead EXCEPT !.kind = "instance", !.id = id,
                                 !.pc = IF id = "" THEN "failed" ELSE "getting"]
    BY <1>3 DEF StartInstanceRead
  <2>2. PICK pc \in {"failed", "getting"} :
           pc = IF id = "" THEN "failed" ELSE "getting"
    OBVIOUS
  <2>3. read' = [kind |-> "instance", pc |-> pc, filters |-> <<>>, id |-> id,
                 answered |-> FALSE, body |-> {}, state |-> <<>>]
    BY <2>1, <2>2 DEF NoRead
  <2> QED BY <1>3, <2>3 DEF StartInstanceRead, Shaped
<1>4. CASE ReadFails
  <2>1. read' = [kind |-> read.kind, pc |-> "failed", filters |-> read.filters,
                 id |-> read.id, answered |-> read.answered, body |-> read.body,
                 state |-> read.state]
    BY <1>4 DEF ReadFails, ReadInv, Shaped
  <2>2. ~read.answered
    BY <1>4 DEF ReadFails, ReadInv, Reading
  <2> QED BY <1>4, <2>1, <2>2 DEF ReadFails, Shaped
<1> QED BY <1>1, <1>2, <1>3, <1>4 DEF Turning

\* An answer ends the read: without an object, or with the one it has.
LEMMA AnswersEnd ==
    ASSUME ReadInv, Answering
    PROVE  /\ Shaped(read') /\ read'.kind = read.kind /\ read'.filters = read.filters
           /\ read'.id = read.id /\ read'.answered /\ read'.body = objects
           /\ read'.pc \in {"failed", "panicked", "done"}
           /\ \/ /\ read.pc = "listing" /\ ~Settled
                 /\ read'.pc = "panicked" /\ found' = found
              \/ /\ read.pc = "listing" /\ Settled /\ Cardinality(Matches) # 1
                 /\ read'.pc = "failed" /\ found' = found
              \/ /\ read.pc = "listing" /\ Settled /\ Cardinality(Matches) = 1
                 /\ \E item \in Matches : Ends(item)
              \/ /\ read.pc = "getting"
                 /\ \E item \in objects :
                       /\ setup.key \in DOMAIN item /\ item[setup.key].text = read.id
                       /\ Ends(item)
<1>0. \A item \in objects : Shaped(read) /\ IsFiniteSet(DOMAIN item)
  BY ItemsAreKnown DEF ReadInv, Collections, Items
<1>1. CASE SearchAnswered
  <2>1. Settled <=> "panicked" \notin {FilterMatch(read.filters, x) : x \in objects}
    BY DEF Settled
  <2>2. CASE ~Settled /\ read' = Ended("panicked") /\ UNCHANGED found
    <3>1. read' = [kind |-> read.kind, pc |-> "panicked", filters |-> read.filters,
                   id |-> read.id, answered |-> TRUE, body |-> objects,
                   state |-> read.state]
      BY <2>2, EndedIs DEF ReadInv
    <3> QED BY <1>1, <2>2, <3>1 DEF SearchAnswered, Shaped
  <2>3. CASE Settled /\ Cardinality(Matches) # 1 /\ read' = Ended("failed")
             /\ UNCHANGED found
    <3>1. read' = [kind |-> read.kind, pc |-> "failed", filters |-> read.filters,
                   id |-> read.id, answered |-> TRUE, body |-> objects,
                   state |-> read.state]
      BY <2>3, EndedIs DEF ReadInv
    <3> QED BY <1>1, <2>3, <3>1 DEF SearchAnswered, Shaped
  <2>4. ASSUME Settled, Cardinality(Matches) = 1, NEW item \in Matches, Finish(item)
        PROVE  Ends(item)
    BY <1>0, <2>4, FinishEnds DEF Matches
  <2>5. ASSUME NEW item \in Matches, Ends(item)
        PROVE  /\ Shaped(read') /\ read'.kind = read.kind /\ read'.filters = read.filters
               /\ read'.id = read.id /\ read'.answered /\ read'.body = objects
               /\ read'.pc \in {"failed", "panicked", "done"}
    BY <2>5 DEF Ends
  <2>6. /\ read.pc = "listing"
        /\ \/ ~Settled /\ read' = Ended("panicked") /\ UNCHANGED found
           \/ /\ Settled /\ Cardinality(Matches) # 1 /\ read' = Ended("failed")
              /\ UNCHANGED found
           \/ /\ Settled /\ Cardinality(Matches) = 1
              /\ \E item \in Matches : Finish(item)
    BY <1>1, <2>1 DEF SearchAnswered, Matches
  <2>7. CASE Settled /\ Cardinality(Matches) = 1 /\ \E item \in Matches : Finish(item)
    BY <2>4, <2>5, <2>6, <2>7
  <2> QED BY <2>2, <2>3, <2>6, <2>7
<1>2. CASE InstanceAnswered
  <2>1. PICK item \in objects :
           /\ setup.key \in DOMAIN item /\ item[setup.key].text = read.id
           /\ Finish(item)
    BY <1>2 DEF InstanceAnswered
  <2>2. Ends(item)
    BY <1>0, <2>1, FinishEnds
  <2>3. /\ Shaped(read') /\ read'.kind = read.kind /\ read'.filters = read.filters
        /\ read'.id = read.id /\ read'.answered /\ read'.body = objects
        /\ read'.pc \in {"failed", "panicked", "done"}
    BY <2>2 DEF Ends
  <2> QED BY <1>2, <2>1, <2>2, <2>3 DEF InstanceAnswered
<1> QED BY <1>1, <1>2 DEF Answering

LEMMA NextReadInv ==
    ASSUME ReadInv, [Next]_vars
    PROVE  ReadInv'
<1>1. setup' = setup /\ objects' \in Collections /\ Collections' = Collections
  BY SetupStays DEF Collections
<1>2. \A filters : ValidateInput(filters)' = ValidateInput(filters)
  BY <1>1 DEF ValidateInput, FilterVerdict, Known, PropertyNamed, DataSourceSchema
<1>6. Reading' => phase' = "ready"
  <2>1. CASE Elsewhere \/ UNCHANGED vars
    BY <2>1 DEF Elsewhere, CreateProvider, Others, vars, ReadInv, Reading
  <2>2. CASE Restart
    BY <2>2 DEF Restart, NoRead, Reading
  <2>3. CASE StartSearch \/ StartInstanceRead
    BY <2>3 DEF StartSearch, StartInstanceRead, Startable
  <2>4. CASE ReadFails
    <3>1. read'.pc = "failed"
      BY <2>4 DEF ReadFails, ReadInv, Shaped
    <3> QED BY <3>1 DEF Reading
  <2>5. CASE Answering
    BY <2>5, AnswersEnd DEF Reading
  <2> QED BY <2>1, <2>2, <2>3, <2>4, <2>5, NextSteps DEF Turning
<1>3. CASE UNCHANGED <<setup, read, found>>
  <2>1. PICK filters : filters = read.filters
    OBVIOUS
  <2>2. ValidateInput(read.filters)' = ValidateInput(read.filters)
    BY <1>2, <1>3, <2>1 DEF ValidateInput, FilterVerdict, Known, PropertyNamed, DataSourceSchema
  <2> QED BY <1>1, <1>3, <1>6, <2>2 DEF ReadInv, Reading
<1>4. CASE Turning
  <2>1. ValidateInput(read.filters)' = ValidateInput(read'.filters)
    BY <1>1 DEF ValidateInput, FilterVerdict, Known, PropertyNamed, DataSourceSchema
  <2> DEFINE Turned ==
         \/ read'.kind = "none" /\ read'.pc = "idle"
         \/ /\ read'.kind = "search" /\ Filtering(read'.filters)
            /\ read'.pc = ValidateInput(read'.filters)
            /\ read'.pc \in {"listing", "failed", "panicked"}
         \/ read'.kind = "instance" /\ read'.pc \in {"failed", "getting"}
         \/ /\ read'.kind = read.kind /\ read'.filters = read.filters
            /\ read'.pc = "failed"
  <2>6. Turned
    BY <1>4, TurnsAreShaped
  <2>2. /\ read'.pc = "listing" =>
              read'.kind = "search" /\ ValidateInput(read'.filters) = "listing"
        /\ read'.pc = "getting" => read'.kind = "instance"
        /\ read'.pc # "done"
    BY <2>6
  <2>7. read.kind = "search" => Filtering(read.filters)
    BY DEF ReadInv, Filtering
  <2>3. read'.kind = "search" => Filtering(read'.filters)
    BY <2>6, <2>7
  <2>4. Shaped(read') /\ ~read'.answered
    BY <1>4, TurnsAreShaped
  <2>5. read'.kind = "search" =>
           \E search \in setup'.searches : read'.filters \in SetToSeqs(search)
    BY <1>1, <2>3 DEF Filtering
  <2> QED BY <1>1, <1>6, <2>1, <2>2, <2>4, <2>5 DEF ReadInv, Reading
<1>5. CASE Answering
  <2>1. objects \in Collections
    BY DEF ReadInv
  <2> QED BY <1>1, <1>5, <2>1, AnswersEnd DEF ReadInv, Reading
<1> QED BY <1>3, <1>4, <1>5, NextSteps

-----------------------------------------------------------------------------
(* Identifiers                                                             *)

LEMMA NextIdInv ==
    ASSUME IdInv, [Next]_vars
    PROVE  IdInv'
<1>0. /\ ReadInv /\ ReadInv' /\ FoundInv /\ ReadBack
      /\ setup' = setup /\ objects \in Collections
  BY NextReadInv, SetupStays DEF IdInv, ReadInv
<1>1. DataSourceSchema' = DataSourceSchema /\ Items' = Items
  BY <1>0 DEF DataSourceSchema, Items
<1>2. \A item : IDs(item)' = IDs(item)
  BY <1>1 DEF IDs
<1>3. \A n : SavedName(n)' = SavedName(n)
  BY <1>1 DEF SavedName, PropertyNamed
<1>4. \A item : Described(item)' = Described(item)
  BY <1>1 DEF Described, Known
<1>5. CASE UNCHANGED <<setup, read, found>>
  <2>1. FoundInv' = FoundInv
    BY <1>5 DEF FoundInv, Items, IDs, DataSourceSchema
  <2>2. ReadBack' = ReadBack
    BY <1>5 DEF ReadBack, IDs, From, Described, SavedName, PropertyNamed, Known,
                DataSourceSchema
  <2> QED BY <1>0, <2>1, <2>2 DEF IdInv
<1>6. ASSUME found' = found
      PROVE  FoundInv'
  <2>1. CASE found.item = <<>>
    BY <1>6, <2>1 DEF FoundInv
  <2>2. CASE found.item \in Items /\ found.id \in IDs(found.item) \ Verdicts
    <3>1. PICK item : item = found.item
      OBVIOUS
    <3>2. IDs(item)' = IDs(item)
      BY <1>2
    <3>3. IDs(found.item)' = IDs(item)
      BY <1>1, <1>6, <3>1 DEF IDs
    <3> QED BY <1>1, <1>6, <2>2, <3>1, <3>3 DEF FoundInv
  <2> QED BY <1>0, <2>1, <2>2 DEF FoundInv
<1>7. CASE Turning
  <2>1. found' = found /\ read'.pc # "done"
    BY <1>0, <1>7, TurnsAreShaped DEF ReadInv
  <2> QED BY <1>0, <1>6, <2>1 DEF IdInv, ReadBack
<1>8. ASSUME NEW item \in objects, Ends(item)
      PROVE  FoundInv'
  <2>1. item \in Items
    BY <1>0 DEF Collections, Items
  <2>2. CASE found' = found
    BY <1>6, <2>2
  <2>3. CASE /\ found' = [id |-> read'.state.id, item |-> item]
             /\ read'.state.id \in IDs(item) \ Verdicts
    <3>1. found'.item = item /\ found'.id \in IDs(item) \ Verdicts
      BY <2>3
    <3>2. IDs(found.item)' = IDs(item)
      BY <1>1, <3>1 DEF IDs
    <3> QED BY <1>1, <2>1, <3>1, <3>2 DEF FoundInv
  <2> QED BY <1>8, <2>2, <2>3 DEF Ends
<1>9. CASE Answering
  <2>1. read'.kind = read.kind /\ read'.id = read.id /\ read'.body = objects
    BY <1>0, <1>9, AnswersEnd
  <2>2. ASSUME read'.pc \in {"panicked", "failed"}, found' = found
        PROVE  IdInv'
    BY <1>0, <1>6, <2>2 DEF IdInv, ReadBack
  <2>3. ASSUME read.pc = "listing", NEW item \in Matches, Ends(item)
        PROVE  IdInv'
    <3>1. read'.kind = "search"
      BY <1>0, <2>1, <2>3 DEF ReadInv
    <3> QED BY <1>0, <1>8, <2>3, <3>1 DEF IdInv, ReadBack, Matches
  <2>4. ASSUME NEW item \in objects, setup.key \in DOMAIN item,
               item[setup.key].text = read.id, Ends(item)
        PROVE  IdInv'
    <3>1. SUFFICES ASSUME read'.pc = "done"
                   PROVE  ReadBack'
      BY <1>0, <1>8, <2>4 DEF IdInv, ReadBack
    <3>2. read'.state.id \in IDs(item) /\ Tells(item, read'.state.attributes)
      BY <2>4, <3>1 DEF Ends
    <3>3. \A a \in DOMAIN read'.state.attributes : From(item, a)'
      BY <1>3, <1>4, <3>2 DEF From, Tells
    <3>4. IDs(item)' = IDs(item)
      BY <1>2
    <3> QED BY <1>0, <2>1, <2>4, <3>2, <3>3, <3>4 DEF ReadBack
  <2> QED BY <1>0, <1>9, <2>2, <2>3, <2>4, AnswersEnd
<1> QED BY <1>0, <1>5, <1>7, <1>9, NextSteps

LEMMA OneIdentifier ==
    ASSUME NEW item, Faithful(item), NEW id \in IDs(item)
    PROVE  id = item[setup.key].text
<1>1. id = StateID(item, setup.key) /\ setup.key \in DOMAIN item
  BY DEF Faithful, IDs
<1> QED BY <1>1 DEF Faithful, StateID

\* Identifiers go round where the object found and the one read agree on them.
LEMMA IdInvTells ==
    ASSUME IdInv
    PROVE  IdsRoundTrip
<1>1. SUFFICES ASSUME Faithful(found.item)
               PROVE  /\ found.id = found.item[setup.key].text
                      /\ read.kind = "instance" /\ read.pc = "done" /\ read.id = found.id =>
                            /\ read.state.id = found.id
                            /\ \E item \in read.body :
                                  /\ item[setup.key] = found.item[setup.key]
                                  /\ \A a \in DOMAIN read.state.attributes : From(item, a)
  BY DEF IdsRoundTrip
<1>2. found.item # <<>>
  BY <1>1 DEF Faithful
<1>3. found.item \in Items /\ found.id \in IDs(found.item) /\ setup \in Setups
  BY <1>2 DEF IdInv, FoundInv, ReadInv
<1>4. found.id = found.item[setup.key].text
  BY <1>1, <1>3, OneIdentifier
<1>5. ASSUME read.kind = "instance", read.pc = "done", read.id = found.id
      PROVE  /\ read.state.id = found.id
             /\ \E item \in read.body :
                   /\ item[setup.key] = found.item[setup.key]
                   /\ \A a \in DOMAIN read.state.attributes : From(item, a)
  <2>1. PICK item \in read.body :
           /\ setup.key \in DOMAIN item /\ item[setup.key].text = read.id
           /\ read.state.id \in IDs(item)
           /\ \A a \in DOMAIN read.state.attributes : From(item, a)
    BY <1>5 DEF IdInv, ReadBack
  <2>2. item \in Items
    BY <1>5 DEF IdInv, ReadInv, Collections, Items
  <2>3. setup.key \in DOMAIN found.item
    BY <1>1 DEF Faithful
  <2>4. item[setup.key] = found.item[setup.key]
    BY <1>3, <1>4, <1>5, <2>1, <2>2, <2>3, SetupsAssumption DEF Items
  <2>5. Faithful(item)
    BY <1>1, <2>1, <2>4 DEF Faithful
  <2>6. read.state.id = item[setup.key].text
    BY <2>1, <2>5, OneIdentifier
  <2> QED BY <1>5, <2>1, <2>4, <2>6
<1> QED BY <1>4, <1>5

-----------------------------------------------------------------------------
(* Theorems                                                                *)

LEMMA InitHolds ==
    ASSUME Init
    PROVE  ReadInv /\ read.kind = "none" /\ read.pc = "idle" /\ IdInv
<1>1. setup \in Setups /\ objects \in Collections
  BY DEF Init, Collections
<1>2. /\ read.kind = "none" /\ read.pc = "idle" /\ ~read.answered /\ Shaped(read)
      /\ found.item = <<>>
  BY DEF Init, NoRead, Nothing, Shaped
<1>3. ReadInv
  BY <1>1, <1>2 DEF ReadInv, Reading
<1> QED BY <1>2, <1>3 DEF IdInv, FoundInv, ReadBack

(***************************************************************************)
(* The identifier that a search leaves in the state leads back to the      *)
(* object, where it is a text or a whole number (setStateID and read of    *)
(* data_source_instance_factory.go).                                       *)
(***************************************************************************)
THEOREM IdentifiersLeadBack == Spec => []IdsRoundTrip
<1>1. Init => IdInv
  BY InitHolds
<1>2. IdInv /\ [Next]_vars => IdInv'
  BY NextIdInv
<1>3. IdInv => IdsRoundTrip
  BY IdInvTells
<1> QED BY <1>1, <1>2, <1>3, PTL DEF Spec

-----------------------------------------------------------------------------
(* The levels of a document, and their paths                               *)

\* The levels of a document are what their equation says they are.
LEMMA LevelIs ==
    ASSUME NEW d, NEW known
    PROVE  Level(d, known) =
             [k \in 1..(StackDepth + 1) |->
                IF k = 1 THEN EntriesOf(d, d.root, <<>>)
                ELSE Deeper(d, known, Level(d, known)[k - 1])]
<1> DEFINE F(g, n) == [k \in 1..n |->
                IF k = 1 THEN EntriesOf(d, d.root, <<>>)
                ELSE Deeper(d, known, g[k - 1])]
<1>1. \E g : g = F(g, StackDepth + 1)
  <2>1. \A n \in Nat : \E g : g = F(g, n)
    <3> DEFINE Bad == {n \in Nat : ~ \E g : g = F(g, n)}
    <3>1. SUFFICES ASSUME Bad # {} PROVE FALSE
      OBVIOUS
    <3>2. PICK n \in Bad : \A m \in Bad : n <= m
      <4>1. Bad \in SUBSET Nat
        OBVIOUS
      <4> HIDE DEF Bad
      <4> QED BY <4>1, <3>1, LeastIsThere
    <3>3. n \in Nat /\ ~ \E g : g = F(g, n)
      OBVIOUS
    <3>4. CASE n = 0
      <4>1. << >> = F(<< >>, n)
        BY <3>4
      <4> QED BY <4>1, <3>3
    <3>5. CASE n # 0
      <4>1. n - 1 \in Nat /\ n - 1 \notin Bad
        <5>1. n - 1 \in Nat /\ ~(n <= n - 1)
          BY <3>3, <3>5
        <5> QED BY <5>1, <3>2
      <4>2. PICK g : g = F(g, n - 1)
        BY <4>1
      <4> DEFINE h == F(g, n)
      <4>3. \A k \in 1..(n - 1) : h[k] = g[k]
        <5> TAKE k \in 1..(n - 1)
        <5>1. k \in 1..n
          BY <3>3
        <5>2. h[k] = IF k = 1 THEN EntriesOf(d, d.root, <<>>)
                     ELSE Deeper(d, known, g[k - 1])
          BY <5>1
        <5>3. g[k] = F(g, n - 1)[k]
          BY <4>2
        <5>4. F(g, n - 1)[k] = IF k = 1 THEN EntriesOf(d, d.root, <<>>)
                     ELSE Deeper(d, known, g[k - 1])
          OBVIOUS
        <5> QED BY <5>2, <5>3, <5>4
      <4>4. \A k \in 1..n : k # 1 => h[k - 1] = g[k - 1]
        <5> TAKE k \in 1..n
        <5> HAVE k # 1
        <5>1. k - 1 \in 1..(n - 1)
          BY <3>3
        <5> HIDE DEF h
        <5> QED BY <5>1, <4>3
      <4>5. h = F(h, n)
        <5> HIDE DEF h
        <5>1. \A k \in 1..n :
                (IF k = 1 THEN EntriesOf(d, d.root, <<>>)
                     ELSE Deeper(d, known, g[k - 1]))
                = (IF k = 1 THEN EntriesOf(d, d.root, <<>>)
                     ELSE Deeper(d, known, h[k - 1]))
          BY <4>4
        <5>2. F(g, n) = F(h, n)
          BY <5>1
        <5> QED BY <5>2 DEF h
      <4> QED BY <4>5, <3>3
    <3> QED BY <3>4, <3>5
  <2>2. StackDepth + 1 \in Nat
    BY StackDepthAssumption
  <2> HIDE DEF F
  <2> QED BY <2>1, <2>2
<1>2. Level(d, known) = CHOOSE g : g = F(g, StackDepth + 1)
  BY DEF Level, Deeper
<1> QED BY <1>1, <1>2

\* One level, by the one above it.
LEMMA LevelOf ==
    ASSUME NEW d, NEW known, NEW k \in 1..(StackDepth + 1)
    PROVE  Level(d, known)[k] = IF k = 1 THEN EntriesOf(d, d.root, <<>>)
                                ELSE Deeper(d, known, Level(d, known)[k - 1])
<1> DEFINE L == Level(d, known)
<1>1. L = [m \in 1..(StackDepth + 1) |->
             IF m = 1 THEN EntriesOf(d, d.root, <<>>) ELSE Deeper(d, known, L[m - 1])]
  BY LevelIs
<1> HIDE DEF L
<1>2. L[k] = IF k = 1 THEN EntriesOf(d, d.root, <<>>) ELSE Deeper(d, known, L[k - 1])
  BY <1>1
<1> QED BY <1>2 DEF L

\* The paths of a document's properties are sequences of names.
Names(d) == DOMAIN d.definitions[d.root] \cup
            UNION {DOMAIN d.definitions[n] : n \in DOMAIN d.definitions}

\* The properties of a definition lie one name below it.
LEMMA EntriesAreNamed ==
    ASSUME NEW d, NEW n, n = d.root \/ n \in DOMAIN d.definitions,
           NEW path \in Seq(Names(d)), NEW e \in EntriesOf(d, n, path)
    PROVE  e.path \in Seq(Names(d)) /\ Len(e.path) = Len(path) + 1
<1>1. PICK m \in DOMAIN d.definitions[n] : e.path = Append(path, m)
  BY DEF EntriesOf
<1>2. m \in Names(d)
  BY DEF Names
<1> HIDE DEF Names
<1> QED BY <1>1, <1>2, AppendProperties

\* A property of the k-th level has a path of k names.
LEMMA PathsAreNamed ==
    ASSUME NEW d, NEW known, NEW k \in 1..(StackDepth + 1), NEW e \in Level(d, known)[k]
    PROVE  e.path \in Seq(Names(d)) /\ Len(e.path) = k
<1> DEFINE N == Names(d)
           Bad == {l \in 1..(StackDepth + 1) :
                     \E x \in Level(d, known)[l] : ~(x.path \in Seq(N) /\ Len(x.path) = l)}
<1> HIDE DEF N
<1>1. SUFFICES ASSUME Bad # {} PROVE FALSE
  BY DEF N
<1>2. PICK l \in Bad : \A m \in Bad : l <= m
  <2>1. Bad \in SUBSET Nat
    OBVIOUS
  <2> HIDE DEF Bad
  <2> QED BY <1>1, <2>1, LeastIsThere
<1>3. PICK x \in Level(d, known)[l] : ~(x.path \in Seq(N) /\ Len(x.path) = l)
  OBVIOUS
<1>4. l \in 1..(StackDepth + 1)
  OBVIOUS
<1>5. CASE l = 1
  <2>1. x \in EntriesOf(d, d.root, <<>>)
    BY <1>4, <1>5, LevelOf
  <2>2. << >> \in Seq(N) /\ Len(<< >>) = 0
    OBVIOUS
  <2>3. x.path \in Seq(N) /\ Len(x.path) = Len(<< >>) + 1
    BY <2>1, <2>2, EntriesAreNamed DEF N
  <2> QED BY <1>3, <1>5, <2>2, <2>3
<1>6. CASE l # 1
  <2>1. l - 1 \in 1..(StackDepth + 1) /\ ~(l <= l - 1)
    BY <1>4, <1>6, StackDepthAssumption
  <2>2. l - 1 \notin Bad
    BY <2>1, <1>2
  <2>3. x \in Deeper(d, known, Level(d, known)[l - 1])
    BY <1>4, <1>6, LevelOf
  <2>4. PICK y \in Level(d, known)[l - 1] :
           y.property.nested \in DOMAIN d.definitions /\ x \in EntriesOf(d, y.property.nested, y.path)
    BY <2>3 DEF Deeper, Opened
  <2>5. y.path \in Seq(N) /\ Len(y.path) = l - 1
    BY <2>1, <2>2
  <2>6. x.path \in Seq(N) /\ Len(x.path) = (l - 1) + 1
    BY <2>4, <2>5, EntriesAreNamed DEF N
  <2> QED BY <1>3, <1>4, <2>6
<1> QED BY <1>5, <1>6

\* And the parents' names.
PathNames(d) == Names(d) \cup d.parents

\* So does one of the resource's schema.
LEMMA SchemaIsNamed ==
    ASSUME NEW d, NEW s \in GetResourceSchema(d)
    PROVE  s.path \in Seq(PathNames(d)) /\ Len(s.path) \in Nat \ {0}
<1>1. CASE \E k \in 1..StackDepth : \E e \in Level(d, TRUE)[k] : s = CreateProperty(e)
  <2>1. PICK k \in 1..StackDepth : \E e \in Level(d, TRUE)[k] : s = CreateProperty(e)
    BY <1>1
  <2>0. PICK e \in Level(d, TRUE)[k] : s = CreateProperty(e)
    BY <2>1
  <2>2. s.path = e.path
    BY <2>0 DEF CreateProperty
  <2>3. k \in 1..(StackDepth + 1)
    BY <2>1, StackDepthAssumption
  <2>4. e.path \in Seq(Names(d)) /\ Len(e.path) = k
    BY <2>1, <2>3, PathsAreNamed
  <2>5. Names(d) \subseteq PathNames(d)
    BY DEF PathNames
  <2> HIDE DEF PathNames, Names
  <2> QED BY <2>2, <2>4, <2>5, SeqMonotonic
<1>2. CASE \E name \in d.parents : s = ParentProperty(name)
  <2>0. PICK name \in d.parents : s = ParentProperty(name)
    BY <1>2
  <2>1. s.path = <<name>>
    BY <2>0 DEF ParentProperty
  <2>2. name \in PathNames(d)
    BY DEF PathNames
  <2> QED BY <2>1, <2>2
<1> QED BY <1>1, <1>2 DEF GetResourceSchema

-----------------------------------------------------------------------------
(* The properties that have a role                                         *)

\* Prefixes of a path, and what they are nested in.
LEMMA FrontIs ==
    ASSUME NEW S, NEW p \in Seq(S), NEW k \in 1..Len(p)
    PROVE  /\ SubSeq(p, 1, k) \in Seq(S) /\ Len(SubSeq(p, 1, k)) = k
           /\ Front(SubSeq(p, 1, k)) = SubSeq(p, 1, k - 1)
<1>1. SubSeq(p, 1, k) \in Seq(S) /\ Len(SubSeq(p, 1, k)) = k
  BY SubSeqProperties
<1>2. SubSeq(SubSeq(p, 1, k), 1, k - 1) = SubSeq(p, 1, k - 1)
  OBVIOUS
<1> QED BY <1>1, <1>2 DEF Front

\* At one level a single property is the status.
LEMMA OneBeside ==
    ASSUME NEW schema, OneClaim(schema, "status", "status"), NEW path
    PROVE  AtMostOne(StatusesBeside(schema, path))
<1> SUFFICES ASSUME NEW s \in StatusesBeside(schema, path), NEW t \in StatusesBeside(schema, path)
             PROVE  s = t
  BY DEF AtMostOne
<1> DEFINE beside == {x \in schema : /\ Front(x.path) = Front(path)
                                     /\ Len(path) = 1 => ~NamedID(x)}
           marked == {x \in beside : ~NamedStatus(x) /\ "status" \in x.marks}
<1>1. StatusesBeside(schema, path) =
        IF marked # {} THEN marked ELSE {x \in beside : NamedStatus(x)}
  BY DEF StatusesBeside
<1>2. s \in beside /\ t \in beside
  BY <1>1
<1>3. s \in schema /\ t \in Siblings(schema, s) /\ s \in Siblings(schema, s)
  BY <1>2 DEF Siblings
<1>4. CASE marked # {}
  <2>1. s \in marked /\ t \in marked
    BY <1>1, <1>4
  <2> QED BY <1>3, <2>1 DEF OneClaim, AtMostOne, NamedStatus
<1>5. CASE marked = {}
  <2>1. NamedStatus(s) /\ NamedStatus(t)
    BY <1>1, <1>5
  <2> QED BY <1>3, <2>1 DEF OneClaim, AtMostOne, NamedStatus
<1> QED BY <1>4, <1>5

\* What the status is does not depend on the property, but for where it is.
LEMMA BesideIs ==
    ASSUME NEW schema, NEW p, NEW q, Front(p) = Front(q), Len(p) = Len(q)
    PROVE  StatusesBeside(schema, p) = StatusesBeside(schema, q)
BY DEF StatusesBeside

\* Two ways down to a status agree at each level, and end at the same.
LEMMA OneStatus ==
    ASSUME NEW S, NEW schema, \A s \in schema : s.path \in Seq(S) /\ Len(s.path) # 0,
           OneClaim(schema, "status", "status")
    PROVE  AtMostOne(StatusIdentifiers(schema))
<1> SUFFICES ASSUME NEW p \in StatusIdentifiers(schema), NEW q \in StatusIdentifiers(schema)
             PROVE  p = q
  BY DEF AtMostOne
<1> DEFINE StepTo(r, k, at) == /\ at \in StatusesBeside(schema, SubSeq(r, 1, k))
                               /\ at.path = SubSeq(r, 1, k)
                               /\ k < Len(r) <=> at.type = "object"
<1>1. \A r \in StatusIdentifiers(schema) :
         /\ r \in Seq(S) /\ Len(r) \in Nat \ {0}
         /\ \A k \in 1..Len(r) : \E at : StepTo(r, k, at)
  <2> TAKE r \in StatusIdentifiers(schema)
  <2>1. PICK s \in schema :
          /\ r = s.path
          /\ \A k \in 1..Len(s.path) : \E at \in StatusesBeside(schema, SubSeq(s.path, 1, k)) :
                /\ at.path = SubSeq(s.path, 1, k)
                /\ k < Len(s.path) <=> at.type = "object"
    BY DEF StatusIdentifiers
  <2> QED BY <2>1
<1>2. ASSUME NEW k \in Nat, k <= Len(p), k <= Len(q), k # 0,
             SubSeq(p, 1, k - 1) = SubSeq(q, 1, k - 1)
      PROVE  /\ SubSeq(p, 1, k) = SubSeq(q, 1, k)
             /\ k < Len(p) <=> k < Len(q)
  <2>1. k \in 1..Len(p) /\ k \in 1..Len(q) /\ p \in Seq(S) /\ q \in Seq(S)
    BY <1>1, <1>2
  <2>2. PICK at : StepTo(p, k, at)
    BY <1>1, <2>1
  <2>3. PICK bt : StepTo(q, k, bt)
    BY <1>1, <2>1
  <2>4. StatusesBeside(schema, SubSeq(p, 1, k)) = StatusesBeside(schema, SubSeq(q, 1, k))
    <3>1. /\ Front(SubSeq(p, 1, k)) = SubSeq(p, 1, k - 1) /\ Len(SubSeq(p, 1, k)) = k
          /\ Front(SubSeq(q, 1, k)) = SubSeq(q, 1, k - 1) /\ Len(SubSeq(q, 1, k)) = k
      BY <2>1, FrontIs
    <3> QED BY <1>2, <3>1, BesideIs
  <2>5. at = bt
    BY <2>2, <2>3, <2>4, OneBeside DEF AtMostOne
  <2> QED BY <2>2, <2>3, <2>5
<1> HIDE DEF StepTo
<1> DEFINE Bad == {k \in Nat : k <= Len(p) /\ k <= Len(q) /\ SubSeq(p, 1, k) # SubSeq(q, 1, k)}
<1>3. Bad = {}
  <2> SUFFICES ASSUME Bad # {} PROVE FALSE
    OBVIOUS
  <2>1. PICK k \in Bad : \A m \in Bad : k <= m
    <3>1. Bad \in SUBSET Nat
      OBVIOUS
    <3> HIDE DEF Bad
    <3> QED BY <3>1, LeastIsThere
  <2>2. k \in Nat /\ k <= Len(p) /\ k <= Len(q) /\ SubSeq(p, 1, k) # SubSeq(q, 1, k)
    OBVIOUS
  <2>3. k # 0
    BY <2>2, SubSeqEmpty
  <2>4. k - 1 \in Nat /\ k - 1 <= Len(p) /\ k - 1 <= Len(q) /\ ~(k <= k - 1)
    BY <1>1, <2>2, <2>3
  <2>5. SubSeq(p, 1, k - 1) = SubSeq(q, 1, k - 1)
    BY <2>1, <2>4
  <2> QED BY <1>2, <2>2, <2>3, <2>5
<1>4. Len(p) \in Nat \ {0} /\ Len(q) \in Nat \ {0} /\ p \in Seq(S) /\ q \in Seq(S)
  BY <1>1
<1>5. Len(p) = Len(q)
  <2>1. ASSUME NEW k \in Nat \ {0}, k <= Len(p), k <= Len(q)
        PROVE  k < Len(p) <=> k < Len(q)
    <3>1. k - 1 \in Nat /\ k - 1 <= Len(p) /\ k - 1 <= Len(q)
      BY <1>4, <2>1
    <3>2. SubSeq(p, 1, k - 1) = SubSeq(q, 1, k - 1)
      BY <1>3, <3>1
    <3> QED BY <1>2, <2>1, <3>2
  <2> QED BY <1>4, <2>1
<1>6. SubSeq(p, 1, Len(p)) = SubSeq(q, 1, Len(q))
  BY <1>3, <1>4, <1>5
<1> QED BY <1>4, <1>6, SubSeqFull

\* The way down to the status starts at the property that is marked.
LEMMA MarkedStatus ==
    ASSUME NEW S, NEW schema, \A s \in schema : s.path \in Seq(S) /\ Len(s.path) # 0,
           OneClaim(schema, "status", "status"),
           NEW path \in StatusIdentifiers(schema), NEW s \in Top(schema),
           "status" \in s.marks, ~NamedID(s), ~NamedStatus(s)
    PROVE  path[1] = s.path[1]
<1>1. path \in Seq(S) /\ Len(path) \in Nat \ {0}
  BY DEF StatusIdentifiers
<1>2. 1 \in 1..Len(path)
  BY <1>1
<1> DEFINE first == SubSeq(path, 1, 1)
<1>3. PICK at \in StatusesBeside(schema, first) : at.path = first
  <2>1. \A k \in 1..Len(path) : \E at \in StatusesBeside(schema, SubSeq(path, 1, k)) :
           at.path = SubSeq(path, 1, k)
    BY DEF StatusIdentifiers
  <2> QED BY <1>2, <2>1
<1>4. Len(first) = 1 /\ Front(first) = SubSeq(path, 1, 0) /\ first[1] = path[1]
  BY <1>1, <1>2, FrontIs
<1>5. s \in schema /\ s.path \in Seq(S) /\ Len(s.path) = 1
  BY DEF Top
<1>6. Front(s.path) = << >> /\ Front(first) = << >>
  BY <1>4, <1>5, SubSeqEmpty DEF Front
<1>7. s \in StatusesBeside(schema, first)
  BY <1>4, <1>5, <1>6 DEF StatusesBeside
<1>8. s = at
  BY <1>3, <1>7, OneBeside DEF AtMostOne
<1> QED BY <1>3, <1>4, <1>8

\* A single property is the identifier, the one that is marked.
LEMMA OneIdentifierOf ==
    ASSUME NEW S, NEW schema, \A s \in schema : s.path \in Seq(S) /\ Len(s.path) # 0,
           OneClaim(schema, "id", "id")
    PROVE  /\ AtMostOne(ResourceIdentifiers(schema))
           /\ \A n \in ResourceIdentifiers(schema) : \A s \in Top(schema) :
                 "id" \in s.marks /\ ~NamedID(s) => n = s.path[1]
<1> DEFINE marked == {s \in Top(schema) : ~NamedID(s) /\ "id" \in s.marks}
           named == {s \in Top(schema) : NamedID(s)}
<1>1. ResourceIdentifiers(schema) = {s.path[1] : s \in IF marked # {} THEN marked ELSE named}
  BY DEF ResourceIdentifiers
<1>2. \A s, t \in Top(schema) : s \in schema /\ t \in Siblings(schema, s)
  <2> TAKE s, t \in Top(schema)
  <2>1. /\ s \in schema /\ s.path \in Seq(S) /\ Len(s.path) = 1
        /\ t \in schema /\ t.path \in Seq(S) /\ Len(t.path) = 1
    BY DEF Top
  <2>2. Front(s.path) = << >> /\ Front(t.path) = << >>
    BY <2>1, SubSeqEmpty DEF Front
  <2> QED BY <2>1, <2>2 DEF Siblings
<1>3. \A s, t \in marked : s = t
  BY <1>2 DEF OneClaim, AtMostOne, NamedID
<1>4. \A s, t \in named : s = t
  BY <1>2 DEF OneClaim, AtMostOne, NamedID
<1> HIDE DEF marked, named
<1>5. AtMostOne(ResourceIdentifiers(schema))
  <2>1. CASE marked # {}
    BY <1>1, <1>3, <2>1 DEF AtMostOne
  <2>2. CASE marked = {}
    BY <1>1, <1>4, <2>2 DEF AtMostOne
  <2> QED BY <2>1, <2>2
<1>6. ASSUME NEW n \in ResourceIdentifiers(schema), NEW s \in Top(schema),
             "id" \in s.marks, ~NamedID(s)
      PROVE  n = s.path[1]
  <2>1. s \in marked
    BY <1>6 DEF marked
  <2> QED BY <1>1, <1>5, <1>6, <2>1 DEF AtMostOne
<1> QED BY <1>5, <1>6

(***************************************************************************)
(* Every look-up of the identifier and the status finds the same property, *)
(* the one that is marked if one is, whatever order the properties come    *)
(* in, for every document in which no two claim to be it                   *)
(* (getResourceIdentifier, getStatusIdentifier).                           *)
(***************************************************************************)
THEOREM RolesDoNotChange == Spec => []RolesAreStable
<1>1. RolesAreStable
  <2> DEFINE schema == GetResourceSchema(doc)
  <2>1. \A s \in schema : s.path \in Seq(PathNames(doc)) /\ Len(s.path) # 0
    BY SchemaIsNamed
  <2> HIDE DEF schema
  <2>2. OneClaim(schema, "status", "status") =>
              /\ AtMostOne(StatusIdentifiers(schema))
              /\ \A path \in StatusIdentifiers(schema) : \A s \in Top(schema) :
                    "status" \in s.marks /\ ~NamedID(s) /\ ~NamedStatus(s)
                        => path[1] = s.path[1]
    BY <2>1, OneStatus, MarkedStatus
  <2>3. OneClaim(schema, "id", "id") =>
              /\ AtMostOne(ResourceIdentifiers(schema))
              /\ \A n \in ResourceIdentifiers(schema) : \A s \in Top(schema) :
                    "id" \in s.marks /\ ~NamedID(s) => n = s.path[1]
    BY <2>1, OneIdentifierOf
  <2> QED BY <2>2, <2>3 DEF RolesAreStable, schema
<1> QED BY <1>1, PTL

-----------------------------------------------------------------------------
(* Properties and their paths                                              *)

\* What a name appended to a path leaves alone.
LEMMA AppendIs ==
    ASSUME NEW S, NEW p \in Seq(S), NEW x \in S
    PROVE  /\ Append(p, x) \in Seq(S) /\ Len(Append(p, x)) = Len(p) + 1
           /\ Front(Append(p, x)) = p /\ Last(Append(p, x)) = x
<1>1. Append(p, x) \in Seq(S) /\ Len(Append(p, x)) = Len(p) + 1
  BY AppendProperties
<1>2. SubSeq(Append(p, x), 1, Len(p)) = p
  BY <1>1, SubSeqFull
<1>3. Append(p, x)[Len(p) + 1] = x
  OBVIOUS
<1> QED BY <1>1, <1>2, <1>3 DEF Front, Last

\* Where a property is nested.
LEMMA NestedIn ==
    ASSUME NEW d, NEW known, NEW k \in 1..(StackDepth + 1), k # 1,
           NEW e \in Level(d, known)[k]
    PROVE  \E y \in Level(d, known)[k - 1] :
              /\ y.property.nested \in DOMAIN d.definitions
              /\ \E n \in DOMAIN d.definitions[y.property.nested] :
                    /\ n \in Names(d)
                    /\ e = [path |-> Append(y.path, n),
                            property |-> d.definitions[y.property.nested][n]]
              /\ Front(e.path) = y.path
<1>1. e \in Deeper(d, known, Level(d, known)[k - 1])
  BY LevelOf
<1>2. PICK y \in Level(d, known)[k - 1] :
         y.property.nested \in DOMAIN d.definitions /\ e \in EntriesOf(d, y.property.nested, y.path)
  BY <1>1 DEF Deeper, Opened
<1>3. PICK n \in DOMAIN d.definitions[y.property.nested] :
         e = [path |-> Append(y.path, n), property |-> d.definitions[y.property.nested][n]]
  BY <1>2 DEF EntriesOf
<1>4. n \in Names(d)
  BY <1>2, <1>3 DEF Names
<1>5. k - 1 \in 1..(StackDepth + 1)
  BY StackDepthAssumption
<1>6. y.path \in Seq(Names(d))
  BY <1>5, PathsAreNamed
<1>7. Front(e.path) = y.path
  BY <1>3, <1>4, <1>6, AppendIs
<1> QED BY <1>2, <1>3, <1>4, <1>7

\* The same, of the path alone.
LEMMA NestedFront ==
    ASSUME NEW d, NEW known, NEW k \in 1..(StackDepth + 1), k # 1,
           NEW e \in Level(d, known)[k]
    PROVE  \E y \in Level(d, known)[k - 1] : Front(e.path) = y.path
<1>1. PICK y \in Level(d, known)[k - 1] : Front(e.path) = y.path
  BY NestedIn
<1> QED BY <1>1

\* Two properties of a level have two paths.
LEMMA OnePath ==
    ASSUME NEW d, NEW known, NEW k \in 1..(StackDepth + 1),
           NEW e \in Level(d, known)[k], NEW f \in Level(d, known)[k], e.path = f.path
    PROVE  e = f
<1> DEFINE Bad == {l \in 1..(StackDepth + 1) :
                     \E x, y \in Level(d, known)[l] : x.path = y.path /\ x # y}
<1>1. SUFFICES ASSUME Bad # {} PROVE FALSE
  OBVIOUS
<1>2. PICK l \in Bad : \A m \in Bad : l <= m
  <2>1. Bad \in SUBSET Nat
    OBVIOUS
  <2> HIDE DEF Bad
  <2> QED BY <1>1, <2>1, LeastIsThere
<1>3. PICK x \in Level(d, known)[l], y \in Level(d, known)[l] : x.path = y.path /\ x # y
  OBVIOUS
<1>4. l \in 1..(StackDepth + 1)
  OBVIOUS
<1>5. CASE l = 1
  <2>1. x \in EntriesOf(d, d.root, <<>>) /\ y \in EntriesOf(d, d.root, <<>>)
    BY <1>4, <1>5, LevelOf
  <2>2. PICK n \in DOMAIN d.definitions[d.root] :
           x = [path |-> Append(<<>>, n), property |-> d.definitions[d.root][n]]
    BY <2>1 DEF EntriesOf
  <2>3. PICK m \in DOMAIN d.definitions[d.root] :
           y = [path |-> Append(<<>>, m), property |-> d.definitions[d.root][m]]
    BY <2>1 DEF EntriesOf
  <2>4. << >> \in Seq({n, m}) /\ n \in {n, m} /\ m \in {n, m}
    OBVIOUS
  <2>5. Last(x.path) = n /\ Last(y.path) = m
    BY <2>2, <2>3, <2>4, AppendIs
  <2> QED BY <1>3, <2>2, <2>3, <2>5
<1>6. CASE l # 1
  <2>1. PICK v \in Level(d, known)[l - 1] :
           /\ \E n \in DOMAIN d.definitions[v.property.nested] :
                    /\ n \in Names(d)
                    /\ x = [path |-> Append(v.path, n),
                            property |-> d.definitions[v.property.nested][n]]
           /\ Front(x.path) = v.path
    BY <1>4, <1>6, NestedIn
  <2>2. PICK w \in Level(d, known)[l - 1] :
           /\ \E n \in DOMAIN d.definitions[w.property.nested] :
                    /\ n \in Names(d)
                    /\ y = [path |-> Append(w.path, n),
                            property |-> d.definitions[w.property.nested][n]]
           /\ Front(y.path) = w.path
    BY <1>4, <1>6, NestedIn
  <2>3. l - 1 \in 1..(StackDepth + 1) /\ ~(l <= l - 1)
    BY <1>4, <1>6, StackDepthAssumption
  <2>4. v = w
    BY <1>2, <1>3, <2>1, <2>2, <2>3
  <2>5. PICK n \in DOMAIN d.definitions[v.property.nested] :
           n \in Names(d) /\ x = [path |-> Append(v.path, n),
                            property |-> d.definitions[v.property.nested][n]]
    BY <2>1
  <2>6. PICK m \in DOMAIN d.definitions[v.property.nested] :
           m \in Names(d) /\ y = [path |-> Append(v.path, m),
                            property |-> d.definitions[v.property.nested][m]]
    BY <2>2, <2>4
  <2>7. v.path \in Seq(Names(d))
    BY <2>3, PathsAreNamed
  <2>8. Last(x.path) = n /\ Last(y.path) = m
    BY <2>5, <2>6, <2>7, AppendIs
  <2> QED BY <1>3, <2>5, <2>6, <2>8
<1> QED BY <1>5, <1>6

-----------------------------------------------------------------------------
(* The document's properties                                               *)

\* A property's level is the length of its path.
LEMMA DocumentPaths ==
    ASSUME NEW e \in DocumentProperties
    PROVE  /\ e.path \in Seq(PathNames(doc)) /\ Len(e.path) \in 1..StackDepth
           /\ e \in Level(doc, TRUE)[Len(e.path)]
<1>1. PICK k \in 1..StackDepth : e \in Level(doc, TRUE)[k]
  BY DEF DocumentProperties
<1>2. k \in 1..(StackDepth + 1)
  BY StackDepthAssumption
<1>3. e.path \in Seq(Names(doc)) /\ Len(e.path) = k
  BY <1>1, <1>2, PathsAreNamed
<1>4. Names(doc) \subseteq PathNames(doc)
  BY DEF PathNames
<1>5. e.path \in Seq(PathNames(doc))
  BY <1>3, <1>4, SeqMonotonic
<1> QED BY <1>1, <1>3, <1>5

\* Levels are numbers, and all but the first lie below another.
LEMMA Depths ==
    ASSUME NEW k \in 1..StackDepth
    PROVE  /\ k \in 1..(StackDepth + 1) /\ k \in Nat
           /\ k # 1 => k - 1 \in 1..StackDepth
BY StackDepthAssumption

\* Two properties of the document have two paths.
LEMMA OneDocumented ==
    ASSUME NEW e \in DocumentProperties, NEW f \in DocumentProperties, e.path = f.path
    PROVE  e = f
<1>1. Len(e.path) \in 1..(StackDepth + 1)
  BY DocumentPaths, Depths
<1>2. e \in Level(doc, TRUE)[Len(e.path)] /\ f \in Level(doc, TRUE)[Len(f.path)]
  BY DocumentPaths
<1> QED BY <1>1, <1>2, OnePath

\* What a property is nested in is a property as well.
LEMMA DocumentAbove ==
    ASSUME NEW e \in DocumentProperties, Len(e.path) # 1
    PROVE  \E y \in DocumentProperties : y.path = Front(e.path)
<1>1. Len(e.path) \in 1..StackDepth /\ e \in Level(doc, TRUE)[Len(e.path)]
  BY DocumentPaths
<1>2. Len(e.path) \in 1..(StackDepth + 1) /\ Len(e.path) - 1 \in 1..StackDepth
  BY <1>1, Depths
<1> DEFINE d == doc
           k == Len(e.path)
<1>0. k \in 1..(StackDepth + 1) /\ k # 1 /\ e \in Level(d, TRUE)[k]
  BY <1>1, <1>2
<1> HIDE DEF d, k
<1>3. PICK y \in Level(d, TRUE)[k - 1] : Front(e.path) = y.path
  BY <1>0, NestedFront
<1> USE DEF d, k
<1> QED BY <1>2, <1>3 DEF DocumentProperties

\* The first names of a path are a prefix of it.
LEMMA PrefixIs ==
    ASSUME NEW S, NEW p \in Seq(S), NEW j \in 0..Len(p)
    PROVE  IsPrefix(SubSeq(p, 1, j), p) /\ Len(SubSeq(p, 1, j)) = j /\ SubSeq(p, 1, j) \in Seq(S)
<1>1. SubSeq(p, 1, j) \in Seq(S) /\ Len(SubSeq(p, 1, j)) = j
  BY SubSeqProperties
<1>2. SubSeq(SubSeq(p, 1, j), 1, j) = SubSeq(p, 1, j)
  BY <1>1, SubSeqFull
<1> QED BY <1>1, <1>2 DEF IsPrefix

\* All names but the last, and the prefixes they have.
LEMMA FrontOfSubSeq ==
    ASSUME NEW S, NEW p \in Seq(S), Len(p) # 0
    PROVE  /\ Front(p) = SubSeq(p, 1, Len(p) - 1) /\ Len(Front(p)) = Len(p) - 1
           /\ Front(p) \in Seq(S)
           /\ \A j \in 0..(Len(p) - 1) : SubSeq(Front(p), 1, j) = SubSeq(p, 1, j)
<1>1. Len(p) \in Nat \ {0}
  BY LenProperties
<1>2. Len(p) - 1 \in 0..Len(p)
  BY <1>1
<1>3. Len(SubSeq(p, 1, Len(p) - 1)) = Len(p) - 1 /\ SubSeq(p, 1, Len(p) - 1) \in Seq(S)
  BY <1>2, PrefixIs
<1>4. \A j \in 0..(Len(p) - 1) : SubSeq(SubSeq(p, 1, Len(p) - 1), 1, j) = SubSeq(p, 1, j)
  BY <1>1
<1> QED BY <1>3, <1>4 DEF Front

\* Every property is nested in properties of its lineage, one at each level.
LEMMA LineageIs ==
    ASSUME NEW e \in DocumentProperties, NEW j \in 1..Len(e.path)
    PROVE  \E x \in Lineage(e) : x.path = SubSeq(e.path, 1, j) /\ Len(x.path) = j
<1> DEFINE N == PathNames(doc)
           Bad == {k \in Nat : \E y \in DocumentProperties :
                     /\ Len(y.path) = k
                     /\ \E i \in 1..k : \A x \in DocumentProperties : x.path # SubSeq(y.path, 1, i)}
<1> HIDE DEF N
<1>1. Bad = {}
  <2> SUFFICES ASSUME Bad # {} PROVE FALSE
    OBVIOUS
  <2>1. PICK k \in Bad : \A m \in Bad : k <= m
    <3>1. Bad \in SUBSET Nat
      OBVIOUS
    <3> HIDE DEF Bad
    <3> QED BY <3>1, LeastIsThere
  <2>2. PICK y \in DocumentProperties :
          /\ Len(y.path) = k
          /\ \E i \in 1..k : \A x \in DocumentProperties : x.path # SubSeq(y.path, 1, i)
    OBVIOUS
  <2>3. PICK i \in 1..k : \A x \in DocumentProperties : x.path # SubSeq(y.path, 1, i)
    BY <2>2
  <2>4. y.path \in Seq(N) /\ k \in 1..StackDepth
    BY <2>2, DocumentPaths DEF N
  <2>5. i # k
    BY <2>2, <2>3, <2>4, SubSeqFull
  <2>6. k # 1 /\ i \in 1..(k - 1) /\ k - 1 \in Nat /\ ~(k <= k - 1)
    BY <2>3, <2>4, <2>5, StackDepthAssumption
  <2>7. PICK z \in DocumentProperties : z.path = Front(y.path)
    BY <2>2, <2>6, DocumentAbove
  <2>8. Len(z.path) = k - 1 /\ SubSeq(z.path, 1, i) = SubSeq(y.path, 1, i)
    <3>1. Len(y.path) # 0 /\ i \in 0..(Len(y.path) - 1)
      BY <2>2, <2>4, <2>6
    <3> QED BY <2>2, <2>4, <2>7, <3>1, FrontOfSubSeq
  <2>9. k - 1 \in Bad
    BY <2>3, <2>6, <2>8
  <2> QED BY <2>1, <2>6, <2>9
<1>2. Len(e.path) \in Nat /\ e.path \in Seq(N)
  BY DocumentPaths, Depths DEF N
<1>3. \E x \in DocumentProperties : x.path = SubSeq(e.path, 1, j)
  BY <1>1, <1>2
<1>4. IsPrefix(SubSeq(e.path, 1, j), e.path) /\ Len(SubSeq(e.path, 1, j)) = j
  BY <1>2, PrefixIs
<1> QED BY <1>3, <1>4 DEF Lineage

\* A property of the lineage gives its name to its level.
LEMMA LineagePath ==
    ASSUME NEW e \in DocumentProperties, NEW x \in Lineage(e)
    PROVE  /\ x \in DocumentProperties
           /\ Len(x.path) \in 1..Len(e.path)
           /\ x.path = SubSeq(e.path, 1, Len(x.path))
           /\ InTerraform(e)[Len(x.path)] = NameInTerraform(x)
<1>1. x \in DocumentProperties /\ IsPrefix(x.path, e.path)
  BY DEF Lineage
<1>2. x.path \in Seq(PathNames(doc)) /\ Len(x.path) \in 1..StackDepth
      /\ e.path \in Seq(PathNames(doc)) /\ Len(e.path) \in 1..StackDepth
  BY <1>1, DocumentPaths
<1>3. Len(x.path) <= Len(e.path) /\ x.path = SubSeq(e.path, 1, Len(x.path))
  BY <1>1, <1>2, SubSeqFull DEF IsPrefix
<1>4. Len(x.path) \in 1..Len(e.path)
  BY <1>2, <1>3
<1>5. \A y \in Lineage(e) : Len(y.path) = Len(x.path) => y = x
  <2> TAKE y \in Lineage(e)
  <2> HAVE Len(y.path) = Len(x.path)
  <2>1. y \in DocumentProperties /\ IsPrefix(y.path, e.path)
    BY DEF Lineage
  <2>2. y.path \in Seq(PathNames(doc))
    BY <2>1, DocumentPaths
  <2>3. y.path = SubSeq(e.path, 1, Len(y.path))
    BY <2>1, <2>2, SubSeqFull DEF IsPrefix
  <2> QED BY <1>1, <1>3, <2>1, <2>3, OneDocumented
<1>6. (CHOOSE y \in Lineage(e) : Len(y.path) = Len(x.path)) = x
  BY <1>5
<1>7. DOMAIN e.path = 1..Len(e.path)
  BY <1>2
<1> QED BY <1>1, <1>3, <1>4, <1>6, <1>7 DEF InTerraform

-----------------------------------------------------------------------------
(* Schemas that have the document's properties and the parents'            *)

\* A schema's property is made of this one of the document.
Documented(e, s) ==
    s.path = e.path /\ s.preferred = e.property.preferred
Own == {e \in DocumentProperties : e.path[1] \notin doc.parents}

\* The document's properties, but for those that parents replace, and parents'.
Reflects(schema) ==
    /\ \A e \in Own : \E s \in schema : Documented(e, s)
    /\ \A n \in doc.parents : ParentProperty(n) \in schema
    /\ \A s \in schema : \/ \E n \in doc.parents : s = ParentProperty(n)
                         \/ \E e \in Own : Documented(e, s)
    /\ \A s, t \in schema : s.path = t.path => s = t

\* The resource's schema does.
LEMMA ResourceReflects == Reflects(GetResourceSchema(doc))
<1> DEFINE schema == GetResourceSchema(doc)
<1>1. schema = {CreateProperty(e) : e \in Own} \cup {ParentProperty(n) : n \in doc.parents}
  BY DEF GetResourceSchema, Own, DocumentProperties
<1>2. \A e \in Own : Documented(e, CreateProperty(e))
  BY DEF Documented, CreateProperty
<1>3. \A n \in doc.parents : ParentProperty(n).path = <<n>> /\ ParentProperty(n).path[1] = n
  BY DEF ParentProperty
<1>4. \A s \in schema : \/ \E n \in doc.parents : s = ParentProperty(n)
                        \/ \E e \in Own : s = CreateProperty(e)
  BY <1>1
<1>5. \A e \in Own : CreateProperty(e).path = e.path
  BY DEF CreateProperty
<1>6. ASSUME NEW s \in schema, NEW t \in schema, s.path = t.path
      PROVE  s = t
  <2>1. CASE \E e \in Own : s = CreateProperty(e)
    <3>1. PICK e \in Own : s = CreateProperty(e)
      BY <2>1
    <3>2. s.path = e.path /\ e.path[1] \notin doc.parents
      BY <1>5, <3>1 DEF Own
    <3>3. PICK f \in Own : t = CreateProperty(f)
      <4> HIDE DEF schema
      <4> QED BY <1>3, <1>4, <1>6, <3>2
    <3>4. t.path = f.path
      BY <1>5, <3>3
    <3>5. e = f
      BY <1>6, <3>2, <3>4, OneDocumented DEF Own
    <3> QED BY <3>1, <3>3, <3>5
  <2>2. CASE \E n \in doc.parents : s = ParentProperty(n)
    <3>1. PICK n \in doc.parents : s = ParentProperty(n)
      BY <2>2
    <3>2. s.path = <<n>> /\ s.path[1] = n
      BY <1>3, <3>1
    <3>3. PICK m \in doc.parents : t = ParentProperty(m)
      <4> HIDE DEF schema
      <4>1. \A e \in Own : e.path[1] \notin doc.parents
        BY DEF Own
      <4> QED BY <1>4, <1>5, <1>6, <3>2, <4>1
    <3>4. t.path[1] = m
      BY <1>3, <3>3
    <3> QED BY <1>6, <3>1, <3>2, <3>3, <3>4
  <2> QED BY <1>4, <2>1, <2>2
<1> QED BY <1>1, <1>2, <1>4, <1>6 DEF Reflects

\* ConvertToDataSource, of one property.
Sourced(s) ==
    IF s.parent THEN s
    ELSE [s EXCEPT !.required = FALSE, !.computed = TRUE, !.default = ""]

\* A data source's properties are computed and nothing else.
LEMMA SourcedIs ==
    ASSUME NEW e
    PROVE  /\ Sourced(CreateProperty(e)).path = e.path
           /\ Sourced(CreateProperty(e)).preferred = e.property.preferred
           /\ ~Sourced(CreateProperty(e)).required
           /\ Sourced(CreateProperty(e)).computed
           /\ Sourced(CreateProperty(e)).default = ""
BY DEF Sourced, CreateProperty

\* And so does the data sources'.
LEMMA DataSourceReflects == Reflects(DataSourceSchema)
<1> DEFINE schema == GetResourceSchema(doc)
<1>1. DataSourceSchema = {Sourced(s) : s \in schema}
  BY DEF DataSourceSchema, ConvertToDataSource, Sourced
<1>2. schema = {CreateProperty(e) : e \in Own} \cup {ParentProperty(n) : n \in doc.parents}
  BY DEF GetResourceSchema, Own, DocumentProperties
<1>3. \A n \in doc.parents : Sourced(ParentProperty(n)) = ParentProperty(n)
  BY DEF Sourced, ParentProperty
<1>4. \A n \in doc.parents : ParentProperty(n).path = <<n>> /\ ParentProperty(n).path[1] = n
  BY DEF ParentProperty
<1>5. \A e \in Own : CreateProperty(e).path = e.path
  BY DEF CreateProperty
<1>6. \A s \in schema : Sourced(s).path = s.path
  <2> TAKE s \in schema
  <2>1. CASE \E e \in Own : s = CreateProperty(e)
    BY <1>5, <2>1, SourcedIs
  <2>2. CASE \E n \in doc.parents : s = ParentProperty(n)
    BY <1>3, <2>2
  <2> QED BY <1>2, <2>1, <2>2
<1> HIDE DEF schema
<1>7. \A e \in Own : Documented(e, Sourced(CreateProperty(e)))
  BY SourcedIs DEF Documented
<1>8. \A s, t \in schema : s.path = t.path => s = t
  BY ResourceReflects DEF Reflects, schema
<1>9. \A s, t \in DataSourceSchema : s.path = t.path => s = t
  BY <1>1, <1>6, <1>8
<1>10. \A e \in Own : Sourced(CreateProperty(e)) \in DataSourceSchema
  BY <1>1, <1>2
<1>11. \A n \in doc.parents : ParentProperty(n) \in DataSourceSchema
  BY <1>1, <1>2, <1>3
<1>12. \A s \in DataSourceSchema : \/ \E n \in doc.parents : s = ParentProperty(n)
                                   \/ \E e \in Own : s = Sourced(CreateProperty(e))
  BY <1>1, <1>2, <1>3
<1> QED BY <1>7, <1>9, <1>10, <1>11, <1>12 DEF Reflects

\* What Terraform calls a property depends on its path and its preferred name.
LEMMA DocumentedName ==
    ASSUME NEW e, NEW s, Documented(e, s)
    PROVE  TerraformName(s) = NameInTerraform(e)
BY DEF Documented, TerraformName, NameInTerraform

\* Its properties lie at paths of names.
LEMMA ReflectedPaths ==
    ASSUME NEW schema, Reflects(schema), NEW s \in schema
    PROVE  s.path \in Seq(PathNames(doc)) /\ Len(s.path) \in Nat \ {0}
<1>1. CASE \E n \in doc.parents : s = ParentProperty(n)
  <2>1. PICK n \in doc.parents : s = ParentProperty(n)
    BY <1>1
  <2>2. s.path = <<n>>
    BY <2>1 DEF ParentProperty
  <2>3. n \in PathNames(doc)
    BY DEF PathNames
  <2> HIDE DEF PathNames
  <2>4. <<n>> \in Seq(PathNames(doc)) /\ Len(<<n>>) = 1
    BY <2>3
  <2> QED BY <2>2, <2>4
<1>2. CASE \E e \in Own : Documented(e, s)
  <2>1. PICK e \in Own : s.path = e.path
    BY <1>2 DEF Documented
  <2>2. e \in DocumentProperties
    BY DEF Own
  <2>3. e.path \in Seq(PathNames(doc)) /\ Len(e.path) \in 1..StackDepth
    BY <2>2, DocumentPaths
  <2>4. Len(e.path) \in Nat \ {0}
    BY <2>3
  <2> QED BY <2>1, <2>3, <2>4
<1> QED BY <1>1, <1>2 DEF Reflects

\* What createResourceSchemaIgnoreID keeps, without the counting.
LEMMA KeptIs ==
    ASSUME NEW schema, NEW kept \in Kept(schema)
    PROVE  /\ kept \subseteq schema
           /\ \A s \in kept : /\ ~(Len(s.path) = 1 /\ NamedID(s))
                              /\ Len(s.path) > 1 => \E t \in kept : t.path = Front(s.path)
           /\ \A s \in schema :
                 /\ Len(s.path) = 1 => ~NamedID(s)
                 /\ Len(s.path) > 1 => \E t \in kept : t.path = Front(s.path)
                 => \E t \in kept : /\ Front(t.path) = Front(s.path)
                                    /\ TerraformName(t) = TerraformName(s)
<1>1. \A s \in kept : Len(s.path) > 1 => \E t \in kept : t.path = Front(s.path)
  BY DEF Kept, Above
<1>2. ASSUME NEW s \in schema,
             Len(s.path) = 1 => ~NamedID(s),
             Len(s.path) > 1 => \E t \in kept : t.path = Front(s.path)
      PROVE  \E t \in kept : /\ Front(t.path) = Front(s.path)
                             /\ TerraformName(t) = TerraformName(s)
  <2>1. Cardinality({t \in kept : /\ Front(t.path) = Front(s.path)
                                  /\ TerraformName(t) = TerraformName(s)}) = 1
    BY <1>2 DEF Kept, Above
  <2>2. {t \in kept : /\ Front(t.path) = Front(s.path)
                      /\ TerraformName(t) = TerraformName(s)} # {}
    BY <2>1, FS_EmptySet
  <2> QED BY <2>2
<1> QED BY <1>1, <1>2 DEF Kept

\* With a property, all that it is nested in is kept.
LEMMA KeptLineage ==
    ASSUME NEW schema, Reflects(schema), NEW kept \in Kept(schema),
           NEW s \in kept, NEW j \in 1..Len(s.path)
    PROVE  \E t \in kept : t.path = SubSeq(s.path, 1, j)
<1> DEFINE N == PathNames(doc)
           Bad == {k \in Nat : \E y \in kept :
                     /\ Len(y.path) = k
                     /\ \E i \in 1..k : \A x \in kept : x.path # SubSeq(y.path, 1, i)}
<1> HIDE DEF N
<1>0. \A y \in kept : y.path \in Seq(N) /\ Len(y.path) \in Nat \ {0}
  BY KeptIs, ReflectedPaths DEF N
<1>1. Bad = {}
  <2> SUFFICES ASSUME Bad # {} PROVE FALSE
    OBVIOUS
  <2>1. PICK k \in Bad : \A m \in Bad : k <= m
    <3>1. Bad \in SUBSET Nat
      OBVIOUS
    <3> HIDE DEF Bad
    <3> QED BY <3>1, LeastIsThere
  <2>2. PICK y \in kept :
          /\ Len(y.path) = k
          /\ \E i \in 1..k : \A x \in kept : x.path # SubSeq(y.path, 1, i)
    OBVIOUS
  <2>3. PICK i \in 1..k : \A x \in kept : x.path # SubSeq(y.path, 1, i)
    BY <2>2
  <2>4. y.path \in Seq(N) /\ k \in Nat \ {0}
    BY <1>0, <2>2
  <2>5. i # k
    BY <2>2, <2>3, <2>4, SubSeqFull
  <2>6. k > 1 /\ i \in 1..(k - 1) /\ k - 1 \in Nat /\ ~(k <= k - 1)
    BY <2>3, <2>4, <2>5
  <2>7. PICK z \in kept : z.path = Front(y.path)
    BY <2>2, <2>6, KeptIs
  <2>8. Len(z.path) = k - 1 /\ SubSeq(z.path, 1, i) = SubSeq(y.path, 1, i)
    <3>1. Len(y.path) # 0 /\ i \in 0..(Len(y.path) - 1)
      BY <2>2, <2>4, <2>6
    <3> QED BY <2>2, <2>4, <2>7, <3>1, FrontOfSubSeq
  <2>9. k - 1 \in Bad
    BY <2>3, <2>6, <2>8
  <2> QED BY <2>1, <2>6, <2>9
<1> QED BY <1>0, <1>1

\* A path in Terraform's names has the names of the lineage.
LEMMA TerraformPathIs ==
    ASSUME NEW schema, Reflects(schema), NEW kept \in Kept(schema),
           NEW s \in kept, NEW j \in 1..Len(s.path),
           NEW t \in kept, t.path = SubSeq(s.path, 1, j)
    PROVE  TerraformPath(kept, s)[j] = TerraformName(t)
<1>1. \A u \in kept : u.path = SubSeq(s.path, 1, j) => u = t
  BY KeptIs DEF Reflects
<1>2. (CHOOSE u \in kept : u.path = SubSeq(s.path, 1, j)) = t
  BY <1>1
<1> QED BY <1>2 DEF TerraformPath

\* And every name in it is one of a property that is kept.
LEMMA TerraformPathHas ==
    ASSUME NEW schema, Reflects(schema), NEW kept \in Kept(schema),
           NEW s \in kept, NEW j \in 1..Len(s.path)
    PROVE  \E t \in kept : /\ t.path = SubSeq(s.path, 1, j)
                           /\ TerraformName(t) = TerraformPath(kept, s)[j]
<1>1. PICK t \in kept : t.path = SubSeq(s.path, 1, j)
  BY KeptLineage
<1> QED BY <1>1, TerraformPathIs

\* A clear property's name tells it from all that stand beside it.
LEMMA NameTells ==
    ASSUME NEW schema, Reflects(schema), NEW e \in DocumentProperties, Clear(e),
           NEW j \in 1..Len(e.path), NEW t \in schema,
           Front(t.path) = SubSeq(e.path, 1, j - 1),
           TerraformName(t) = InTerraform(e)[j]
    PROVE  t.path = SubSeq(e.path, 1, j)
<1>1. PICK x \in Lineage(e) : x.path = SubSeq(e.path, 1, j) /\ Len(x.path) = j
  BY LineageIs
<1>2. x \in DocumentProperties /\ InTerraform(e)[j] = NameInTerraform(x)
  BY <1>1, LineagePath
<1>3. e.path \in Seq(PathNames(doc)) /\ Len(e.path) \in Nat
  BY DocumentPaths, Depths
<1>4. Front(x.path) = SubSeq(e.path, 1, j - 1)
  BY <1>1, <1>3, FrontIs
<1>5. CASE \E n \in doc.parents : t = ParentProperty(n)
  <2>1. PICK n \in doc.parents : t = ParentProperty(n)
    BY <1>5
  <2>2. t.path = <<n>> /\ Len(t.path) = 1
    BY <2>1 DEF ParentProperty
  <2>3. Len(Front(t.path)) = 0
    BY <2>2 DEF Front
  <2>4. j - 1 \in 0..Len(e.path)
    BY <1>3
  <2>5. Len(SubSeq(e.path, 1, j - 1)) = j - 1
    BY <1>3, <2>4, PrefixIs
  <2>6. j = 1
    BY <2>3, <2>5
  <2>7. TerraformName(t) = ParentInTerraform(n)
    BY <2>1 DEF ParentInTerraform
  <2> QED BY <2>6, <2>7 DEF Clear
<1>6. CASE \E y \in Own : Documented(y, t)
  <2>1. PICK y \in Own : Documented(y, t)
    BY <1>6
  <2>2. y \in DocumentProperties /\ t.path = y.path /\ TerraformName(t) = NameInTerraform(y)
    BY <2>1, DocumentedName DEF Own, Documented
  <2>3. x = y
    BY <1>1, <1>2, <1>4, <2>2 DEF Clear
  <2> QED BY <1>1, <2>2, <2>3
<1> QED BY <1>5, <1>6 DEF Reflects

\* A clear property is kept, and all that it is nested in.
LEMMA ClearIsKept ==
    ASSUME NEW schema, Reflects(schema), NEW kept \in Kept(schema),
           NEW e \in DocumentProperties, Clear(e), NEW j \in 1..Len(e.path)
    PROVE  \E t \in kept : t.path = SubSeq(e.path, 1, j)
<1>0. e.path \in Seq(PathNames(doc)) /\ Len(e.path) \in Nat
  BY DocumentPaths, Depths
<1> DEFINE Bad == {i \in 1..Len(e.path) : \A t \in kept : t.path # SubSeq(e.path, 1, i)}
<1>1. SUFFICES ASSUME Bad # {} PROVE FALSE
  OBVIOUS
<1>2. PICK i \in Bad : \A m \in Bad : i <= m
  <2>1. Bad \in SUBSET Nat
    BY <1>0
  <2> HIDE DEF Bad
  <2> QED BY <1>1, <2>1, LeastIsThere
<1>3. i \in 1..Len(e.path) /\ \A t \in kept : t.path # SubSeq(e.path, 1, i)
  OBVIOUS
<1>4. PICK x \in Lineage(e) : x.path = SubSeq(e.path, 1, i) /\ Len(x.path) = i
  BY <1>3, LineageIs
<1>5. x \in DocumentProperties /\ InTerraform(e)[i] = NameInTerraform(x)
  BY <1>4, LineagePath
<1>6. x.path[1] = e.path[1]
  BY <1>0, <1>3, <1>4
<1>7. x \in Own
  BY <1>5, <1>6 DEF Own, Clear
<1>8. PICK s \in schema : Documented(x, s)
  BY <1>7 DEF Reflects
<1>9. s.path = SubSeq(e.path, 1, i) /\ Len(s.path) = i /\ TerraformName(s) = InTerraform(e)[i]
  BY <1>4, <1>5, <1>8, DocumentedName DEF Documented
<1>10. Front(s.path) = SubSeq(e.path, 1, i - 1)
  BY <1>0, <1>3, <1>9, FrontIs
<1>11. Len(s.path) = 1 => ~NamedID(s)
  BY <1>9 DEF NamedID, Clear
<1>12. Len(s.path) > 1 => \E t \in kept : t.path = Front(s.path)
  <2> HAVE Len(s.path) > 1
  <2>1. i - 1 \in 1..Len(e.path) /\ ~(i <= i - 1)
    BY <1>0, <1>3, <1>9
  <2>2. i - 1 \notin Bad
    BY <1>2, <2>1
  <2> QED BY <1>10, <2>1, <2>2
<1>13. PICK t \in kept : Front(t.path) = Front(s.path) /\ TerraformName(t) = TerraformName(s)
  BY <1>11, <1>12, KeptIs
<1>14. t.path = SubSeq(e.path, 1, i)
  BY <1>3, <1>9, <1>10, <1>13, KeptIs, NameTells
<1> QED BY <1>3, <1>14

\* What is kept of a clear property is its own, under its own path.
LEMMA ClearPath ==
    ASSUME NEW schema, Reflects(schema), NEW kept \in Kept(schema),
           NEW e \in DocumentProperties, Clear(e)
    PROVE  \E s \in kept : /\ Documented(e, s)
                           /\ TerraformPath(kept, s) = InTerraform(e)
                           /\ \A t \in kept : TerraformPath(kept, t) = InTerraform(e) => t = s
<1>0. e.path \in Seq(PathNames(doc)) /\ Len(e.path) \in 1..StackDepth
      /\ Len(e.path) \in 1..Len(e.path) /\ Len(e.path) \in Nat
  <2>1. e.path \in Seq(PathNames(doc)) /\ Len(e.path) \in 1..StackDepth
    BY DocumentPaths
  <2> QED BY <2>1
<1>1. PICK s \in kept : s.path = e.path
  BY <1>0, ClearIsKept, SubSeqFull
<1>2. \A t \in kept : \A x \in DocumentProperties :
         t.path = x.path /\ x.path[1] = e.path[1] => Documented(x, t)
  <2> TAKE t \in kept
  <2> TAKE x \in DocumentProperties
  <2> HAVE t.path = x.path /\ x.path[1] = e.path[1]
  <2>1. t \in schema
    BY KeptIs
  <2>2. ASSUME NEW n \in doc.parents, t = ParentProperty(n)
        PROVE  FALSE
    <3>1. t.path[1] = n
      BY <2>2 DEF ParentProperty
    <3>2. e.path[1] \in doc.parents
      BY <3>1
    <3> QED BY <3>2 DEF Clear
  <2>3. PICK y \in Own : Documented(y, t)
    BY <2>1, <2>2 DEF Reflects
  <2>4. y \in DocumentProperties /\ y.path = x.path
    BY <2>3 DEF Own, Documented
  <2>5. x = y
    BY <2>4, OneDocumented
  <2> QED BY <2>3, <2>5
<1>3. Documented(e, s)
  BY <1>1, <1>2
<1>4. TerraformPath(kept, s) = InTerraform(e)
  <2>1. ASSUME NEW j \in 1..Len(e.path)
        PROVE  TerraformPath(kept, s)[j] = InTerraform(e)[j]
    <3>1. PICK t \in kept : t.path = SubSeq(e.path, 1, j)
      BY ClearIsKept
    <3>2. TerraformPath(kept, s)[j] = TerraformName(t)
      BY <1>1, <3>1, TerraformPathIs
    <3>3. PICK x \in Lineage(e) : x.path = SubSeq(e.path, 1, j) /\ Len(x.path) = j
      BY LineageIs
    <3>4. x \in DocumentProperties /\ InTerraform(e)[j] = NameInTerraform(x)
      BY <3>3, LineagePath
    <3>5. x.path[1] = e.path[1]
      BY <1>0, <3>3
    <3>6. Documented(x, t)
      BY <1>2, <3>1, <3>3, <3>4, <3>5
    <3> QED BY <3>2, <3>4, <3>6, DocumentedName
  <2>2. DOMAIN e.path = 1..Len(e.path)
    BY <1>0
  <2>3. DOMAIN TerraformPath(kept, s) = 1..Len(e.path) /\ DOMAIN InTerraform(e) = 1..Len(e.path)
    BY <1>1, <2>2 DEF TerraformPath, InTerraform
  <2>4. /\ TerraformPath(kept, s) = [k \in 1..Len(e.path) |-> TerraformPath(kept, s)[k]]
        /\ InTerraform(e) = [k \in 1..Len(e.path) |-> InTerraform(e)[k]]
    <3>1. TerraformPath(kept, s) = [k \in DOMAIN TerraformPath(kept, s) |-> TerraformPath(kept, s)[k]]
      BY DEF TerraformPath
    <3>2. InTerraform(e) = [k \in DOMAIN InTerraform(e) |-> InTerraform(e)[k]]
      BY DEF InTerraform
    <3> QED BY <2>3, <3>1, <3>2
  <2> QED BY <2>1, <2>4
<1>5. ASSUME NEW t \in kept, TerraformPath(kept, t) = InTerraform(e)
      PROVE  t = s
  <2>0. t \in schema /\ s \in schema /\ t.path \in Seq(PathNames(doc)) /\ Len(t.path) \in Nat
    BY KeptIs, ReflectedPaths
  <2>1. Len(t.path) = Len(e.path)
    <3>1. DOMAIN TerraformPath(kept, t) = 1..Len(t.path)
      BY DEF TerraformPath
    <3>2. DOMAIN InTerraform(e) = 1..Len(e.path)
      BY <1>0 DEF InTerraform
    <3>3. 1..Len(t.path) = 1..Len(e.path)
      BY <1>5, <3>1, <3>2
    <3> QED BY <1>0, <2>0, <3>3
  <2> DEFINE Bad == {j \in 0..Len(e.path) : SubSeq(t.path, 1, j) # SubSeq(e.path, 1, j)}
  <2>2. Bad = {}
    <3> SUFFICES ASSUME Bad # {} PROVE FALSE
      OBVIOUS
    <3>1. PICK j \in Bad : \A m \in Bad : j <= m
      <4>1. Bad \in SUBSET Nat
        BY <1>0
      <4> HIDE DEF Bad
      <4> QED BY <4>1, LeastIsThere
    <3>2. j \in 0..Len(e.path) /\ SubSeq(t.path, 1, j) # SubSeq(e.path, 1, j)
      OBVIOUS
    <3>3. j # 0
      BY <3>2, SubSeqEmpty
    <3>4. j - 1 \in 0..Len(e.path) /\ ~(j <= j - 1) /\ j \in 1..Len(e.path) /\ j \in 1..Len(t.path)
      BY <1>0, <2>1, <3>2, <3>3
    <3>5. SubSeq(t.path, 1, j - 1) = SubSeq(e.path, 1, j - 1)
      BY <3>1, <3>4
    <3>6. PICK u \in kept : /\ u.path = SubSeq(t.path, 1, j)
                            /\ TerraformName(u) = TerraformPath(kept, t)[j]
      BY <3>4, TerraformPathHas
    <3>7. Front(u.path) = SubSeq(e.path, 1, j - 1)
      BY <2>0, <3>4, <3>5, <3>6, FrontIs
    <3>8. u.path = SubSeq(e.path, 1, j)
      <4>1. u \in schema
        BY KeptIs
      <4>2. TerraformName(u) = InTerraform(e)[j]
        BY <1>5, <3>6
      <4> QED BY <3>4, <3>7, <4>1, <4>2, NameTells
    <3> QED BY <3>2, <3>6, <3>8
  <2>3. SubSeq(t.path, 1, Len(e.path)) = SubSeq(e.path, 1, Len(e.path))
    BY <1>0, <2>2
  <2>4. t.path = s.path
    BY <1>0, <1>1, <2>0, <2>1, <2>3, SubSeqFull
  <2> QED BY <2>0, <2>4 DEF Reflects
<1> QED BY <1>3, <1>4, <1>5

\* A parent's property is kept as well, under its name.
LEMMA ParentPath ==
    ASSUME NEW schema, Reflects(schema), NEW kept \in Kept(schema),
           NEW n \in doc.parents, ClearParent(n), ParentInTerraform(n) # "id"
    PROVE  /\ ParentProperty(n) \in kept
           /\ TerraformPath(kept, ParentProperty(n)) = <<ParentInTerraform(n)>>
           /\ \A t \in kept : TerraformPath(kept, t) = <<ParentInTerraform(n)>>
                                 => t = ParentProperty(n)
<1> DEFINE s == ParentProperty(n)
           name == ParentInTerraform(n)
<1>1. s \in schema /\ s.path = <<n>> /\ Len(s.path) = 1 /\ TerraformName(s) = name
  BY DEF Reflects, ParentProperty, ParentInTerraform
<1>2. \A t \in schema : Len(t.path) = 1 /\ TerraformName(t) = name => t = s
  <2> TAKE t \in schema
  <2> HAVE Len(t.path) = 1 /\ TerraformName(t) = name
  <2>1. CASE \E m \in doc.parents : t = ParentProperty(m)
    BY <2>1 DEF ClearParent, ParentInTerraform
  <2>2. CASE \E e \in Own : Documented(e, t)
    <3>1. PICK e \in Own : Documented(e, t)
      BY <2>2
    <3>2. e \in DocumentProperties /\ Len(e.path) = 1 /\ e.path[1] \notin doc.parents
      BY <3>1 DEF Own, Documented
    <3>3. e.path \in Seq(PathNames(doc)) /\ 1 \in 1..Len(e.path)
      <4>1. e \in DocumentProperties /\ Len(e.path) = 1
        BY <3>2
      <4>2. e.path \in Seq(PathNames(doc))
        BY <4>1, DocumentPaths
      <4> QED BY <4>1, <4>2
    <3>4. PICK x \in Lineage(e) : x.path = SubSeq(e.path, 1, 1) /\ Len(x.path) = 1
      BY <3>2, <3>3, LineageIs
    <3>5. x \in DocumentProperties /\ InTerraform(e)[1] = NameInTerraform(x)
      BY <3>2, <3>4, LineagePath
    <3>6. x = e
      BY <3>2, <3>3, <3>4, <3>5, SubSeqFull, OneDocumented
    <3>7. InTerraform(e)[1] = name
      BY <3>1, <3>5, <3>6, DocumentedName
    <3>8. InTerraform(e) = <<name>>
      <4>1. DOMAIN e.path = {1}
        BY <3>2, <3>3
      <4>2. InTerraform(e) = [k \in {1} |-> InTerraform(e)[k]]
        BY <4>1 DEF InTerraform
      <4>3. <<name>> = [k \in {1} |-> name]
        OBVIOUS
      <4> HIDE DEF name
      <4> QED BY <3>7, <4>2, <4>3
    <3>9. e.path = <<n>>
      BY <3>2, <3>8 DEF ClearParent
    <3> QED BY <3>2, <3>9
  <2> QED BY <2>1, <2>2 DEF Reflects
<1>3. s \in kept
  <2>1. ~NamedID(s)
    BY <1>1 DEF NamedID
  <2>2. PICK t \in kept : Front(t.path) = Front(s.path) /\ TerraformName(t) = TerraformName(s)
    <3> HIDE DEF s
    <3>1. \A u \in schema :
                 /\ Len(u.path) = 1 => ~NamedID(u)
                 /\ Len(u.path) > 1 => \E t \in kept : t.path = Front(u.path)
                 => \E t \in kept : /\ Front(t.path) = Front(u.path)
                                    /\ TerraformName(t) = TerraformName(u)
      BY KeptIs
    <3>2. s \in schema /\ ~(Len(s.path) > 1)
      BY <1>1
    <3> QED BY <2>1, <3>1, <3>2
  <2>3. t \in schema /\ t.path \in Seq(PathNames(doc)) /\ Len(t.path) \in Nat \ {0}
        /\ s.path \in Seq(PathNames(doc))
    BY <1>1, <2>2, KeptIs, ReflectedPaths
  <2>4. Len(t.path) - 1 = Len(s.path) - 1
    <3>1. Len(Front(t.path)) = Len(t.path) - 1
      BY <2>3, FrontOfSubSeq
    <3>2. Len(Front(s.path)) = Len(s.path) - 1
      <4>1. s.path \in Seq(PathNames(doc)) /\ Len(s.path) # 0
        BY <1>1, <2>3
      <4> HIDE DEF s
      <4> QED BY <4>1, FrontOfSubSeq
    <3> QED BY <2>2, <3>1, <3>2
  <2>5. t = s
    BY <1>1, <1>2, <2>2, <2>3, <2>4
  <2> QED BY <2>2, <2>5
<1>4. \A t \in kept : Len(t.path) = 1 =>
         TerraformPath(kept, t) = <<TerraformName(t)>>
  <2> TAKE t \in kept
  <2> HAVE Len(t.path) = 1
  <2>1. t.path \in Seq(PathNames(doc)) /\ SubSeq(t.path, 1, 1) = t.path
    BY KeptIs, ReflectedPaths, SubSeqFull
  <2>2. TerraformPath(kept, t)[1] = TerraformName(t)
    <3>1. 1 \in 1..Len(t.path) /\ t.path = SubSeq(t.path, 1, 1)
      BY <2>1
    <3> QED BY <3>1, TerraformPathIs
  <2>3. TerraformPath(kept, t) = [k \in 1..1 |-> TerraformPath(kept, t)[k]]
    BY DEF TerraformPath
  <2> QED BY <2>2, <2>3
<1>5. ASSUME NEW t \in kept, TerraformPath(kept, t) = <<name>>
      PROVE  t = s
  <2>1. DOMAIN TerraformPath(kept, t) = 1..Len(t.path) /\ Len(t.path) \in Nat /\ t \in schema
    BY KeptIs, ReflectedPaths DEF TerraformPath
  <2>2. 1..Len(t.path) = {1}
    <3>1. DOMAIN <<name>> = {1}
      <4> HIDE DEF name
      <4> QED OBVIOUS
    <3> QED BY <1>5, <2>1, <3>1
  <2>3. Len(t.path) = 1
    <3> DEFINE m == Len(t.path)
    <3>1. m \in Nat /\ 1..m = {1}
      BY <2>1, <2>2
    <3> HIDE DEF m
    <3>2. 1 \in 1..m
      BY <3>1
    <3>3. m \in 1..m
      BY <3>1, <3>2
    <3> QED BY <3>1, <3>3 DEF m
  <2>4. TerraformName(t) = name
    BY <1>4, <1>5, <2>3
  <2> QED BY <1>2, <2>1, <2>3, <2>4
<1> QED BY <1>1, <1>3, <1>4, <1>5

\* An attribute of Terraform's schema is the one property's that has its path.
LEMMA AttributeIs ==
    ASSUME NEW schema, NEW kept, NEW s \in kept, NEW path,
           TerraformPath(kept, s) = path,
           \A t \in kept : TerraformPath(kept, t) = path => t = s
    PROVE  /\ path \in DOMAIN CreateResourceSchema(schema, kept)
           /\ CreateResourceSchema(schema, kept)[path] = Attribute(schema, s)
<1>1. (CHOOSE t \in kept : TerraformPath(kept, t) = path) = s
  OBVIOUS
<1> QED BY <1>1 DEF CreateResourceSchema

\* Whatever property it is made from, Terraform takes an attribute.
LEMMA AttributesAccepted ==
    ASSUME NEW schema, NEW kept
    PROVE  Accepted(CreateResourceSchema(schema, kept))
<1>1. ASSUME NEW s, Attribute(schema, s).computed
      PROVE  Attribute(schema, s).default = "" /\ ~Attribute(schema, s).required
  BY <1>1 DEF Attribute, IsComputed
<1> DEFINE attributes == CreateResourceSchema(schema, kept)
<1>2. \A path \in DOMAIN attributes : \E s : attributes[path] = Attribute(schema, s)
  BY DEF CreateResourceSchema
<1> HIDE DEF attributes
<1>3. ASSUME NEW path \in DOMAIN attributes, attributes[path].computed
      PROVE  attributes[path].default = "" /\ ~attributes[path].required
  <2>1. PICK s : attributes[path] = Attribute(schema, s)
    BY <1>2
  <2> QED BY <1>1, <1>3, <2>1
<1>4. Accepted(attributes)
  BY <1>3 DEF Accepted
<1> QED BY <1>4 DEF attributes

\* The data sources' own attribute changes no other.
LEMMA OwnAttributeIs ==
    ASSUME NEW attributes, NEW name, NEW type, Accepted(attributes)
    PROVE  /\ Accepted(OwnAttribute(attributes, name, type))
           /\ \A path \in DOMAIN attributes :
                 path[1] # name => OwnAttribute(attributes, name, type)[path] = attributes[path]
<1> DEFINE with == OwnAttribute(attributes, name, type)
<1>1. DOMAIN with = {p \in DOMAIN attributes : p[1] # name} \cup {<<name>>}
  BY DEF OwnAttribute
<1>2. ASSUME NEW path \in DOMAIN attributes, path[1] # name
      PROVE  with[path] = attributes[path]
  <2>1. path # <<name>>
    BY <1>2
  <2> QED BY <1>2, <2>1 DEF OwnAttribute
<1>3. with[<<name>>].computed = FALSE
  BY DEF OwnAttribute
<1> HIDE DEF with
<1>4. Accepted(with)
  BY <1>1, <1>2, <1>3 DEF Accepted
<1> QED BY <1>2, <1>4 DEF with

\* A resource's attribute is what terraformSchema makes of the property.
LEMMA ResourceAttribute ==
    ASSUME NEW schema, NEW e, ~Contradictory(e.property)
    PROVE  LET p == e.property
               attribute == Attribute(schema, CreateProperty(e))
               computed == ~p.required /\ (p.readOnly \/ "computed" \in p.marks)
           IN /\ attribute.required = p.required
              /\ attribute.optional = ~p.required
              /\ attribute.computed = computed
              /\ attribute.default = IF computed THEN "" ELSE p.default
              /\ attribute.sensitive = ("sensitive" \in p.marks)
              /\ attribute.forceNew = ("forceNew" \in p.marks)
<1> DEFINE p == e.property
           s == CreateProperty(e)
           computed == ~p.required /\ (p.readOnly \/ "computed" \in p.marks)
<1>1. /\ s.required = p.required /\ s.readOnly = p.readOnly /\ s.default = p.default
      /\ s.computed = (~p.required /\ (p.readOnly \/ p.default # "" \/ "computed" \in p.marks))
      /\ ("sensitive" \in s.marks) = ("sensitive" \in p.marks)
      /\ ("forceNew" \in s.marks) = ("forceNew" \in p.marks)
  <2>1. s.marks = (IF p.type = "array" THEN p.marks \ {"computed"}
                   ELSE p.marks \ {"computed", "ignoreOrder"})
    BY DEF CreateProperty
  <2>2. "sensitive" \in s.marks <=> "sensitive" \in p.marks
    BY <2>1
  <2>3. "forceNew" \in s.marks <=> "forceNew" \in p.marks
    BY <2>1
  <2>4. /\ s.required = p.required /\ s.readOnly = p.readOnly /\ s.default = p.default
        /\ s.computed = (~p.required /\ (p.readOnly \/ p.default # "" \/ "computed" \in p.marks))
    BY DEF CreateProperty
  <2> HIDE DEF s, p
  <2>5. ("sensitive" \in s.marks) = ("sensitive" \in p.marks)
    BY <2>2
  <2>6. ("forceNew" \in s.marks) = ("forceNew" \in p.marks)
    BY <2>3
  <2> QED BY <2>4, <2>5, <2>6
<1>2. ~p.required => ~("computed" \in p.marks /\ p.default # "")
  BY DEF Contradictory
<1> HIDE DEF p, s
<1>3. IsComputed(s) <=> computed
  BY <1>1, <1>2 DEF IsComputed, IsOptionalComputed
<1>4. Attribute(schema, s).required = s.required /\ Attribute(schema, s).optional = ~s.required
      /\ Attribute(schema, s).computed = IsComputed(s)
      /\ Attribute(schema, s).default = (IF IsComputed(s) THEN "" ELSE s.default)
      /\ Attribute(schema, s).sensitive = ("sensitive" \in s.marks)
      /\ Attribute(schema, s).forceNew = ("forceNew" \in s.marks)
  BY DEF Attribute
<1>5. Attribute(schema, s).computed = computed
  BY <1>3, <1>4 DEF IsComputed
<1>6. Attribute(schema, s).default = (IF computed THEN "" ELSE p.default)
  BY <1>1, <1>3, <1>4
<1>7. Attribute(schema, s).sensitive = ("sensitive" \in p.marks)
      /\ Attribute(schema, s).forceNew = ("forceNew" \in p.marks)
  BY <1>1, <1>4
<1>8. Attribute(schema, s).required = p.required /\ Attribute(schema, s).optional = ~p.required
  BY <1>1, <1>4
<1> QED BY <1>5, <1>6, <1>7, <1>8 DEF p, s

\* A data source's attribute is computed.
LEMMA SearchAttribute ==
    ASSUME NEW schema, NEW e
    PROVE  LET attribute == Attribute(schema, Sourced(CreateProperty(e)))
           IN attribute.computed /\ ~attribute.required
BY SourcedIs DEF Attribute, IsComputed, IsOptionalComputed

\* A parent's is required.
LEMMA ParentAttribute ==
    ASSUME NEW schema, NEW n
    PROVE  Attribute(schema, ParentProperty(n)).required
BY DEF Attribute, ParentProperty

-----------------------------------------------------------------------------
(* What was built has no property that contradicts itself                  *)

\* A schema is built when none of its properties is refused.
LEMMA BuiltIsRight ==
    ASSUME NEW known, "built" \in Outcomes(doc, known)
    PROVE  /\ \A k \in 1..StackDepth : \A e \in Level(doc, known)[k] :
                 ~Refused(doc, e.property, known)
           /\ Outcomes(doc, known) = {"built"}
<1> DEFINE level == Level(doc, known)
           endless == level[StackDepth + 1]
           wrong == {e \in UNION {level[k] : k \in 1..StackDepth} :
                        Refused(doc, e.property, known)}
<1>1. Outcomes(doc, known) =
        (IF endless # {} THEN {"overflow"} ELSE {})
        \cup (IF \E e \in wrong : \A o \in endless : ~IsPrefix(e.path, o.path)
              THEN {"refused"} ELSE {})
        \cup (IF endless \cup wrong = {} THEN {"built"} ELSE {})
  BY DEF Outcomes
<1> HIDE DEF endless, wrong
<1>2. endless \cup wrong = {}
  BY <1>1
<1>3. Outcomes(doc, known) = {"built"}
  BY <1>1, <1>2
<1>4. \A k \in 1..StackDepth : \A e \in level[k] : ~Refused(doc, e.property, known)
  BY <1>2 DEF wrong
<1> QED BY <1>3, <1>4

\* Then it makes no difference whether the definitions are known.
LEMMA SameLevels ==
    ASSUME "built" \in Outcomes(doc, FALSE), NEW k \in 1..StackDepth
    PROVE  Level(doc, TRUE)[k] = Level(doc, FALSE)[k]
<1> DEFINE Bad == {l \in 1..StackDepth : Level(doc, TRUE)[l] # Level(doc, FALSE)[l]}
<1>1. SUFFICES ASSUME Bad # {} PROVE FALSE
  OBVIOUS
<1>2. PICK l \in Bad : \A m \in Bad : l <= m
  <2>1. Bad \in SUBSET Nat
    BY Depths
  <2> HIDE DEF Bad
  <2> QED BY <1>1, <2>1, LeastIsThere
<1>3. l \in 1..StackDepth /\ Level(doc, TRUE)[l] # Level(doc, FALSE)[l]
  OBVIOUS
<1>4. l \in 1..(StackDepth + 1) /\ l \in Nat
  BY <1>3, Depths
<1>5. l # 1
  <2> SUFFICES ASSUME l = 1 PROVE FALSE
    OBVIOUS
  <2>1. Level(doc, TRUE)[l] = EntriesOf(doc, doc.root, <<>>)
    BY <1>4, LevelOf
  <2>2. Level(doc, FALSE)[l] = EntriesOf(doc, doc.root, <<>>)
    BY <1>4, LevelOf
  <2> QED BY <1>3, <2>1, <2>2
<1>6. l - 1 \in 1..StackDepth /\ ~(l <= l - 1)
  BY <1>3, <1>4, <1>5, Depths
<1> DEFINE above == Level(doc, FALSE)[l - 1]
<1>7. Level(doc, TRUE)[l - 1] = above
  BY <1>2, <1>6
<1>8. Level(doc, TRUE)[l] = Deeper(doc, TRUE, above) /\ Level(doc, FALSE)[l] = Deeper(doc, FALSE, above)
  <2>1. ASSUME NEW known
        PROVE  Level(doc, known)[l] = Deeper(doc, known, Level(doc, known)[l - 1])
    BY <1>4, <1>5, LevelOf
  <2>2. Level(doc, TRUE)[l] = Deeper(doc, TRUE, Level(doc, TRUE)[l - 1])
    BY <2>1
  <2>3. Level(doc, FALSE)[l] = Deeper(doc, FALSE, Level(doc, FALSE)[l - 1])
    BY <2>1
  <2> QED BY <1>7, <2>2, <2>3
<1>9. \A e \in above : ~Refused(doc, e.property, FALSE)
  BY <1>6, BuiltIsRight
<1> HIDE DEF above
<1>10. Opened(doc, TRUE, above) = Opened(doc, FALSE, above)
  BY <1>9 DEF Opened, Refused, Unsupported, Unresolved
<1>11. Deeper(doc, TRUE, above) = Deeper(doc, FALSE, above)
  BY <1>10 DEF Deeper
<1> QED BY <1>3, <1>8, <1>11

\* No property of what was built contradicts itself.
LEMMA NothingContradicts ==
    ASSUME "built" \in Outcomes(doc, FALSE), NEW e \in DocumentProperties
    PROVE  ~Contradictory(e.property)
<1>1. PICK k \in 1..StackDepth : e \in Level(doc, TRUE)[k]
  BY DEF DocumentProperties
<1>2. e \in Level(doc, FALSE)[k]
  BY <1>1, SameLevels
<1>3. ~Refused(doc, e.property, FALSE)
  BY <1>2, BuiltIsRight
<1> QED BY <1>3 DEF Refused

\* A provider starts only when its data sources' schema was built.
LEMMA StartIsBuilt ==
    ASSUME "built" \in StartOutcomes
    PROVE  "built" \in Outcomes(doc, FALSE)
<1>1. ASSUME "built" \in ResourceOutcomes
      PROVE  ResourceOutcomes = {"built"}
  <2>1. ~(doc.managed /\ "malformed" \in doc.timeouts) /\ ResourceOutcomes = Outcomes(doc, TRUE)
    BY <1>1 DEF ResourceOutcomes
  <2> QED BY <1>1, <2>1, BuiltIsRight
<1> QED BY <1>1 DEF StartOutcomes

-----------------------------------------------------------------------------
(* What Terraform knows                                                    *)

\* What Terraform knows was made of a document that is right.
SchemaInv ==
    /\ setup \in Setups
    /\ phase = "ready" =>
         /\ "built" \in Outcomes(doc, FALSE)
         /\ \E r \in Kept(GetResourceSchema(doc)), d \in Kept(DataSourceSchema) :
               LET dataSource == CreateResourceSchema(DataSourceSchema, d)
               IN schemas = [resource |-> CreateResourceSchema(GetResourceSchema(doc), r),
                             search |-> OwnAttribute(dataSource, "filter", "set"),
                             instance |-> OwnAttribute(dataSource, "id", "string")]

\* Only CreateProvider makes schemas.
LEMMA NextSchemaInv == SchemaInv /\ [Next]_vars => SchemaInv'
<1> SUFFICES ASSUME SchemaInv, [Next]_vars PROVE SchemaInv'
  OBVIOUS
<1>1. ASSUME UNCHANGED <<setup, phase, schemas>>
      PROVE  SchemaInv'
  BY <1>1 DEF SchemaInv, DataSourceSchema
<1>2. CASE CreateProvider
  <2>1. setup' = setup
    BY <1>2 DEF CreateProvider
  <2>2. CASE phase' \in StartOutcomes \ {"built"} 
    <3>1. phase' # "ready"
      BY <2>2 DEF StartOutcomes, ResourceOutcomes, Outcomes
    <3> QED BY <2>1, <3>1 DEF SchemaInv
  <2>3. CASE ~(phase' \in StartOutcomes \ {"built"})
    <3>1. "built" \in StartOutcomes
      BY <1>2, <2>3 DEF CreateProvider
    <3>2. "built" \in Outcomes(doc, FALSE)
      BY <3>1, StartIsBuilt
    <3>3. \E r \in Kept(GetResourceSchema(doc)), d \in Kept(DataSourceSchema) :
               LET dataSource == CreateResourceSchema(DataSourceSchema, d)
               IN schemas' = [resource |-> CreateResourceSchema(GetResourceSchema(doc), r),
                             search |-> OwnAttribute(dataSource, "filter", "set"),
                             instance |-> OwnAttribute(dataSource, "id", "string")]
      BY <1>2, <2>3 DEF CreateProvider
    <3> QED BY <2>1, <3>2, <3>3 DEF SchemaInv, DataSourceSchema
  <2> QED BY <2>2, <2>3
<1>3. CASE Restart
  BY <1>3 DEF Restart, SchemaInv
<1>4. CASE StartSearch
  BY <1>1, <1>4 DEF StartSearch
<1>5. CASE SearchAnswered
  BY <1>1, <1>5 DEF SearchAnswered
<1>6. CASE StartInstanceRead
  BY <1>1, <1>6 DEF StartInstanceRead
<1>7. CASE InstanceAnswered
  BY <1>1, <1>7 DEF InstanceAnswered
<1>8. CASE ReadFails
  BY <1>1, <1>8 DEF ReadFails
<1>9. CASE Others
  BY <1>1, <1>9 DEF Others
<1>10. CASE UNCHANGED vars
  BY <1>1, <1>10 DEF vars
<1> QED BY <1>2, <1>3, <1>4, <1>5, <1>6, <1>7, <1>8, <1>9, <1>10 DEF Next

\* What it made follows the document.
LEMMA SchemaInvFollows == SchemaInv => SchemasFollowDocument
<1> SUFFICES ASSUME SchemaInv, phase = "ready" PROVE SchemasFollowDocument
  BY DEF SchemasFollowDocument
<1> DEFINE top == GetResourceSchema(doc)
           source == DataSourceSchema
<1>0. "built" \in Outcomes(doc, FALSE) /\ setup \in Setups
  BY DEF SchemaInv
<1>1. PICK r \in Kept(top), d \in Kept(source) :
         schemas = [resource |-> CreateResourceSchema(top, r),
                    search |-> OwnAttribute(CreateResourceSchema(source, d), "filter", "set"),
                    instance |-> OwnAttribute(CreateResourceSchema(source, d), "id", "string")]
  BY DEF SchemaInv
<1> DEFINE resource == CreateResourceSchema(top, r)
           data == CreateResourceSchema(source, d)
<1>2. /\ schemas.resource = resource
      /\ schemas.search = OwnAttribute(data, "filter", "set")
      /\ schemas.instance = OwnAttribute(data, "id", "string")
  BY <1>1
<1>3. Reflects(top) /\ Reflects(source)
  BY ResourceReflects, DataSourceReflects
<1>4. top = {CreateProperty(e) : e \in Own} \cup {ParentProperty(n) : n \in doc.parents}
  BY DEF GetResourceSchema, Own, DocumentProperties
<1>5. source = {Sourced(s) : s \in top}
  BY DEF DataSourceSchema, ConvertToDataSource, Sourced
<1>6. Accepted(resource) /\ Accepted(data)
  BY AttributesAccepted
<1> HIDE DEF top, source, resource, data
<1>7. Accepted(schemas.resource) /\ Accepted(schemas.search) /\ Accepted(schemas.instance)
  BY <1>2, <1>6, OwnAttributeIs
<1>8. ASSUME NEW e \in DocumentProperties, Clear(e)
      PROVE  Follows(e)
  <2> DEFINE path == InTerraform(e)
  <2>1. e \in Own /\ path[1] # "id"
    BY <1>8 DEF Own, Clear
  <2>2. ~Contradictory(e.property)
    BY <1>0, NothingContradicts
  <2>3. resource[path] = Attribute(top, CreateProperty(e))
    <3>1. PICK s \in r : /\ Documented(e, s)
                         /\ TerraformPath(r, s) = path
                         /\ \A t \in r : TerraformPath(r, t) = path => t = s
      BY <1>3, <1>8, ClearPath
    <3>2. s = CreateProperty(e)
      <4>1. CreateProperty(e) \in top /\ CreateProperty(e).path = e.path
        BY <1>4, <2>1 DEF CreateProperty
      <4>2. s \in top /\ s.path = e.path
        BY <3>1, KeptIs DEF Documented
      <4> QED BY <1>3, <4>1, <4>2 DEF Reflects
    <3> HIDE DEF path
    <3> QED BY <3>1, <3>2, AttributeIs DEF resource
  <2>4. path \in DOMAIN data /\ data[path] = Attribute(source, Sourced(CreateProperty(e)))
    <3>1. PICK s \in d : /\ Documented(e, s)
                         /\ TerraformPath(d, s) = path
                         /\ \A t \in d : TerraformPath(d, t) = path => t = s
      BY <1>3, <1>8, ClearPath
    <3>2. s = Sourced(CreateProperty(e))
      <4>1. Sourced(CreateProperty(e)) \in source /\ Sourced(CreateProperty(e)).path = e.path
        BY <1>4, <1>5, <2>1, SourcedIs
      <4>2. s \in source /\ s.path = e.path
        BY <3>1, KeptIs DEF Documented
      <4> QED BY <1>3, <4>1, <4>2 DEF Reflects
    <3> HIDE DEF path
    <3> QED BY <3>1, <3>2, AttributeIs DEF data
  <2>5. data[path].computed /\ ~data[path].required
    BY <2>4, SearchAttribute
  <2>6. schemas.instance[path] = data[path]
        /\ (path[1] # "filter" => schemas.search[path] = data[path])
    BY <1>2, <1>6, <2>1, <2>4, OwnAttributeIs
  <2> DEFINE p == e.property
             attribute == Attribute(top, CreateProperty(e))
             computed == ~p.required /\ (p.readOnly \/ "computed" \in p.marks)
  <2>7. /\ attribute.required = p.required
        /\ attribute.optional = ~p.required
        /\ attribute.computed = computed
        /\ attribute.default = IF computed THEN "" ELSE p.default
        /\ attribute.sensitive = ("sensitive" \in p.marks)
        /\ attribute.forceNew = ("forceNew" \in p.marks)
    BY <2>2, ResourceAttribute
  <2>8. schemas.resource[path] = attribute
    BY <1>2, <2>3
  <2> HIDE DEF attribute
  <2>9. /\ schemas.resource[path].required = p.required
        /\ schemas.resource[path].optional = ~p.required
        /\ schemas.resource[path].computed = computed
        /\ schemas.resource[path].default = IF computed THEN "" ELSE p.default
        /\ schemas.resource[path].sensitive = ("sensitive" \in p.marks)
        /\ schemas.resource[path].forceNew = ("forceNew" \in p.marks)
    BY <2>7, <2>8, Zenon
  <2>10. /\ path[1] # "filter" =>
               schemas.search[path].computed /\ ~schemas.search[path].required
         /\ schemas.instance[path].computed
    BY <2>5, <2>6, Zenon
  <2> QED BY <2>9, <2>10, Zenon DEF Follows
<1>9. ASSUME NEW n \in doc.parents, ClearParent(n)
      PROVE  /\ schemas.resource[<<ParentInTerraform(n)>>].required
             /\ schemas.search[<<ParentInTerraform(n)>>].required
  <2> DEFINE path == <<ParentInTerraform(n)>>
             s == ParentProperty(n)
  <2>1. ParentInTerraform(n) # "id" /\ ParentInTerraform(n) # "filter"
    BY <1>0, SetupsAssumption DEF ParentInTerraform
  <2>2. /\ s \in r /\ TerraformPath(r, s) = path
        /\ \A t \in r : TerraformPath(r, t) = path => t = s
    BY <1>3, <1>9, <2>1, ParentPath
  <2>3. /\ s \in d /\ TerraformPath(d, s) = path
        /\ \A t \in d : TerraformPath(d, t) = path => t = s
    BY <1>3, <1>9, <2>1, ParentPath
  <2>4. path[1] # "filter"
    BY <2>1
  <2> HIDE DEF path
  <2>5. resource[path].required
    BY <2>2, AttributeIs, ParentAttribute DEF resource
  <2>6. path \in DOMAIN data /\ data[path].required
    BY <2>3, AttributeIs, ParentAttribute DEF data
  <2>7. schemas.search[path] = data[path]
    BY <1>2, <1>6, <2>4, <2>6, OwnAttributeIs
  <2> QED BY <1>2, <2>5, <2>6, <2>7 DEF path
<1> QED BY <1>7, <1>8, <1>9 DEF SchemasFollowDocument

(***************************************************************************)
(* Every attribute of the resource and of its data sources is what the     *)
(* document says of its property, at every depth and for every document,   *)
(* and none is such as Terraform refuses (createTerraformResource,         *)
(* createTerraformDataSource, createTerraformInstanceDataSource).          *)
(***************************************************************************)
THEOREM SchemasAreTheDocuments == Spec => []SchemasFollowDocument
<1>1. Init => SchemaInv
  BY DEF Init, SchemaInv
<1>2. SchemaInv /\ [Next]_vars => SchemaInv'
  BY NextSchemaInv
<1>3. SchemaInv => SchemasFollowDocument
  BY SchemaInvFollows
<1> QED BY <1>1, <1>2, <1>3, PTL DEF Spec

-----------------------------------------------------------------------------
(* What Terraform's attributes take                                        *)

\* Where a property of a document whose definitions are known is nested.
LEMMA DocumentNested ==
    ASSUME NEW k \in 1..(StackDepth + 1), k # 1, NEW e \in Level(doc, TRUE)[k]
    PROVE  /\ e \in Deeper(doc, TRUE, Level(doc, TRUE)[k - 1])
           /\ \E y \in Level(doc, TRUE)[k - 1] :
                 /\ y.property.nested \in DOMAIN doc.definitions
                 /\ \E n \in DOMAIN doc.definitions[y.property.nested] :
                       e = [path |-> Append(y.path, n),
                            property |-> doc.definitions[y.property.nested][n]]
<1>1. PICK known : known = TRUE
  OBVIOUS
<1>2. e \in Level(doc, known)[k]
  BY <1>1
<1>3. e \in Deeper(doc, known, Level(doc, known)[k - 1])
  BY <1>2, LevelOf
<1>4. PICK y \in Level(doc, known)[k - 1] :
         /\ y.property.nested \in DOMAIN doc.definitions
         /\ \E n \in DOMAIN doc.definitions[y.property.nested] :
               e = [path |-> Append(y.path, n),
                    property |-> doc.definitions[y.property.nested][n]]
  BY <1>2, NestedIn
<1> QED BY <1>1, <1>3, <1>4, Zenon

\* The first name alone is the path above all others.
LEMMA HeadIs ==
    ASSUME NEW S, NEW p \in Seq(S), Len(p) >= 1
    PROVE  SubSeq(p, 1, 1) = <<p[1]>>
<1> DEFINE q == SubSeq(p, 1, 1)
<1>1. /\ q \in Seq(S) /\ Len(q) = 1 /\ q[1] = p[1]
  BY SubSeqProperties
<1> HIDE DEF q
<1>2. q = <<q[1]>>
  BY <1>1
<1> QED BY <1>1, <1>2 DEF q

\* What is in the document is a property, and none that cannot be made.
LEMMA PropertiesAre ==
    ASSUME SchemaInv, phase = "ready", NEW x \in DocumentProperties
    PROVE  x.property \in Property /\ ~Unsupported(doc, x.property, FALSE)
<1>1. PICK k \in 1..StackDepth : x \in Level(doc, TRUE)[k]
  BY DEF DocumentProperties
<1>2. x \in Level(doc, FALSE)[k] /\ "built" \in Outcomes(doc, FALSE)
  BY <1>1, SameLevels DEF SchemaInv
<1>3. ~Unsupported(doc, x.property, FALSE)
  BY <1>2, BuiltIsRight DEF Refused
<1>4. \A d \in DOMAIN doc.definitions : \A n \in DOMAIN doc.definitions[d] :
         doc.definitions[d][n] \in Property
  BY SetupsAssumption DEF SchemaInv
<1>5. CASE k = 1
  <2>1. x \in EntriesOf(doc, doc.root, <<>>)
    <3>1. k \in 1..(StackDepth + 1)
      BY Depths
    <3> QED BY <1>1, <1>5, <3>1, LevelOf
  <2>2. doc.root \in DOMAIN doc.definitions
    BY SetupsAssumption DEF SchemaInv
  <2>3. PICK n \in DOMAIN doc.definitions[doc.root] :
           x = [path |-> Append(<<>>, n), property |-> doc.definitions[doc.root][n]]
    BY <2>1 DEF EntriesOf
  <2> QED BY <1>3, <1>4, <2>2, <2>3
<1>6. CASE k # 1
  <2>1. k \in 1..(StackDepth + 1)
    BY Depths
  <2>2. PICK y \in Level(doc, TRUE)[k - 1] :
           /\ y.property.nested \in DOMAIN doc.definitions
           /\ \E n \in DOMAIN doc.definitions[y.property.nested] :
                 x = [path |-> Append(y.path, n),
                      property |-> doc.definitions[y.property.nested][n]]
    BY <1>1, <1>6, <2>1, DocumentNested
  <2>3. PICK n \in DOMAIN doc.definitions[y.property.nested] :
           x = [path |-> Append(y.path, n),
                property |-> doc.definitions[y.property.nested][n]]
    BY <2>2
  <2> QED BY <1>3, <1>4, <2>2, <2>3
<1> QED BY <1>5, <1>6

\* What another is nested in holds objects.
LEMMA HoldersHold ==
    ASSUME NEW x \in DocumentProperties, Len(x.path) > 1
    PROVE  \E y \in DocumentProperties : y.path = Front(x.path) /\ HoldsObjects(y.property)
<1>1. PICK k \in 1..StackDepth : x \in Level(doc, TRUE)[k]
  BY DEF DocumentProperties
<1>2. k \in 1..(StackDepth + 1)
  BY Depths
<1>3. Len(x.path) = k
  BY <1>1, <1>2, PathsAreNamed
<1>4. k # 1
  BY <1>3
<1>5. x \in Deeper(doc, TRUE, Level(doc, TRUE)[k - 1])
  BY <1>1, <1>2, <1>4, DocumentNested
<1>6. PICK y \in Level(doc, TRUE)[k - 1] :
         HoldsObjects(y.property) /\ x \in EntriesOf(doc, y.property.nested, y.path)
  BY <1>5 DEF Deeper, Opened
<1>7. PICK n \in DOMAIN doc.definitions[y.property.nested] : x.path = Append(y.path, n)
  BY <1>6 DEF EntriesOf
<1>8. y \in DocumentProperties
  <2>1. k - 1 \in 1..StackDepth
    BY <1>4, Depths
  <2> QED BY <1>6, <2>1 DEF DocumentProperties
<1>9. y.path \in Seq(PathNames(doc)) /\ x.path \in Seq(PathNames(doc))
  BY <1>8, DocumentPaths
<1>10. Front(x.path) = y.path
  <2>1. x.path = y.path \o <<n>>
    BY <1>7, <1>9
  <2> QED BY <1>7, <1>9, <2>1 DEF Front
<1> QED BY <1>6, <1>8, <1>10

\* A property that is clear has one in the data sources' schema.
LEMMA ClearIsThere ==
    ASSUME NEW x \in DocumentProperties, Clear(x)
    PROVE  At(x.path) = {Sourced(CreateProperty(x))}
<1>1. x \in Own
  BY DEF Own, Clear
<1>2. CreateProperty(x) \in GetResourceSchema(doc)
  BY <1>1 DEF GetResourceSchema, Own, DocumentProperties
<1>3. Sourced(CreateProperty(x)) \in DataSourceSchema
  BY <1>2 DEF DataSourceSchema, ConvertToDataSource, Sourced
<1>4. Sourced(CreateProperty(x)).path = x.path
  BY SourcedIs
<1> QED BY <1>3, <1>4, DataSourceReflects DEF At, Reflects

\* And what is nested in one, or what it is nested in.
LEMMA ClearAbove ==
    ASSUME NEW x \in DocumentProperties, Clear(x), NEW j \in 1..Len(x.path)
    PROVE  \E y \in DocumentProperties :
              /\ y.path = SubSeq(x.path, 1, j) /\ Len(y.path) = j
              /\ Clear(y) /\ InTerraform(y)[1] = InTerraform(x)[1]
              /\ NameInTerraform(y) = InTerraform(x)[j]
<1>0. x.path \in Seq(PathNames(doc)) /\ Len(x.path) \in Nat
  BY DocumentPaths, Depths
<1>1. PICK y \in Lineage(x) : y.path = SubSeq(x.path, 1, j) /\ Len(y.path) = j
  BY LineageIs
<1>2. y \in DocumentProperties /\ NameInTerraform(y) = InTerraform(x)[j]
  BY <1>1, LineagePath
<1>3. ASSUME NEW z \in Lineage(y)
      PROVE  z \in Lineage(x)
  <2>1. /\ z \in DocumentProperties /\ Len(z.path) \in 1..Len(y.path)
        /\ z.path = SubSeq(y.path, 1, Len(z.path))
    BY <1>2, LineagePath
  <2>2. SubSeq(y.path, 1, Len(z.path)) = SubSeq(x.path, 1, Len(z.path))
    BY <1>0, <1>1, <2>1
  <2>3. Len(z.path) \in 1..Len(x.path)
    BY <1>0, <1>1, <2>1
  <2>4. IsPrefix(SubSeq(x.path, 1, Len(z.path)), x.path)
    BY <1>0, <2>3, PrefixIs
  <2> QED BY <2>1, <2>2, <2>4 DEF Lineage
<1>4. y.path[1] = x.path[1]
  BY <1>0, <1>1
<1>5. InTerraform(y)[1] = InTerraform(x)[1]
  <2>0. 1 \in 1..Len(y.path)
    BY <1>0, <1>1
  <2>1. PICK z \in Lineage(y) : Len(z.path) = 1
    BY <1>2, <2>0, LineageIs
  <2>2. InTerraform(y)[1] = NameInTerraform(z)
    BY <1>2, <2>1, LineagePath
  <2>3. InTerraform(x)[1] = NameInTerraform(z)
    BY <1>3, <2>1, LineagePath
  <2> QED BY <2>2, <2>3
<1>6. Clear(y)
  BY <1>3, <1>4, <1>5 DEF Clear
<1> QED BY <1>1, <1>2, <1>5, <1>6

\* The path under which a part of an object is set.
LEMMA WrittenIs ==
    ASSUME NEW x \in DocumentProperties, Clear(x)
    PROVE  Written(x.path) = InTerraform(x)
<1>0. DOMAIN x.path = 1..Len(x.path)
  <2>1. x.path \in Seq(PathNames(doc))
    BY DocumentPaths
  <2> QED BY <2>1
<1>1. ASSUME NEW j \in 1..Len(x.path)
      PROVE  TerraformName(CHOOSE s \in At(SubSeq(x.path, 1, j)) : TRUE) = InTerraform(x)[j]
  <2>1. PICK y \in DocumentProperties : /\ y.path = SubSeq(x.path, 1, j) /\ Clear(y)
                                        /\ NameInTerraform(y) = InTerraform(x)[j]
    BY ClearAbove
  <2>2. At(SubSeq(x.path, 1, j)) = {Sourced(CreateProperty(y))}
    BY <2>1, ClearIsThere
  <2>3. (CHOOSE s \in At(SubSeq(x.path, 1, j)) : TRUE) = Sourced(CreateProperty(y))
    BY <2>2
  <2>4. Documented(y, Sourced(CreateProperty(y)))
    BY SourcedIs DEF Documented
  <2> QED BY <2>1, <2>3, <2>4, DocumentedName
<1>2. DOMAIN InTerraform(x) = 1..Len(x.path)
  BY <1>0 DEF InTerraform
<1>3. InTerraform(x) = [k \in DOMAIN InTerraform(x) |-> InTerraform(x)[k]]
  BY DEF InTerraform
<1> QED BY <1>1, <1>2, <1>3 DEF Written

\* What a search sets is made of the data sources' schema.
LEMMA SearchedIs ==
    ASSUME SchemaInv, phase = "ready"
    PROVE  \E d \in Kept(DataSourceSchema) :
              LET data == CreateResourceSchema(DataSourceSchema, d)
              IN \A path \in DOMAIN data :
                    path[1] # "filter" => /\ path \in DOMAIN schemas.search
                                          /\ schemas.search[path] = data[path]
<1>1. PICK d \in Kept(DataSourceSchema) :
         schemas.search = OwnAttribute(CreateResourceSchema(DataSourceSchema, d),
                                       "filter", "set")
  BY DEF SchemaInv
<1> DEFINE data == CreateResourceSchema(DataSourceSchema, d)
           search == OwnAttribute(data, "filter", "set")
<1>2. Accepted(data)
  BY AttributesAccepted
<1>3. DOMAIN search = {p \in DOMAIN data : p[1] # "filter"} \cup {<<"filter">>}
  BY DEF OwnAttribute
<1> HIDE DEF data
<1>4. \A path \in DOMAIN data : path[1] # "filter" => search[path] = data[path]
  BY <1>2, OwnAttributeIs
<1> HIDE DEF search
<1> QED BY <1>1, <1>3, <1>4 DEF data, search

\* A clear property has an attribute of its own.
LEMMA ClearAttribute ==
    ASSUME SchemaInv, phase = "ready", NEW x \in DocumentProperties, Clear(x),
           InTerraform(x)[1] # "filter"
    PROVE  /\ InTerraform(x) \in DOMAIN schemas.search
           /\ schemas.search[InTerraform(x)] =
                 Attribute(DataSourceSchema, Sourced(CreateProperty(x)))
<1>1. PICK d \in Kept(DataSourceSchema) :
         LET data == CreateResourceSchema(DataSourceSchema, d)
         IN \A path \in DOMAIN data :
               path[1] # "filter" => /\ path \in DOMAIN schemas.search
                                     /\ schemas.search[path] = data[path]
  BY SearchedIs
<1>2. PICK s \in d : /\ Documented(x, s)
                     /\ TerraformPath(d, s) = InTerraform(x)
                     /\ \A t \in d : TerraformPath(d, t) = InTerraform(x) => t = s
  BY DataSourceReflects, ClearPath
<1>3. s = Sourced(CreateProperty(x))
  <2>1. s \in At(x.path)
    BY <1>2, KeptIs DEF At, Documented
  <2> QED BY <2>1, ClearIsThere
<1> DEFINE data == CreateResourceSchema(DataSourceSchema, d)
           path == InTerraform(x)
<1> HIDE DEF path
<1>4. path \in DOMAIN data /\ data[path] = Attribute(DataSourceSchema, s)
  BY <1>2, AttributeIs DEF path
<1> QED BY <1>1, <1>3, <1>4 DEF path

\* A property at the top has one, or a namesake has.
LEMMA TopAttribute ==
    ASSUME SchemaInv, phase = "ready", NEW s \in Top(DataSourceSchema),
           TerraformName(s) \notin {"id", "filter"}
    PROVE  /\ <<TerraformName(s)>> \in DOMAIN schemas.search
           /\ \E t \in Top(DataSourceSchema) :
                 /\ TerraformName(t) = TerraformName(s)
                 /\ schemas.search[<<TerraformName(s)>>] = Attribute(DataSourceSchema, t)
<1> DEFINE path == <<TerraformName(s)>>
<1>0. path[1] # "filter" /\ Len(path) = 1 /\ path[1] = TerraformName(s)
  OBVIOUS
<1>1. PICK d \in Kept(DataSourceSchema) :
         LET data == CreateResourceSchema(DataSourceSchema, d)
         IN \A p \in DOMAIN data :
               p[1] # "filter" => /\ p \in DOMAIN schemas.search
                                  /\ schemas.search[p] = data[p]
  BY SearchedIs
<1> DEFINE data == CreateResourceSchema(DataSourceSchema, d)
<1>2. s \in DataSourceSchema /\ Len(s.path) = 1 /\ ~NamedID(s)
  BY DEF Top, NamedID
<1>3. PICK t \in d : Front(t.path) = Front(s.path) /\ TerraformName(t) = TerraformName(s)
  <2>1. /\ Len(s.path) = 1 => ~NamedID(s)
        /\ Len(s.path) > 1 => \E t \in d : t.path = Front(s.path)
    BY <1>2
  <2>2. \A v \in DataSourceSchema :
           /\ Len(v.path) = 1 => ~NamedID(v)
           /\ Len(v.path) > 1 => \E w \in d : w.path = Front(v.path)
           => \E w \in d : /\ Front(w.path) = Front(v.path)
                           /\ TerraformName(w) = TerraformName(v)
    BY KeptIs
  <2> QED BY <1>2, <2>1, <2>2, Zenon
<1>4. \A u \in d : /\ u \in DataSourceSchema /\ u.path \in Seq(PathNames(doc))
                   /\ Len(u.path) \in Nat \ {0}
  BY KeptIs, DataSourceReflects, ReflectedPaths
<1>5. Len(t.path) = 1
  <2>1. Len(Front(s.path)) = 0
    BY <1>2, DataSourceReflects, ReflectedPaths DEF Front
  <2>2. Len(Front(t.path)) = Len(t.path) - 1
    <3> DEFINE p == t.path
               m == Len(p) - 1
    <3>1. p \in Seq(PathNames(doc)) /\ m \in 0..Len(p)
      BY <1>4
    <3>2. Len(SubSeq(p, 1, m)) = m
      <4> HIDE DEF p, m
      <4> QED BY <3>1, PrefixIs
    <3> QED BY <3>2 DEF Front
  <2>3. Len(t.path) \in Nat
    BY <1>4
  <2>4. Len(Front(t.path)) = Len(Front(s.path))
    BY <1>3
  <2> DEFINE m == Len(t.path)
  <2>5. m \in Nat /\ m - 1 = 0
    <3>1. m - 1 = Len(Front(t.path))
      BY <2>2
    <3> QED BY <2>1, <2>3, <2>4, <3>1, Zenon
  <2> HIDE DEF m
  <2>6. m = 1
    BY <2>5
  <2> QED BY <2>6 DEF m
<1>6. ASSUME NEW u \in d, Len(u.path) = 1
      PROVE  TerraformPath(d, u) = <<TerraformName(u)>>
  <2>1. u.path = SubSeq(u.path, 1, 1) /\ 1 \in 1..Len(u.path) /\ DOMAIN u.path = 1..1
    BY <1>4, <1>6, SubSeqFull
  <2>2. TerraformPath(d, u)[1] = TerraformName(u)
    <3>1. PICK j \in 1..Len(u.path) : j = 1
      BY <2>1
    <3>2. u.path = SubSeq(u.path, 1, j)
      BY <2>1, <3>1
    <3>3. TerraformPath(d, u)[j] = TerraformName(u)
      BY <3>2, DataSourceReflects, TerraformPathIs
    <3> QED BY <3>1, <3>3
  <2>3. TerraformPath(d, u) = [k \in 1..1 |-> TerraformPath(d, u)[k]]
    BY <1>6 DEF TerraformPath
  <2> QED BY <2>2, <2>3
<1>7. path \in DOMAIN data
  <2>1. TerraformPath(d, t) = path
    BY <1>3, <1>5, <1>6
  <2> HIDE DEF path
  <2> QED BY <2>1 DEF CreateResourceSchema
<1>8. PICK u \in d : TerraformPath(d, u) = path /\ data[path] = Attribute(DataSourceSchema, u)
  <2> HIDE DEF path
  <2>1. PICK v \in d : TerraformPath(d, v) = path
    BY <1>7 DEF CreateResourceSchema
  <2>2. LET u == CHOOSE v1 \in d : TerraformPath(d, v1) = path
        IN u \in d /\ TerraformPath(d, u) = path
    BY <2>1
  <2> QED BY <1>7, <2>2 DEF CreateResourceSchema
<1>9. Len(u.path) = 1
  <2>1. DOMAIN TerraformPath(d, u) = 1..Len(u.path)
    BY DEF TerraformPath
  <2>2. DOMAIN path = 1..1
    OBVIOUS
  <2> HIDE DEF path
  <2>3. 1..Len(u.path) = 1..1
    BY <1>8, <2>1, <2>2
  <2>4. Len(u.path) \in Nat \ {0}
    BY <1>4, <1>8
  <2>5. Len(u.path) \in 1..Len(u.path)
    BY <2>4
  <2>6. Len(u.path) \in 1..1
    BY <2>3, <2>5
  <2> QED BY <2>4, <2>6
<1>10. TerraformName(u) = TerraformName(s)
  BY <1>6, <1>8, <1>9
<1>11. u \in Top(DataSourceSchema)
  BY <1>4, <1>9 DEF Top
<1> HIDE DEF path, data
<1>12. path \in DOMAIN schemas.search /\ schemas.search[path] = data[path]
  BY <1>0, <1>1, <1>7 DEF data
<1> QED BY <1>8, <1>10, <1>11, <1>12 DEF path

\* What a clear property of an object that is searched becomes.
LEMMA AttributeTakes ==
    ASSUME SchemaInv, phase = "ready", NEW item \in Items,
           NEW x \in DocumentProperties, Clear(x), InTerraform(x)[1] # "filter",
           x.path[1] \in DOMAIN item
    PROVE  LET attribute == schemas.search[InTerraform(x)]
               s == Sourced(CreateProperty(x))
           IN /\ InTerraform(x) \in DOMAIN schemas.search
              /\ s.type = x.property.type /\ s.items = x.property.items
              /\ x.property.type = "object" => attribute.type = "map"
              /\ x.property.type = "array" => attribute.type = "list"
              /\ Taken(attribute.type) = KindOf(x.property.type)
              /\ x.property.type = "array" =>
                    Taken(attribute.items) = KindOf(x.property.items)
<1> DEFINE s == Sourced(CreateProperty(x))
           attribute == schemas.search[InTerraform(x)]
<1>1. InTerraform(x) \in DOMAIN schemas.search /\ attribute = Attribute(DataSourceSchema, s)
  BY ClearAttribute
<1>2. s.type = x.property.type /\ s.items = x.property.items /\ s.path = x.path
  BY DEF Sourced, CreateProperty
<1>3. s \in DataSourceSchema
  BY ClearIsThere DEF At
<1>4. ~IsBlock(DataSourceSchema, s)
  <2>1. s \in ConvertToDataSource(GetResourceSchema(setup.doc)) /\ s.path[1] \in DOMAIN item
    BY <1>2, <1>3 DEF DataSourceSchema
  <2>2. setup \in Setups /\ item \in setup.objects \cup setup.later
    BY DEF SchemaInv, Items
  <2> HIDE DEF s
  <2> QED BY <2>1, <2>2, BlocksAssumption DEF DataSourceSchema
<1>5. x.property \in Property /\ ~Unsupported(doc, x.property, FALSE)
  BY PropertiesAre
<1> DEFINE p == x.property
<1>6. /\ p.type \in Primitives \cup {"array", "object", "file"}
      /\ p.items \in Primitives \cup {"", "array", "object", "file"}
      /\ p.type = "array" => p.items \notin {"", "array", "file"}
  BY <1>5 DEF Property, Unsupported
<1>7. /\ attribute.type = CASE s.type = "array" -> "list"
                            [] s.type = "object" -> "map"
                            [] OTHER -> s.type
      /\ attribute.items = s.items
  <2> HIDE DEF s, attribute
  <2>1. (IF IsBlock(DataSourceSchema, s) THEN "object" ELSE s.items) = s.items
    BY <1>4
  <2> QED BY <1>1, <1>4, <2>1 DEF Attribute
<1> HIDE DEF s, attribute, p
<1>8. /\ p.type = "object" => attribute.type = "map"
      /\ p.type = "array" => attribute.type = "list"
      /\ p.type \notin {"object", "array"} => attribute.type = p.type
  BY <1>2, <1>7 DEF p
<1>9. Taken(attribute.type) = KindOf(p.type)
  BY <1>6, <1>8 DEF Taken, KindOf, Primitives
<1>10. p.type = "array" => Taken(attribute.items) = KindOf(p.items)
  BY <1>2, <1>6, <1>7 DEF Taken, KindOf, Primitives, p
<1> QED BY <1>1, <1>2, <1>8, <1>9, <1>10 DEF s, attribute, p

\* What a part of an object that is searched is nested in.
LEMMA HolderTakes ==
    ASSUME SchemaInv, phase = "ready", NEW item \in Items,
           NEW x \in DocumentProperties, Clear(x), InTerraform(x)[1] # "filter",
           x.path[1] \in DOMAIN item, Len(x.path) > 1
    PROVE  LET holder == Written(Front(x.path))
           IN /\ holder \in DOMAIN schemas.search
              /\ schemas.search[holder].type = "map" <=>
                    \E y \in DocumentProperties :
                        y.path = Front(x.path) /\ y.property.type = "object"
<1>0. x.path \in Seq(PathNames(doc)) /\ Len(x.path) \in Nat
  BY DocumentPaths, Depths
<1>1. Front(x.path) = SubSeq(x.path, 1, Len(x.path) - 1) /\ Len(x.path) - 1 \in 1..Len(x.path)
  BY <1>0 DEF Front
<1>2. PICK y \in DocumentProperties :
         /\ y.path = Front(x.path) /\ Len(y.path) = Len(x.path) - 1
         /\ Clear(y) /\ InTerraform(y)[1] = InTerraform(x)[1]
  <2>1. ASSUME NEW j \in 1..Len(x.path)
        PROVE  \E y \in DocumentProperties :
                  /\ y.path = SubSeq(x.path, 1, j) /\ Len(y.path) = j
                  /\ Clear(y) /\ InTerraform(y)[1] = InTerraform(x)[1]
    BY ClearAbove
  <2> DEFINE k == Len(x.path) - 1
  <2>2. k \in 1..Len(x.path) /\ Front(x.path) = SubSeq(x.path, 1, k)
    BY <1>1
  <2> HIDE DEF k
  <2>3. \E y \in DocumentProperties :
           /\ y.path = SubSeq(x.path, 1, k) /\ Len(y.path) = k
           /\ Clear(y) /\ InTerraform(y)[1] = InTerraform(x)[1]
    BY <2>1, <2>2
  <2> QED BY <2>2, <2>3 DEF k
<1>3. y.path[1] = x.path[1]
  BY <1>0, <1>1, <1>2
<1>4. Written(Front(x.path)) = InTerraform(y)
  BY <1>2, WrittenIs
<1>5. HoldsObjects(y.property)
  <2>1. PICK z \in DocumentProperties : z.path = Front(x.path) /\ HoldsObjects(z.property)
    BY HoldersHold
  <2> QED BY <1>2, <2>1, OneDocumented
<1>6. /\ InTerraform(y) \in DOMAIN schemas.search
      /\ y.property.type = "object" => schemas.search[InTerraform(y)].type = "map"
      /\ y.property.type = "array" => schemas.search[InTerraform(y)].type = "list"
  BY <1>2, <1>3, AttributeTakes
<1>7. y.property.type \in {"object", "array"}
  BY <1>5 DEF HoldsObjects
<1>8. \A z \in DocumentProperties : z.path = Front(x.path) => z = y
  BY <1>2, OneDocumented
<1> QED BY <1>2, <1>4, <1>6, <1>7, <1>8

\* What is as documented is converted and fits.
LEMMA DocumentedIsSaved ==
    ASSUME SchemaInv, phase = "ready", NEW item \in Items,
           NEW n \in DOMAIN item, Known(n), SavedName(n) # "filter",
           NEW e \in Parts(n, item[n]), AsDocumented(e)
    PROVE  /\ ConvertPart(Parts(n, item[n]), e) = "done"
           /\ Fits(schemas.search, e)
<1>1. PICK x \in DocumentProperties :
        /\ x.path = e.path /\ Clear(x)
        /\ IF e.listed THEN x.property.type = "array"
                            /\ e.kind \in {"null", KindOf(x.property.items)}
           ELSE IF \E y \in DocumentProperties :
                      y.path = Front(e.path) /\ y.property.type = "object"
           THEN e.kind \notin {"list", "object"}
           ELSE e.kind \in {"null", KindOf(x.property.type)}
  BY DEF AsDocumented
<1>0. x.path \in Seq(PathNames(doc)) /\ Len(x.path) \in 1..StackDepth /\ Len(x.path) \in Nat \ {0}
  <2>1. x.path \in Seq(PathNames(doc)) /\ Len(x.path) \in 1..StackDepth
    BY DocumentPaths
  <2> QED BY <2>1
<1>2. e.path[1] = n
  <2>1. setup \in Setups
    BY DEF SchemaInv
  <2> QED BY <2>1, ItemsAreKnown DEF Parts
<1>3. InTerraform(x)[1] # "filter"
  <2>1. PICK y \in DocumentProperties : /\ y.path = SubSeq(x.path, 1, 1) /\ Clear(y)
                                        /\ NameInTerraform(y) = InTerraform(x)[1]
    BY <1>0, <1>1, ClearAbove
  <2>2. y.path = <<n>>
    <3>1. x.path[1] = n /\ x.path \in Seq(PathNames(doc)) /\ Len(x.path) >= 1
      BY <1>0, <1>1, <1>2
    <3>2. SubSeq(x.path, 1, 1) = <<x.path[1]>>
      BY <3>1, HeadIs
    <3> QED BY <2>1, <3>1, <3>2
  <2>3. At(<<n>>) = {Sourced(CreateProperty(y))}
    BY <2>1, <2>2, ClearIsThere
  <2>4. PropertyNamed(n) \in Top(DataSourceSchema) /\ PropertyNamed(n).path[1] = n
    BY DEF Known, PropertyNamed
  <2>5. PropertyNamed(n).path = <<n>>
    <3>1. PropertyNamed(n).path \in Seq(PathNames(doc)) /\ Len(PropertyNamed(n).path) = 1
      BY <2>4, DataSourceReflects, ReflectedPaths DEF Top
    <3> QED BY <2>4, <3>1
  <2>6. PropertyNamed(n) = Sourced(CreateProperty(y))
    BY <2>3, <2>4, <2>5 DEF At, Top
  <2>7. Documented(y, Sourced(CreateProperty(y)))
    BY SourcedIs DEF Documented
  <2> QED BY <2>1, <2>6, <2>7, DocumentedName DEF SavedName
<1> DEFINE attribute == schemas.search[InTerraform(x)]
           s == Sourced(CreateProperty(x))
<1>4. /\ InTerraform(x) \in DOMAIN schemas.search
      /\ s.type = x.property.type
      /\ x.property.type = "array" =>
            Taken(attribute.items) = KindOf(x.property.items)
      /\ Taken(attribute.type) = KindOf(x.property.type)
  BY <1>1, <1>2, <1>3, AttributeTakes
<1>5. At(e.path) = {s} /\ Written(e.path) = InTerraform(x)
  BY <1>1, ClearIsThere, WrittenIs
<1>6. x.property.type # "list"
  BY PropertiesAre DEF Property, Primitives
<1>7. e.kind = "list" /\ ~e.listed => x.property.type = "array"
  BY <1>1, <1>6 DEF KindOf
<1>8. ConvertPart(Parts(n, item[n]), e) = "done"
  <2> HIDE DEF s
  <2> QED BY <1>4, <1>5, <1>7 DEF ConvertPart
<1> DEFINE inMap == /\ ~e.listed /\ Len(e.path) > 1
                    /\ Written(Front(e.path)) \in DOMAIN schemas.search
                    /\ schemas.search[Written(Front(e.path))].type = "map"
           holder == \E y \in DocumentProperties :
                        y.path = Front(e.path) /\ y.property.type = "object"
<1>9. inMap <=> ~e.listed /\ Len(e.path) > 1 /\ holder
  BY <1>1, <1>2, <1>3, HolderTakes
<1>10. holder => Len(e.path) > 1
  <2> SUFFICES ASSUME NEW y \in DocumentProperties, y.path = Front(e.path)
               PROVE  Len(e.path) > 1
    OBVIOUS
  <2>1. Len(y.path) \in 1..StackDepth
    BY DocumentPaths
  <2>2. Len(y.path) = Len(e.path) - 1
    <3>1. Len(Front(x.path)) = Len(x.path) - 1
      BY <1>0 DEF Front
    <3> QED BY <1>1, <3>1
  <2> QED BY <1>0, <1>1, <2>1, <2>2
<1>11. Fits(schemas.search, e)
  <2> HIDE DEF inMap, holder, attribute
  <2>1. CASE inMap
    <3>1. e.kind \notin {"list", "object"}
      BY <1>1, <1>9, <2>1 DEF holder
    <3> QED BY <2>1, <3>1 DEF Fits, inMap
  <2>2. CASE ~inMap
    <3>1. e.kind \in {"null", Taken(IF e.listed THEN attribute.items ELSE attribute.type)}
      BY <1>1, <1>4, <1>9, <1>10, <2>2 DEF holder
    <3> QED BY <1>4, <1>5, <2>2, <3>1 DEF Fits, inMap, attribute
  <2> QED BY <2>1, <2>2
<1> QED BY <1>8, <1>11

\* And so is a primitive that any namesake would have.
LEMMA PrimitiveIsSaved ==
    ASSUME SchemaInv, phase = "ready", NEW item \in Items,
           NEW n \in DOMAIN item, Known(n), SavedName(n) \notin {"id", "filter"},
           \A s \in Top(DataSourceSchema) :
              TerraformName(s) = SavedName(n) =>
                  s.type \in Primitives /\ item[n].kind = KindOf(s.type),
           NEW e \in Parts(n, item[n])
    PROVE  /\ ConvertPart(Parts(n, item[n]), e) = "done"
           /\ Fits(schemas.search, e)
<1> DEFINE own == PropertyNamed(n)
<1>1. own \in Top(DataSourceSchema) /\ own.path[1] = n /\ TerraformName(own) = SavedName(n)
  BY DEF Known, PropertyNamed, SavedName
<1>2. item[n].kind \in Primitives \ {"integer"}
  BY <1>1 DEF KindOf, Primitives
<1>3. e = [path |-> <<n>>, listed |-> FALSE, kind |-> item[n].kind]
  <2>1. setup \in Setups
    BY DEF SchemaInv
  <2>2. item[n].inner = {}
    BY <1>2, <2>1, ItemsAreKnown DEF Primitives
  <2> QED BY <2>2 DEF Parts
<1>4. e.path = <<n>> /\ ~e.listed /\ e.kind = item[n].kind /\ Len(e.path) = 1
  BY <1>3
<1>5. own.path = <<n>>
  <2>1. own.path \in Seq(PathNames(doc)) /\ Len(own.path) = 1
    BY <1>1, DataSourceReflects, ReflectedPaths DEF Top
  <2> HIDE DEF own
  <2> QED BY <1>1, <2>1
<1> HIDE DEF own
<1>6. At(<<n>>) = {own}
  BY <1>1, <1>5, DataSourceReflects DEF At, Reflects, Top
<1>7. ConvertPart(Parts(n, item[n]), e) = "done"
  <2>1. e.kind # "list"
    BY <1>2, <1>4 DEF Primitives
  <2> QED BY <1>4, <1>6, <2>1 DEF ConvertPart
<1>8. Written(e.path) = <<SavedName(n)>>
  <2>1. SubSeq(<<n>>, 1, 1) = <<n>> /\ Len(<<n>>) = 1
    <3>1. <<n>> \in Seq({n}) /\ Len(<<n>>) = 1
      OBVIOUS
    <3> QED BY ONLY <3>1, SubSeqFull
  <2>2. (CHOOSE s \in At(<<n>>) : TRUE) = own
    BY <1>6
  <2>3. Written(<<n>>) = [k \in 1..1 |-> TerraformName(CHOOSE s \in At(SubSeq(<<n>>, 1, k)) : TRUE)]
    BY <2>1 DEF Written
  <2>4. \A k \in 1..1 :
           TerraformName(CHOOSE s \in At(SubSeq(<<n>>, 1, k)) : TRUE) = SavedName(n)
    <3> SUFFICES ASSUME NEW k \in 1..1
                 PROVE  TerraformName(CHOOSE s \in At(SubSeq(<<n>>, 1, k)) : TRUE)
                           = SavedName(n)
      OBVIOUS
    <3>1. k = 1
      OBVIOUS
    <3>2. SubSeq(<<n>>, 1, k) = <<n>>
      BY <2>1, <3>1
    <3> QED BY <1>1, <2>2, <3>2, Zenon
  <2>5. Written(<<n>>) = [k \in 1..1 |-> SavedName(n)]
    BY <2>3, <2>4
  <2> QED BY <1>4, <2>5
<1>9. PICK t \in Top(DataSourceSchema) :
         /\ TerraformName(t) = SavedName(n)
         /\ <<SavedName(n)>> \in DOMAIN schemas.search
         /\ schemas.search[<<SavedName(n)>>] = Attribute(DataSourceSchema, t)
  BY <1>1, TopAttribute
<1>10. t.type \in Primitives /\ item[n].kind = KindOf(t.type)
  BY <1>9
<1>11. Attribute(DataSourceSchema, t).type = t.type
  BY <1>10 DEF Attribute, IsBlock, Primitives
<1>12. Taken(t.type) = KindOf(t.type)
  BY <1>10 DEF Taken, KindOf, Primitives
<1>13. Fits(schemas.search, e)
  BY <1>4, <1>8, <1>9, <1>10, <1>11, <1>12 DEF Fits
<1> QED BY <1>7, <1>13

\* What stops a search from saving an object is a value that cannot be kept.
LEMMA UnsavedIsUnkeepable ==
    ASSUME SchemaInv, phase = "ready", read.kind = "search", NEW item \in Items,
           Unsaved(item) # {}
    PROVE  Unkeepable(item)
<1>1. PICK n \in Saved(item) : Stops(n, item[n]) # {}
  BY DEF Unsaved
<1>2. SUFFICES ASSUME SavedName(n) # "filter", Savable(n, item[n])
               PROVE  FALSE
  BY <1>1 DEF Unkeepable
<1>3. n \in DOMAIN item /\ Known(n) /\ SavedName(n) # "id"
  BY DEF Saved
<1>4. ASSUME NEW e \in Parts(n, item[n])
      PROVE  /\ ConvertPart(Parts(n, item[n]), e) = "done"
             /\ Fits(schemas.search, e)
  <2>1. CASE AsDocumented(e)
    BY <1>2, <1>3, <2>1, DocumentedIsSaved
  <2>2. CASE ~AsDocumented(e)
    <3>1. \A s \in Top(DataSourceSchema) :
              TerraformName(s) = SavedName(n) =>
                  s.type \in Primitives /\ item[n].kind = KindOf(s.type)
      BY <1>2, <2>2 DEF Savable
    <3> QED BY <1>2, <1>3, <3>1, PrimitiveIsSaved
  <2> QED BY <2>1, <2>2
<1>5. Attributes = schemas.search
  BY DEF Attributes
<1> QED BY <1>1, <1>4, <1>5 DEF Stops

-----------------------------------------------------------------------------
(* Searches                                                                *)

\* What holds of searches, and of the schemas they save with.
SearchInv == ReadInv /\ SchemaInv /\ MatchIsUnique /\ HitsAreFound

\* A search that is done, for the object and the attributes it leaves.
Unique(item) ==
    /\ Answers = {item}
    /\ \A a \in DOMAIN read'.state.attributes : \E n \in Described(item) :
          SavedName(n) = a /\ item[n] = read'.state.attributes[a]
    /\ \A n \in Described(item) :
          SavedName(n) # "id" /\ item[n].kind # "null" =>
              SavedName(n) \in DOMAIN read'.state.attributes

LEMMA MatchIsTheOnlyOne ==
    ASSUME ReadInv, read.pc = "listing", Settled, Cardinality(Matches) = 1,
           NEW item \in Matches
    PROVE  Answers = {item}
<1>1. PICK m : Matches = {m}
  BY AnswersAreFinite, FS_Singleton
<1> QED BY <1>1, MatchesAreMeant, NoOtherIsMeant

LEMMA DoneIsUnique ==
    ASSUME ReadInv, read.pc = "listing", Settled, Cardinality(Matches) = 1,
           NEW item \in Matches, Ends(item), read'.pc = "done"
    PROVE  Unique(item)
<1>1. Answers = {item}
  BY MatchIsTheOnlyOne
<1>2. Tells(item, read'.state.attributes)
  BY DEF Ends
<1>3. \A n \in Described(item) :
          SavedName(n) # "id" /\ item[n].kind # "null" => n \in Saved(item)
  BY DEF Described, Saved
<1> QED BY <1>1, <1>2, <1>3 DEF Tells, Unique

LEMMA NotDoneIsUnkeepable ==
    ASSUME ReadInv, SchemaInv, read.pc = "listing", NEW item \in Matches, Ends(item),
           read'.pc # "done"
    PROVE  Unkeepable(item)
<1>1. item \in Items /\ setup \in Setups
  BY Searching DEF Matches
<1>2. CASE "missing" \in IDs(item) \/ "panicked" \in IDs(item)
  BY <1>1, <1>2, IdOfNone
<1>3. CASE IDs(item) = {}
  BY <1>3 DEF IDs, Unkeepable
<1>4. CASE Unsaved(item) # {}
  <2>1. phase = "ready" /\ read.kind = "search"
    BY DEF ReadInv, Reading
  <2> QED BY <1>1, <1>4, <2>1, UnsavedIsUnkeepable
<1> QED BY <1>2, <1>3, <1>4 DEF Ends

LEMMA FailedWithoutMatch ==
    ASSUME ReadInv, read.pc = "listing", Settled, Cardinality(Matches) # 1,
           Cardinality(Answers) = 1
    PROVE  Defeats
<1>1. SUFFICES ASSUME ~Defeats
               PROVE  FALSE
  OBVIOUS
<1>2. Matches \subseteq Answers /\ Answers \subseteq Matches
  BY <1>1, MatchesAreMeant, MeantIsMatched
<1>3. Matches = Answers
  BY <1>2
<1> QED BY <1>3

\* What can be kept depends on the document alone.
LEMMA DocumentKeeps ==
    ASSUME setup' = setup
    PROVE  /\ \A name : PropertyNamed(name)' = PropertyNamed(name) /\ Known(name)' = Known(name)
           /\ \A n : SavedName(n)' = SavedName(n)
           /\ \A item : Described(item)' = Described(item)
           /\ \A item : Unkeepable(item)' = Unkeepable(item)
<1>1. DataSourceSchema' = DataSourceSchema
  BY DEF DataSourceSchema
<1>2. \A name : PropertyNamed(name)' = PropertyNamed(name) /\ Known(name)' = Known(name)
  BY <1>1 DEF PropertyNamed, Known
<1>3. \A n : SavedName(n)' = SavedName(n)
  BY <1>2 DEF SavedName
<1>4. \A item : Described(item)' = Described(item)
  BY <1>2 DEF Described
<1>5. \A item : Unkeepable(item)' = Unkeepable(item)
  <2>1. \A e : AsDocumented(e)' = AsDocumented(e)
    BY DEF AsDocumented, KindOf, DocumentProperties, Clear, Lineage, InTerraform,
           NameInTerraform, ParentInTerraform
  <2>2. \A n, value : Savable(n, value)' = Savable(n, value)
    BY <1>1, <1>3, <2>1 DEF Savable, Parts, KindOf
  <2>3. \A item : Saved(item)' = Saved(item)
    BY <1>2, <1>3 DEF Saved
  <2> QED BY <1>1, <1>3, <2>2, <2>3 DEF Unkeepable
<1> QED BY <1>2, <1>3, <1>4, <1>5

\* The properties of the read that an answer has ended.
LEMMA Afterwards ==
    ASSUME setup' = setup, read'.filters = read.filters, read'.body = objects
    PROVE  /\ Hits' = Answers
           /\ Defeated' = Defeats
           /\ \A item : Unkeepable(item)' = Unkeepable(item)
           /\ \A item : Described(item)' = Described(item)
           /\ \A n : SavedName(n)' = SavedName(n)
<1>1. Hits' = Answers
  BY DEF Hits, Answers, Meant
<1>2. Defeated' = Defeats
  BY DocumentKeeps DEF Defeated, Defeats
<1> QED BY <1>1, <1>2, DocumentKeeps

LEMMA NextSearchInv ==
    ASSUME SearchInv, [Next]_vars
    PROVE  SearchInv'
<1>0. ReadInv /\ ReadInv' /\ SchemaInv /\ SchemaInv' /\ setup' = setup
  BY NextReadInv, NextSchemaInv, SetupStays DEF SearchInv
<1>1. CASE UNCHANGED <<setup, read, found>>
  <2>1. MatchIsUnique' = MatchIsUnique
    BY <1>1 DEF MatchIsUnique, Hits, Meant, Described, From, SavedName, PropertyNamed,
                Known, DataSourceSchema
  <2>2. HitsAreFound' = HitsAreFound
    <3>1. Hits' = Hits /\ Defeated' = Defeated
      BY <1>1 DEF Hits, Meant, Defeated, PropertyNamed, Known, DataSourceSchema
    <3>2. \A item : Unkeepable(item)' = Unkeepable(item)
      BY <1>1, DocumentKeeps
    <3> QED BY <1>1, <3>1, <3>2 DEF HitsAreFound
  <2> QED BY <1>0, <2>1, <2>2 DEF SearchInv
<1>2. CASE Turning
  <2>1. ~read'.answered /\ read'.pc # "done"
    BY <1>0, <1>2, TurnsAreShaped DEF ReadInv
  <2> QED BY <1>0, <2>1 DEF SearchInv, MatchIsUnique, HitsAreFound
<1>3. CASE Answering
  <2>1. /\ read'.kind = read.kind /\ read'.filters = read.filters
        /\ read'.body = objects
    BY <1>0, <1>3, AnswersEnd
  <2>2. CASE read.pc = "getting"
    <3>1. read'.kind = "instance"
      BY <1>0, <2>1, <2>2 DEF ReadInv
    <3> QED BY <1>0, <3>1 DEF SearchInv, MatchIsUnique, HitsAreFound
  <2>3. CASE read.pc = "listing" /\ ~Settled /\ read'.pc = "panicked"
    <3>1. Defeated'
      BY <1>0, <2>1, <2>3, PanicsDefeat, Afterwards
    <3> QED BY <1>0, <2>3, <3>1 DEF SearchInv, MatchIsUnique, HitsAreFound
  <2>4. CASE /\ read.pc = "listing" /\ Settled /\ Cardinality(Matches) # 1
             /\ read'.pc = "failed"
    <3>1. Cardinality(Hits)' = 1 => Defeated'
      BY <1>0, <2>1, <2>4, FailedWithoutMatch, Afterwards
    <3> QED BY <1>0, <2>4, <3>1 DEF SearchInv, MatchIsUnique, HitsAreFound
  <2>5. ASSUME read.pc = "listing", Settled, Cardinality(Matches) = 1,
               NEW item \in Matches, Ends(item)
        PROVE  SearchInv'
    <3>1. Hits' = {item}
      BY <1>0, <2>1, <2>5, MatchIsTheOnlyOne, Afterwards
    <3>2. CASE read'.pc = "done"
      <4>1. Unique(item)
        BY <1>0, <2>5, <3>2, DoneIsUnique
      <4>2. /\ Described(item)' = Described(item)
            /\ \A n : SavedName(n)' = SavedName(n)
        BY <1>0, <2>1, Afterwards
      <4>3. \A a \in DOMAIN read'.state.attributes : From(item, a)'
        BY <4>1, <4>2 DEF From, Unique
      <4>4. \A n \in Described(item)' :
                SavedName(n)' # "id" /\ item[n].kind # "null" =>
                    SavedName(n)' \in DOMAIN read'.state.attributes
        BY <4>1, <4>2 DEF Unique
      <4>5. Cardinality(Hits)' = 1
        BY <3>1, FS_Singleton
      <4> QED BY <1>0, <3>1, <3>2, <4>3, <4>4, <4>5
              DEF SearchInv, MatchIsUnique, HitsAreFound
    <3>3. CASE read'.pc # "done"
      <4>1. Unkeepable(item)'
        BY <1>0, <2>1, <2>5, <3>3, NotDoneIsUnkeepable, Afterwards
      <4> QED BY <1>0, <3>1, <3>3, <4>1 DEF SearchInv, MatchIsUnique, HitsAreFound
    <3> QED BY <3>2, <3>3
  <2> QED BY <1>0, <1>3, <2>2, <2>3, <2>4, <2>5, AnswersEnd
<1> QED BY <1>1, <1>2, <1>3, NextSteps, <1>0

LEMMA InitSearchInv ==
    ASSUME Init
    PROVE  SearchInv
<1>1. ReadInv /\ read.kind = "none" /\ read.pc = "idle"
  BY InitHolds
<1>2. SchemaInv
  BY DEF Init, SchemaInv
<1> QED BY <1>1, <1>2 DEF SearchInv, MatchIsUnique, HitsAreFound

(***************************************************************************)
(* A search that succeeds has found the only object its filters mean, and  *)
(* tells in the state what the API says of it, for all documents,          *)
(* collections and filters (read of data_source_factory.go).               *)
(***************************************************************************)
THEOREM MatchesAreUnique == Spec => []MatchIsUnique
<1>1. Init => SearchInv
  BY InitSearchInv
<1>2. SearchInv /\ [Next]_vars => SearchInv'
  BY NextSearchInv
<1>3. SearchInv => MatchIsUnique
  BY DEF SearchInv
<1> QED BY <1>1, <1>2, <1>3, PTL DEF Spec

(***************************************************************************)
(* And the only object that the filters mean is found, but for integers,   *)
(* nulls, numbers written in another way and what cannot be kept           *)
(* (filterMatch, setStateID).                                              *)
(***************************************************************************)
THEOREM HitsGetFound == Spec => []HitsAreFound
<1>1. Init => SearchInv
  BY InitSearchInv
<1>2. SearchInv /\ [Next]_vars => SearchInv'
  BY NextSearchInv
<1>3. SearchInv => HitsAreFound
  BY DEF SearchInv
<1> QED BY <1>1, <1>2, <1>3, PTL DEF Spec
=============================================================================
