------------------------ MODULE PropertyLifecycleProps ------------------------
(***************************************************************************)
(* What must be true of a property's value in the configuration, the state *)
(* and the API.                                                            *)
(***************************************************************************)
EXTENDS PropertyLifecycle

-----------------------------------------------------------------------------
(* The reference: the JSON a value of Terraform's means, under the names   *)
(* of the API; text that is for no string is for what it looks like.       *)

MeantLeaf(type, v) ==
    IF v[1] = "int" THEN Float(1000 * v[2])
    ELSE IF v[1] # "string" \/ type = "string" \/ v[2] = "word" THEN v
    ELSE CASE v[2] = "int" -> Float(1000 * v[3])
           [] v[2] = "bool" -> <<"bool", v[3]>>
           [] OTHER -> Float(v[3])
MeantItem(v) ==
    IF v[1] = "map"
    THEN Map([n \in {TfNamed(schema, tf).name : tf \in DOMAIN v[2]} |->
                 MeantLeaf(Named(schema, n).type, v[2][Named(schema, n).tf])])
    ELSE MeantLeaf(IF schema.type = "list" THEN schema.items ELSE schema.type, v)
Meant(v) == IF v[1] = "list" THEN Each(v, MeantItem) ELSE MeantItem(v)

\* A list whose order means nothing is the same rearranged.
Permuted(s, t) ==
    \E f \in Bijection(DOMAIN s, DOMAIN t) : \A k \in DOMAIN s : s[k] = t[f[k]]
Same(a, b) ==
    IF schema.ignoreOrder /\ Nil \notin {a, b} THEN Permuted(a[2], b[2]) ELSE a = b

\* The two say the same of what there is, though maybe not of how often.
SameItems(a, b) ==
    IF schema.ignoreOrder /\ Nil \notin {a, b} THEN ToSet(a[2]) = ToSet(b[2])
                                               ELSE a = b
Times(v, x) == Cardinality({k \in DOMAIN v[2] : v[2][k] = x})

\* A number that an object holds as text comes back as it went if it has two
\* decimals, or is 0.
TwoDecimals(text) == text = Text("int", 0) \/ (text[2] = "float" /\ text[3] % 10 = 0 /\ text[3] % 100 # 0)
Exact(v) ==
    (schema.type = "object" /\ v.subject # Nil) =>
        \A c \in ToSet(schema.children) :
            (c.type = "number" /\ Has(v.subject, c.tf)) => TwoDecimals(v.subject[2][c.tf])
Rounded(v) ==
    IF schema.type # "object" THEN v
    ELSE Map([n \in DOMAIN v[2] |->
                 IF v[2][n][1] = "float" THEN Float(((v[2][n][2] + 5) \div 10) * 10)
                                         ELSE v[2][n]])
\* Names of properties in an object: two are the same for Terraform, or one has
\* for Terraform the name that another has for the API.
Shared == \E c, d \in ToSet(schema.children) : c # d /\ c.tf = d.tf
Crossed == \E c, d \in ToSet(schema.children) : c # d /\ c.tf = d.name
Integers == schema.items = "integer" \/ \E c \in ToSet(schema.children) : c.type = "integer"

-----------------------------------------------------------------------------
(***************************************************************************)
(* After a successful create or update, and as long as nobody else touches *)
(* the API, the plan is empty: the state says what the configuration says, *)
(* in whatever order the API returns a list, refresh after refresh.        *)
(* Excepted are a number in an object, which comes back with two decimals, *)
(* and the order of lists of integers or of objects whose names cross,     *)
(* which is not ignored.                                                   *)
(***************************************************************************)
NoDiffAfterApply ==
    (/\ result = "ok" /\ applied /\ ~edited
     /\ Exact(config) /\ ~(schema.ignoreOrder /\ (Integers \/ Crossed)))
    => state = config

\* Of the objects in a list, what the document describes.
Documented(v) ==
    IF schema.items = "object"
    THEN Each(v, LAMBDA m : Map([n \in DOMAIN m[2] \cap Names(schema) |-> m[2][n]]))
    ELSE Rounded(v)

(***************************************************************************)
(* What is saved as the state of a property is what the API has.  Of a     *)
(* list whose order means nothing it is the items: the state has an item   *)
(* if and only if the API has it, so that one that somebody added, or of   *)
(* which none is left, shows up in the state.  How often it has the item   *)
(* is RepeatsAreKept's.  Numbers in an object are rounded.  Of two         *)
(* properties of an object that have one name for Terraform only one can   *)
(* be there.                                                               *)
(***************************************************************************)
StateTellsTheTruth ==
    (result = "ok" /\ remote.subject # Nil /\ ~Shared) =>
        SameItems(Meant(state.subject), Documented(remote.subject))

\* What an answer is saved over: what is configured, or the state.
SavedOver == IF op' = "read" THEN state.subject ELSE config.subject

(***************************************************************************)
(* An item that the user's list has, and the API still has, is saved as    *)
(* often as the user has it, however often the API has it; any other item  *)
(* as often as the API has it.  Repeating an item, or removing one of two, *)
(* behind Terraform's back therefore never shows                           *)
(* (processIgnoreOrderIfEnabled compares with the first item that is       *)
(* equal, and uses none of them up).                                       *)
(***************************************************************************)
RepeatsAreKept ==
    [][(/\ op' \in {"create", "read", "update"} /\ result' = "ok"
        /\ remote'.subject # Nil
        /\ schema.ignoreOrder /\ ~Integers /\ ~Crossed /\ ~Shared) =>
          LET api == Documented(remote'.subject)
              had == Meant(SavedOver)
          IN \A x \in ToSet(api[2]) :
                Times(Meant(state'.subject), x) =
                    IF SavedOver # Nil /\ x \in ToSet(had[2])
                    THEN Times(had, x) ELSE Times(api, x)]_vars

(***************************************************************************)
(* A refresh does not rearrange what is left of a list: of two items that  *)
(* the state had and has, the one before the other stays before it         *)
(* (docs/how_to.md, x-terraform-ignore-order: "the order for the elements  *)
(* in the input list provided by the user is maintained").                 *)
(***************************************************************************)
Before(s, a, b) == \E i, j \in DOMAIN s : i < j /\ s[i] = a /\ s[j] = b
RefreshKeepsOrder ==
    [][(/\ Read /\ result' = "ok" /\ Nil \notin {state.subject, state'.subject}
        /\ schema.ignoreOrder /\ ~Integers /\ ~Crossed) =>
          \A a, b \in ToSet(state.subject[2]) \cap ToSet(state'.subject[2]) :
              (a # b /\ ~Before(state.subject[2], b, a)) =>
                  Before(state'.subject[2], a, b)]_vars

\* The part of the API's value that no update may change; of an object it is
\* what the document describes, the API may have more in it.
View(m, names) == Map([n \in names |-> Get(m, n)])
Kept == {c.name : c \in {d \in ToSet(schema.children) : d.immutable \/ schema.immutable}}
Frozen(v) ==
    IF v = Nil THEN Nil
    ELSE IF schema.type = "object" THEN View(v, Kept)
    ELSE IF ~schema.immutable THEN Nil
    ELSE IF schema.items = "object" THEN Each(v, LAMBDA m : View(m, Kept))
    ELSE v

(***************************************************************************)
(* No update changes an immutable property, a property of an immutable     *)
(* object, or an immutable property of another object (docs/how_to.md,     *)
(* x-terraform-immutable).                                                 *)
(***************************************************************************)
UpdatesKeepFrozen ==
    [][(op' = "update" /\ remote' # remote) =>
          Same(Frozen(remote'.subject), Frozen(remote.subject))]_vars

(***************************************************************************)
(* An update is refused only if it asks for another value of something     *)
(* immutable: the error says "user attempted to update an immutable ..."   *)
(* (validateImmutableProperty).                                            *)
(***************************************************************************)
OnlyAttemptsAreRefused ==
    result = "immutable" =>
        ~Same(Frozen(Meant(config.subject)), Frozen(remote.subject))

(***************************************************************************)
(* ... and so it is, unless integers are inside a list or an object, or    *)
(* the list's order means nothing.                                         *)
(***************************************************************************)
ComparableAttempts == OnlyAttemptsAreRefused \/ Integers \/ schema.ignoreOrder
=============================================================================
