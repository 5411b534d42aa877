-------------------------- MODULE PropertyLifecycle --------------------------
(***************************************************************************)
(* One property of a resource through create, read and update              *)
(* (openapi/resource_factory.go, common.go), from the configuration into   *)
(* the API and back into the state, refresh after refresh.  A second,      *)
(* plain property lets the resource change while the first one does not.   *)
(* What can happen between a handler's calls is ResourceCrud's concern:    *)
(* here each handler is one step, and the API does what it is asked.       *)
(***************************************************************************)
EXTENDS PropertyValues

CONSTANTS
    Schemas,       \* the descriptions the property may have
    ConfigValues,  \* [schema -> what the user may configure]
    RemoteValues,  \* [schema -> what other clients may make of it in the API]
    Others         \* values of the second property

IsSeq(s) == s \in Seq(ToSet(s))

\* The names of an object's properties are the keys of a map of the document,
\* and only lists may say that their order means nothing.
ASSUME SchemasAssumption ==
    \A p \in Schemas :
        /\ p.type \in Primitives \cup {"list", "object"}
        /\ p.items \in Primitives \cup {"", "object"}
        /\ IF p.type = "list" THEN p.items # "" ELSE p.items = "" /\ ~p.ignoreOrder
        /\ IsSeq(p.children)
        /\ \A c, d \in ToSet(p.children) : c.name = d.name => c = d
        /\ \A c \in ToSet(p.children) : c.type \in Primitives

\* A primitive as Terraform holds it, in an object as text.
TypedLeaf(type, v) ==
    CASE type = "string" -> v[1] = "string"
      [] type = "integer" -> v = GoInt(v[2]) /\ v[2] \in Int
      [] type = "number" -> v = Float(v[2]) /\ v[2] \in Int
      [] OTHER -> v = <<"bool", v[2]>>
IsText(v) ==
    v = Text(v[2], v[3]) /\ (v[2] \in {"int", "float", "padded"} => v[3] \in Int)
IsMap(m) == m = Map([name \in DOMAIN m[2] |-> m[2][name]])
TypedMap(p, m) ==
    /\ IsMap(m) /\ DOMAIN m[2] \subseteq TfNames(p)
    /\ \A c \in ToSet(p.children) : c.tf \in DOMAIN m[2] =>
          IF p.type = "object" THEN IsText(m[2][c.tf]) ELSE TypedLeaf(c.type, m[2][c.tf])
Configured(p, v) ==
    CASE p.type = "list" ->
            /\ v = List(v[2]) /\ IsSeq(v[2])
            /\ \A x \in ToSet(v[2]) :
                  IF p.items = "object" THEN TypedMap(p, x) ELSE TypedLeaf(p.items, x)
      [] p.type = "object" -> TypedMap(p, v)
      [] OTHER -> TypedLeaf(p.type, v)

\* Terraform lets nothing else be configured.
ASSUME ConfigAssumption ==
    \A p \in Schemas : \A v \in ConfigValues[p] \ {Nil} : Configured(p, v)

\* JSON where the document has a value of this type: its numbers are floats,
\* and whole where it has integers.
ConformingValue(type, v) ==
    CASE type = "string" -> v[1] = "string"
      [] type = "boolean" -> v = <<"bool", v[2]>>
      [] OTHER -> /\ v = Float(v[2]) /\ v[2] \in Int
                  /\ type = "integer" => v[2] % 1000 = 0
\* ... or nothing, but not in a list.
ConformingLeaf(type, v) == v = Nil \/ ConformingValue(type, v)
ConformingMap(p, m) ==
    /\ IsMap(m)
    /\ \A c \in ToSet(p.children) : ConformingLeaf(c.type, Get(m, c.name))
Conforming(p, v) ==
    CASE p.type = "list" ->
            /\ v = List(v[2]) /\ IsSeq(v[2])
            /\ \A x \in ToSet(v[2]) :
                  IF p.items = "object" THEN ConformingMap(p, x)
                                        ELSE ConformingValue(p.items, x)
      [] p.type = "object" -> ConformingMap(p, v)
      [] OTHER -> ConformingLeaf(p.type, v)

\* The API (external) keeps to its document, but for what it adds.
ASSUME RemoteAssumption ==
    \A p \in Schemas : \A v \in RemoteValues[p] : Conforming(p, v)

VARIABLES
    schema,    \* the property
    config,    \* what is configured
    state,     \* what Terraform has in the state, or Absent
    remote,    \* what the API has, or Absent
    op,        \* the handler that ran last
    result,    \* how it ended
    applied,   \* history: whether the configuration has been applied
    edited     \* history: whether other clients have changed anything since

vars == <<schema, config, state, remote, op, result, applied, edited>>

Both(subject, other) == [subject |-> subject, other |-> other]
Absent == Both(Nil, "absent")
Configs == {Both(v, o) : v \in ConfigValues[schema], o \in Others}

Init ==
    /\ schema \in Schemas
    /\ config \in Configs
    /\ state = Absent
    /\ remote = Absent
    /\ op = "none"
    /\ result = "none"
    /\ applied = FALSE
    /\ edited = FALSE

\* The API (external) may return a list whose order means nothing in any order.
Rearranged(object) ==
    IF schema.ignoreOrder /\ object.subject # Nil
    THEN LET s == object.subject[2]
         IN {Both(List([k \in DOMAIN s |-> s[f[k]]]), object.other) :
                f \in Bijection(DOMAIN s, DOMAIN s)}
    ELSE {object}

-----------------------------------------------------------------------------
(* updateStateWithPayloadData, over the values in the ResourceData.        *)

\* Mutant: the order of the API is taken over.
OrderedAsReceived(data, response) == response

\* For a list that is not there Terraform gives an empty one.
Ordered(data, response) ==
    IF schema.ignoreOrder /\ data # Nil
    THEN ProcessIgnoreOrder(schema, data, response) ELSE response

\* What the payload lacks stays as it is.
Saved(data, response) ==
    IF response = Nil THEN data
    ELSE LET v == Convert(schema, Ordered(data, response))
         IN IF v = Failed THEN Failed ELSE Settled(schema, v)

SavePanics(data, response) ==
    /\ schema.ignoreOrder /\ Nil \notin {data, response}
    /\ IgnoreOrderPanics(schema, data, response)

\* After a panic Terraform keeps the state it had.
Save(data, response, success) ==
    IF SavePanics(data.subject, response.subject)
    THEN state' = state /\ result' = "panic"
    ELSE LET v == Saved(data.subject, response.subject)
         IN IF v = Failed THEN state' = data /\ result' = "failed"
            ELSE state' = Both(v, response.other) /\ result' = success

Remember ==
    IF result' = "immutable" THEN UNCHANGED <<applied, edited>>
    ELSE applied' = (result' = "ok") /\ edited' = FALSE

-----------------------------------------------------------------------------
(* The handlers                                                            *)

Create ==
    /\ state = Absent
    /\ op' = "create"
    /\ remote' = Both(Json(Populate(schema, config.subject)), config.other)
    /\ \E response \in Rearranged(remote') : Save(config, response, "ok")
    /\ Remember
    /\ UNCHANGED <<schema, config>>

Read ==
    /\ state # Absent
    /\ op' = "read"
    /\ \E response \in Rearranged(remote) : Save(state, response, "ok")
    /\ UNCHANGED <<schema, config, remote, applied, edited>>

\* Terraform (external) updates what differs.
MustUpdate == state # Absent /\ state # config

\* The PUT, with what the API had as its value of a property left out.
Put ==
    LET payload == Populate(schema, config.subject)
    IN /\ remote' = Both(IF payload = Nil THEN remote.subject ELSE Json(payload),
                         config.other)
       /\ \E response \in Rearranged(remote') : Save(config, response, "ok")

\* checkImmutableFields first; what it read is saved if it refuses.
Update ==
    /\ MustUpdate
    /\ op' = "update"
    /\ \E checked \in Rearranged(remote) :
          LET local == Populate(schema, config.subject)
          IN IF ImmutablePanics(schema, checked.subject, local)
             THEN result' = "panic" /\ UNCHANGED <<state, remote>>
             ELSE IF ImmutableViolated(schema, checked.subject, local)
             THEN Save(config, checked, "immutable") /\ UNCHANGED remote
             ELSE Put
    /\ Remember
    /\ UNCHANGED <<schema, config>>

\* The user edits the configuration; an object is not taken out of it.
Configure ==
    /\ config' \in Configs \ {config}
    /\ config'.subject = Nil => config.subject = Nil
    /\ op' = "none"
    /\ result' = "none"
    /\ applied' = FALSE
    /\ UNCHANGED <<schema, state, remote, edited>>

\* Another client of the API edits the property.
Edit ==
    /\ remote.subject # Nil
    /\ \E v \in RemoteValues[schema] \ {remote.subject} :
          remote' = [remote EXCEPT !.subject = v]
    /\ edited' = TRUE
    /\ op' = "none"
    /\ result' = "none"
    /\ UNCHANGED <<schema, config, state, applied>>

Next == Create \/ Read \/ Update \/ Configure \/ Edit

Spec == Init /\ [][Next]_vars
=============================================================================
