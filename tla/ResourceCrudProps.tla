-------------------------- MODULE ResourceCrudProps --------------------------
(***************************************************************************)
(* What must be true of the handlers of ResourceCrud.                      *)
(***************************************************************************)
EXTENDS ResourceCrud

ResourceData ==
    [id : Ids \cup {Null}, vals : Payload, status : Statuses \cup {Null}]
StateEntry ==
    [id : Ids \cup {Null}, vals : Payload, status : Statuses \cup {Null},
     tainted : BOOLEAN]
Points == {"idle", "post", "get", "check", "put", "delete", "poll", "refresh"}
Outcomes == {"ok", "missing", "failed", "immutable", "unread", "timeout",
             "crashed"}

\* Every variable keeps its type (ResourceData, state entry, HTTP messages).
TypeOK ==
    /\ ApiTypeOK
    /\ config \in Config \cup {Null}
    /\ entry \in StateEntry
    /\ data \in ResourceData
    /\ op \in {"none", "create", "read", "update", "delete", "import"}
    /\ pc \in Points
    /\ result \in Outcomes \cup {"none"}
    /\ owned \subseteq Ids
    /\ drift \in BOOLEAN

\* The OpenAPI document makes the provider wait for asynchronous deletes, and
\* the API does not use the status the provider reserves for "not found".
DeletesAreWatched ==
    /\ <<"DELETE", 202>> \in Polled
    /\ Destroyed \notin Statuses

\* ... and for asynchronous creates and updates, with target statuses that an
\* object under work does not have.
WritesAreWatched ==
    /\ {<<"POST", 202>>, <<"PUT", 202>>} \subseteq Polled
    /\ Working \cap PollTarget = {}
    /\ Destroyed \notin PollTarget

(***************************************************************************)
(* No object is lost: one whose identifier the API told Terraform of stays *)
(* in the state file, or in the ResourceData of the operation under way,   *)
(* until the API has removed it.  create stores the identifier before it   *)
(* polls, delete drops it only on 404, on a synchronous success or at the  *)
(* end of the polling.                                                     *)
(***************************************************************************)
NoLeak ==
    DeletesAreWatched =>
        \A id \in owned :
            \/ remote[id].life = "gone"
            \/ id = entry.id
            \/ pc # "idle" /\ id = data.id

(***************************************************************************)
(* The provider never changes an immutable property of an object: the PUT  *)
(* is sent only after checkImmutableFields has compared the plan with the  *)
(* object, and whatever happens between the two does not matter.           *)
(***************************************************************************)
ImmutableKept ==
    [][\A id \in Ids, p \in Immutable :
          remote[id].life = "live" => remote'[id].vals[p] = remote[id].vals[p]
      ]_remote

(***************************************************************************)
(* When an operation reports success and nobody else touched the API, the  *)
(* state file holds the values of the object it names.                     *)
(***************************************************************************)
StateMirrorsObject ==
    (pc = "idle" /\ result = "ok" /\ ~drift /\ op # "delete") =>
        /\ Tracked
        /\ entry.vals = remote[entry.id].vals

(***************************************************************************)
(* An update aborted for an immutable property leaves the object's values  *)
(* in the state file, not the planned ones, so that the next plan still    *)
(* shows the difference (the rollback of checkImmutableFields).            *)
(***************************************************************************)
AbortRollsBack ==
    (pc = "idle" /\ result = "immutable" /\ ~drift) =>
        /\ Tracked
        /\ entry.vals = remote[entry.id].vals

(***************************************************************************)
(* With polling configured, create and update report success only when the *)
(* API has finished the work, and the state never keeps a status in        *)
(* progress for a created object.                                          *)
(***************************************************************************)
SuccessMeansDone ==
    (WritesAreWatched /\ pc = "idle" /\ result = "ok") =>
        /\ op \in {"create", "update"} =>
             Tracked /\ remote[entry.id].job # "write"
        /\ op = "create" => entry.status \notin Working

\* The OpenAPI document lists the statuses of an object under work as pending
\* and not as a target, for a resource that polling can read.
PollingIsListed ==
    /\ NParents = 0
    /\ (Working \cup Removing) \cap PollTarget = {}
    /\ PollPending = {} \/ Working \cup Removing \subseteq PollPending

(***************************************************************************)
(* Polling ends because the target was reached, the operation timed out,   *)
(* the API failed to answer, or the API is no longer working on the object *)
(* (docs/how_to.md, x-terraform-resource-poll-enabled: it "finalises if    *)
(* the remote resource state arrives at completion, failure state or       *)
(* times-out").                                                            *)
(***************************************************************************)
PollEndsForAReason ==
    [][(pc \in {"poll", "refresh"} /\ pc' = "idle") =>
          \/ result' \in {"ok", "timeout", "crashed"}
          \/ net.kind = "resp" /\ net.code \in {0, 500}
          \/ remote[data.id].job = "none"
      ]_vars

(***************************************************************************)
(* The handlers implement ResourceHandle.                                  *)
(***************************************************************************)
Handle == INSTANCE ResourceHandle WITH
    born <- {id \in Ids : remote[id].life # "unused"},
    dead <- {id \in Ids : remote[id].life = "gone"},
    handle <- entry.id

ImplementsHandle == Handle!Spec

(***************************************************************************)
(* Every operation ends: each call is answered or fails, and polling ends  *)
(* when the API is done, or by the operation's timeout.                    *)
(***************************************************************************)
OperationEnds == (pc # "idle") ~> (pc = "idle")

\* The plan wants a value of an immutable property that the object does not
\* have: by design no apply can succeed.
Blocked ==
    /\ Tracked
    /\ config # Null
    /\ \E p \in Immutable : remote[entry.id].vals[p] # config[p]

InSync ==
    IF config = Null THEN ~Tracked
    ELSE /\ Tracked
         /\ Live(entry.id)
         /\ remote[entry.id].vals = config

\* The state names an object that is gone and is as configured: the plan has
\* nothing against it, and read does not report a 404, so Terraform never
\* creates it again.
Vanished ==
    /\ Tracked
    /\ config # Null
    /\ Diff = {} /\ ~entry.tainted
    /\ remote[entry.id].life = "gone"

(***************************************************************************)
(* Once nothing goes wrong any more, running Terraform again and again     *)
(* makes the API match the configuration for good, whatever the failures   *)
(* left behind: planned values kept in the state by a failed update, a     *)
(* tainted entry, a half-done delete or replacement, be the object still   *)
(* there or gone.  Two ends are excepted: a plan that asks for another     *)
(* value of an immutable property, and an object that is gone while the    *)
(* state has all of the configuration and no taint.                        *)
(***************************************************************************)
Converges == <>[](InSync \/ Blocked \/ Vanished)
-----------------------------------------------------------------------------
(* The inductive invariant: what every safety property above rests on.     *)

MethodOf == [post |-> "POST", get |-> "GET", check |-> "GET", put |-> "PUT",
             delete |-> "DELETE", refresh |-> "GET"]

\* The message in flight is the one the handler waits for.
CallMatches ==
    IF pc \in {"idle", "poll"} THEN net = Quiet
    ELSE /\ net.kind \in {"req", "resp"}
         /\ net.method = MethodOf[pc]
         /\ pc # "post" => net.id = data.id

\* The ResourceData is that of the operation under way.
DataMatches ==
    /\ pc = "idle" => data = NoData
    /\ pc = "post" => op = "create"
    /\ pc = "get" => op \in {"read", "import"}
    /\ pc \in {"check", "put"} => op = "update" /\ data.vals \in Config
    /\ pc = "delete" => op = "delete"
    /\ pc \in {"poll", "refresh"} => op \in {"create", "update", "delete"}
    /\ pc # "idle" => IF op \in {"create", "import"}
                      THEN entry.id = Null
                      ELSE data.id = entry.id
    /\ pc = "post" => data.id = Null
    /\ pc \notin {"idle", "post"} => data.id \in Ids

\* Identifiers Terraform holds are identifiers of objects that were created.
HeldIdsExist ==
    /\ Tracked => remote[entry.id].life # "unused"
    /\ pc \in {"poll", "refresh"} => remote[data.id].life # "unused"

\* What an answer in flight still says of the object when it is read.
AnswerHolds ==
    net.kind = "resp" =>
        /\ net.method = "POST" /\ net.code \in {200, 201, 202} /\ net.id # Null
              => remote[net.id].life # "unused"
        /\ net.method # "POST" /\ net.code = 404 => ~Live(net.id)
        /\ net.method = "GET" /\ net.code = 200
              => /\ remote[net.id].life # "unused"
                 /\ \A p \in Immutable : net.vals[p] = remote[net.id].vals[p]
        /\ net.method = "DELETE" /\ net.code \in {200, 204} => ~Live(net.id)

\* A PUT under way does not touch the immutable properties.
PutKeepsImmutable ==
    Asked("PUT") =>
        \A p \in Immutable : net.vals[p] = remote[net.id].vals[p]

\* NoLeak with the identifier under way pinned to a create.
NothingDropped ==
    DeletesAreWatched =>
        \A id \in owned :
            \/ remote[id].life = "gone"
            \/ id = entry.id
            \/ pc # "idle" /\ op = "create" /\ id = data.id

(***************************************************************************)
(* The inductive invariant: the message in flight and the ResourceData     *)
(* belong to the operation under way, an answer still holds of the object  *)
(* when the handler reads it, and no identifier has been dropped.          *)
(***************************************************************************)
IInv ==
    /\ TypeOK
    /\ CallMatches
    /\ DataMatches
    /\ HeldIdsExist
    /\ AnswerHolds
    /\ PutKeepsImmutable
    /\ NothingDropped

-----------------------------------------------------------------------------
(* The second inductive invariant, about values and jobs, on top of IInv.  *)

\* An object that was created has a value for every property, and its status
\* tells of the job the API is doing on it.
ObjectsTell ==
    \A id \in Ids : remote[id].life # "unused" =>
        /\ remote[id].vals \in Config
        /\ remote[id].status \in Statuses
        /\ remote[id].job = "write" => remote[id].status \in Working
        /\ remote[id].job = "delete" => remote[id].status \in Removing
        /\ remote[id].life = "gone" => remote[id].job = "none"

\* POST and PUT carry the planned values, all of them.
RequestCarriesPlan ==
    /\ pc = "post" => data.vals \in Config /\ data.status = Null
    /\ pc \in {"post", "put"} /\ net.kind = "req" => net.vals = data.vals

\* What an answer to a write says of the object: the plan was written, and a
\* code other than 202 means that no work was left behind it.
WriteAnswerTells ==
    net.kind = "resp" /\ pc \in {"post", "put"} /\ Accepted /\ net.id # Null =>
        /\ net.vals \in {Empty, data.vals}
        /\ ~drift => remote[net.id].vals = data.vals
        /\ net.code # 202 => /\ remote[net.id].job # "write"
                             /\ net.status \in Ready \cup {Null}

\* What an answer to a GET says of it.
ReadAnswerTells ==
    net.kind = "resp" /\ net.method = "GET" =>
        /\ net.code \in {0, 200, 404, 500}
        /\ net.code = 200 =>
             /\ net.vals \in Config
             /\ net.status \in Statuses
             /\ ~drift => net.vals = remote[net.id].vals
             /\ remote[net.id].job = "write" => net.status \in Working
             /\ remote[net.id].job = "delete" => net.status \in Removing

\* The API does not report an object it is done with as under work.
StatusesTell == Working \cap Ready = {}

(***************************************************************************)
(* The second inductive invariant: between the answer and the moment the   *)
(* handler reads it the object keeps the values and the status the answer  *)
(* tells, unless somebody else (drift) touches it; so what the handlers    *)
(* save of it is true when they return and afterwards.                     *)
(***************************************************************************)
ValuesHold ==
    /\ ObjectsTell
    /\ RequestCarriesPlan
    /\ WriteAnswerTells
    /\ ReadAnswerTells
    /\ StateMirrorsObject
    /\ AbortRollsBack
    /\ StatusesTell => SuccessMeansDone
=============================================================================
