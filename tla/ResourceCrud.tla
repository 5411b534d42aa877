----------------------------- MODULE ResourceCrud -----------------------------
(***************************************************************************)
(* The life of one Terraform resource instance: the handlers that          *)
(* openapi/resource_factory.go gives Terraform (Create, Read, Update,      *)
(* Delete, Importer), with the polling of asynchronous operations and the  *)
(* check of immutable properties, between the state file on one side and   *)
(* the API on the other.                                                   *)
(*                                                                         *)
(* A handler is a sequence of steps separated by its HTTP calls: `pc` names*)
(* the call it is waiting for.  Terraform runs one operation of an instance*)
(* at a time; between two steps the API, its other clients and the network *)
(* move.  Terraform's own part (when an operation is run, what is kept of a*)
(* ResourceData when it ends) is external to the repository and is the last*)
(* section before Next.                                                    *)
(***************************************************************************)
EXTENDS RemoteApi

CONSTANTS
    ForceNew,     \* the properties marked x-terraform-force-new
    Supported,    \* which of PUT and DELETE the OpenAPI document declares
    Polled,       \* <<method, code>> responses with polling enabled
    PollTarget,   \* x-terraform-resource-poll-completed-statuses
    PollPending,  \* x-terraform-resource-poll-pending-statuses
    NParents      \* how many parents the resource has (a subresource if > 0)

ASSUME ForceNewAssumption == ForceNew \subseteq Props
ASSUME SupportedAssumption == Supported \subseteq {"PUT", "DELETE"}
ASSUME PolledAssumption == Polled \subseteq (Methods \X Codes)
ASSUME ParentsAssumption == NParents \in Nat

VARIABLES
    config,     \* the resource block in the configuration, or Null
    entry,      \* the instance in the state file
    data,       \* the ResourceData the running handler works on
    op,         \* the operation running, or the last one that ran
    pc,         \* the response the handler waits for, or "idle"
    result,     \* how the last operation ended, "none" while one runs
    \* History, read by properties only:
    owned,      \* identifiers the API has told Terraform of
    drift       \* whether others changed an object since op began

tfVars == <<config, entry, data, op, pc, result, owned, drift>>
vars == <<apiVars, tfVars>>

Config == [Props -> Vals]
NoData == [id |-> Null, vals |-> Empty, status |-> Null]
NoEntry == [id |-> Null, vals |-> Empty, status |-> Null, tainted |-> FALSE]

Destroyed == "destroyed"

\* The status codes each handler accepts.
Expected == [POST |-> {200, 201, 202}, GET |-> {200}, PUT |-> {200, 202},
             DELETE |-> {200, 202, 204}]

\* What Terraform writes to the state file for a ResourceData; an instance
\* without identifier is not written.
EntryOf(d, tainted) ==
    IF d.id = Null THEN NoEntry
    ELSE [id |-> d.id, vals |-> d.vals, status |-> d.status,
          tainted |-> tainted]

Waiting(point) == pc = point /\ net.kind = "resp"
Accepted == net.code \in Expected[net.method]
PollingConfigured == <<net.method, net.code>> \in Polled

\* The handler returns: the ResourceData and the response are dropped.
Return(r) ==
    /\ pc' = "idle"
    /\ result' = r
    /\ data' = NoData
    /\ net' = Quiet
    /\ UNCHANGED <<config, op, drift, remote>>

\* Terraform keeps what a failed create or update left in the ResourceData
\* (a failed create as tainted); it keeps the entry of a failed read, delete
\* or import as it was.
KeepAfterError ==
    entry' = IF op \in {"create", "update"} THEN EntryOf(data, op = "create")
                                            ELSE entry

Fail(r) ==
    /\ Return(r)
    /\ KeepAfterError
    /\ UNCHANGED <<owned, budget>>

Call(point, method, id, vals) ==
    /\ pc' = point
    /\ net' = Request(method, id, vals)

CopiedNothing(d, P, s) == d \* mutant: the payload is not copied

\* updateStateWithPayloadData copies the payload's properties one by one, in
\* the random order of a Go map: a payload that does not convert leaves any
\* subset of them copied.
Copied(d, P, s) ==
    [id |-> d.id,
     vals |-> [p \in Props |-> IF p \in P /\ net.vals[p] # Null THEN net.vals[p]
                                                             ELSE d.vals[p]],
     status |-> IF s /\ net.status # Null THEN net.status ELSE d.status]

SavedBy(d) ==
    IF net.sound THEN {Copied(d, Props, TRUE)}
    ELSE {Copied(d, P, s) : P \in SUBSET Props, s \in BOOLEAN}

\* The last statement of create and update.
SaveAndReturn(d0) ==
    /\ \E d \in SavedBy(d0) : entry' = EntryOf(d, op = "create" /\ ~net.sound)
    /\ Return(IF net.sound THEN "ok" ELSE "failed")
    /\ UNCHANGED budget

Poll(d) ==
    /\ pc' = "poll"
    /\ net' = Quiet
    /\ data' = d
    /\ UNCHANGED <<config, entry, op, result, drift, remote, budget>>

-----------------------------------------------------------------------------
(* create                                                                  *)

\* Mutant: the payload's identifier is used without looking whether it is there.
CreateUnchecked ==
    /\ Waiting("post")
    /\ IF ~Accepted
       THEN Fail("failed")
       ELSE /\ owned' = owned \cup {net.id}
            /\ LET d == [data EXCEPT !.id = net.id]
               IN IF PollingConfigured THEN Poll(d) ELSE SaveAndReturn(d)

\* setStateID, then polling if the response has it, then the state is saved.
CreateAnswered ==
    /\ Waiting("post")
    /\ IF ~Accepted \/ net.id = Null
       THEN Fail("failed")
       ELSE /\ owned' = owned \cup {net.id}
            /\ LET d == [data EXCEPT !.id = net.id]
               IN IF PollingConfigured THEN Poll(d) ELSE SaveAndReturn(d)

-----------------------------------------------------------------------------
(* readWithOptions, for read (an object that is not found is not an error, *)
(* and the state stays) and for the importer (it is).                      *)

\* Mutant: an object that is not there is saved as if it were.
ReadIgnores404 ==
    /\ Waiting("get")
    /\ UNCHANGED budget
    /\ IF Accepted \/ net.code = 404
       THEN /\ Return("ok")
            /\ \E d \in SavedBy(data) : entry' = EntryOf(d, entry.tainted)
            /\ owned' = owned \cup {data.id}
       ELSE /\ Return("failed")
            /\ UNCHANGED <<entry, owned>>

\* Mutant: a lost answer is waited for.
ReadWaits ==
    /\ Waiting("get")
    /\ net.code # 0
    /\ UNCHANGED <<budget, owned>>
    /\ Return(IF Accepted THEN "ok" ELSE "failed")
    /\ \E d \in SavedBy(data) : entry' = EntryOf(d, entry.tainted)

ReadAnswered ==
    /\ Waiting("get")
    /\ UNCHANGED budget
    /\ IF Accepted
       THEN /\ Return(IF net.sound THEN "ok" ELSE "failed")
            /\ IF net.sound
               THEN /\ \E d \in SavedBy(data) : entry' = EntryOf(d, entry.tainted)
                    /\ owned' = owned \cup {data.id}
               ELSE UNCHANGED <<entry, owned>>
       ELSE /\ Return(IF net.code = 404 /\ op = "read" THEN "missing"
                                                       ELSE "failed")
            /\ UNCHANGED <<entry, owned>>

-----------------------------------------------------------------------------
(* update                                                                  *)

NothingImmutable == FALSE \* mutant: no property is compared

\* checkImmutableFields compares what it read with the planned values.
ImmutableChanged ==
    \E p \in Immutable : net.vals[p] # data.vals[p]

\* Mutant: a violation is reported without the rollback.
CheckWithoutRollback ==
    /\ Waiting("check")
    /\ UNCHANGED <<owned, budget>>
    /\ \/ /\ ~Accepted \/ ImmutableChanged
          /\ KeepAfterError
          /\ Return(IF Accepted THEN "immutable" ELSE "failed")
       \/ /\ Accepted
          /\ ~ImmutableChanged
          /\ Call("put", "PUT", data.id, data.vals)
          /\ UNCHANGED <<config, entry, data, op, result, drift, remote>>

\* Mutant: update sends the object it has just read.
CheckSendsObject ==
    /\ Waiting("check")
    /\ UNCHANGED <<owned, budget>>
    /\ IF Accepted
       THEN /\ Call("put", "PUT", data.id, net.vals)
            /\ UNCHANGED <<config, entry, data, op, result, drift, remote>>
       ELSE KeepAfterError /\ Return("failed")

\* On a violation the payload just read is saved over the planned values, so
\* that the state file does not claim them.
CheckAnswered ==
    /\ Waiting("check")
    /\ UNCHANGED <<owned, budget>>
    /\ \/ /\ ~Accepted
          /\ KeepAfterError
          /\ Return("failed")
       \/ /\ Accepted
          /\ ImmutableChanged
          /\ \E d \in SavedBy(data) : entry' = EntryOf(d, FALSE)
          /\ Return(IF net.sound THEN "immutable" ELSE "failed")
       \/ /\ Accepted
          /\ ~ImmutableChanged
          /\ Call("put", "PUT", data.id, data.vals)
          /\ UNCHANGED <<config, entry, data, op, result, drift, remote>>

UpdateAnswered ==
    /\ Waiting("put")
    /\ UNCHANGED owned
    /\ IF ~Accepted THEN Fail("failed")
       ELSE IF PollingConfigured THEN Poll(data)
       ELSE SaveAndReturn(data)

-----------------------------------------------------------------------------
(* delete                                                                  *)

\* Mutants: any answer ends a delete; a 202 does, polled or not; a 404 is an
\* error.
DeleteUnchecked ==
    /\ Waiting("delete")
    /\ UNCHANGED owned
    /\ IF net.code = 0 THEN Fail("failed")
       ELSE IF Accepted /\ PollingConfigured THEN Poll(data)
       ELSE entry' = NoEntry /\ Return("ok") /\ UNCHANGED budget

DeleteUnpolled ==
    /\ Waiting("delete")
    /\ UNCHANGED owned
    /\ IF ~Accepted /\ net.code # 404 THEN Fail("failed")
       ELSE entry' = NoEntry /\ Return("ok") /\ UNCHANGED budget

DeleteStrict ==
    /\ Waiting("delete")
    /\ UNCHANGED owned
    /\ IF ~Accepted THEN Fail("failed")
       ELSE IF PollingConfigured THEN Poll(data)
       ELSE entry' = NoEntry /\ Return("ok") /\ UNCHANGED budget

DeleteAnswered ==
    /\ Waiting("delete")
    /\ UNCHANGED owned
    /\ IF ~Accepted /\ net.code # 404 THEN Fail("failed")
       ELSE IF Accepted /\ PollingConfigured THEN Poll(data)
       ELSE /\ entry' = NoEntry
            /\ Return("ok")
            /\ UNCHANGED budget

-----------------------------------------------------------------------------
(* handlePollingIfConfigured and resourceStateRefreshFunc, under the loop  *)
(* of the SDK's WaitForState.                                              *)

\* readRemote is called without the parents' identifiers: the instance URL
\* of a subresource cannot be built and no request is sent.
PollRefreshes ==
    /\ pc = "poll"
    /\ IF NParents > 0
       THEN Fail("unread")
       ELSE /\ Call("refresh", "GET", data.id, Empty)
            /\ UNCHANGED <<config, entry, data, op, result, owned, drift,
                           remote, budget>>

\* Mutant: a pending status counts as a target.
TargetOrPending == IF op = "delete" THEN {Destroyed} ELSE PollTarget \cup PollPending

Target == IF op = "delete" THEN {Destroyed} ELSE PollTarget
RefreshedStatus == IF net.code = 404 THEN Destroyed ELSE net.status
Readable == net.code = 404 \/ (Accepted /\ net.status # Null)

\* Mutant: the target statuses are handed over in place of the pending ones.
TargetsPending == PollTarget

Pending == PollPending

\* An unlisted status is an error, unless no pending status is listed.
StillPending ==
    /\ RefreshedStatus \notin Target
    /\ Pending = {} \/ RefreshedStatus \in Pending

\* A refresh that found nothing hands back 0, which is no payload.
PollAnswered ==
    /\ Waiting("refresh")
    /\ UNCHANGED owned
    /\ IF ~Readable THEN Fail("failed")
       ELSE IF RefreshedStatus \in Target
       THEN IF op = "delete"
            THEN entry' = NoEntry /\ Return("ok") /\ UNCHANGED budget
            ELSE IF net.code = 404 THEN Fail("failed") ELSE SaveAndReturn(data)
       ELSE IF StillPending THEN Poll(data) ELSE Fail("failed")

\* No answer of the API can end the polling any more.
PollStuck ==
    LET o == remote[data.id]
    IN IF op = "delete" THEN Live(data.id) /\ o.job = "none"
       ELSE ~Live(data.id) \/ (o.job = "none" /\ o.status \notin PollTarget)

\* The operation's timeout.  One that expires before the API is done counts
\* as something going wrong.
PollTimesOut ==
    /\ pc \in {"poll", "refresh"}
    /\ Return("timeout")
    /\ KeepAfterError
    /\ UNCHANGED owned
    /\ Spend("timeout") \/ (PollStuck /\ UNCHANGED budget)

-----------------------------------------------------------------------------
(* Terraform (external): which operation it runs.                          *)

Begin(o, d) ==
    /\ op' = o
    /\ data' = d
    /\ result' = "none"
    /\ drift' = FALSE
    /\ UNCHANGED <<config, entry, owned, remote, budget>>

\* The user edits the configuration.
Configure ==
    /\ pc = "idle"
    /\ Spend("config")
    /\ config' \in (Config \cup {Null}) \ {config}
    /\ UNCHANGED <<entry, data, op, pc, result, owned, drift, remote, net>>

Diff == {p \in Props : entry.vals[p] # config[p]}
Tracked == entry.id # Null

StartRead ==
    /\ pc = "idle"
    /\ Tracked
    /\ Begin("read", [id |-> entry.id, vals |-> entry.vals,
                      status |-> entry.status])
    /\ Call("get", "GET", entry.id, Empty)

StartCreate ==
    /\ pc = "idle"
    /\ ~Tracked
    /\ config # Null
    /\ Begin("create", [NoData EXCEPT !.vals = config])
    /\ Call("post", "POST", Null, config)

MustReplace == config # Null /\ (entry.tainted \/ Diff \cap ForceNew # {})
MustUpdate == Tracked /\ config # Null /\ ~MustReplace /\ Diff # {}
MustDelete == Tracked /\ (config = Null \/ MustReplace)

Planned == [id |-> entry.id, vals |-> config, status |-> entry.status]

\* update first reads the object, to check the immutable properties.  It
\* fails at once when the document has no PUT, and Terraform keeps the plan.
StartUpdate ==
    /\ pc = "idle"
    /\ MustUpdate
    /\ IF "PUT" \in Supported
       THEN /\ Begin("update", Planned)
            /\ Call("check", "GET", entry.id, Empty)
       ELSE /\ op' = "update"
            /\ result' = "failed"
            /\ drift' = FALSE
            /\ entry' = EntryOf(Planned, FALSE)
            /\ UNCHANGED <<config, data, pc, owned, apiVars>>

\* Also the first half of a replacement: StartCreate is the second.
StartDelete ==
    /\ pc = "idle"
    /\ MustDelete
    /\ IF "DELETE" \in Supported
       THEN /\ Begin("delete", [id |-> entry.id, vals |-> entry.vals,
                                status |-> entry.status])
            /\ Call("delete", "DELETE", entry.id, Empty)
       ELSE /\ op' = "delete"
            /\ result' = "failed"
            /\ drift' = FALSE
            /\ UNCHANGED <<config, entry, data, pc, owned, apiVars>>

\* terraform import: the identifier of a subresource, and of no other, is
\* split at "/" and must name every parent; `segments` counts its parts.
StartImport(id, segments) ==
    /\ pc = "idle"
    /\ ~Tracked
    /\ config # Null
    /\ IF NParents = 0 \/ segments = NParents + 1
       THEN /\ Begin("import", [NoData EXCEPT !.id = id])
            /\ Call("get", "GET", id, Empty)
       ELSE /\ op' = "import"
            /\ result' = "failed"
            /\ drift' = FALSE
            /\ UNCHANGED <<config, entry, data, pc, owned, apiVars>>

\* The provider or Terraform dies: the ResourceData is lost, and with it
\* the identifier of an object whose creation was not finished.
Crash ==
    /\ pc # "idle"
    /\ Spend("crash")
    /\ Return("crashed")
    /\ owned' = IF op = "create" THEN owned \ {data.id} ELSE owned
    /\ UNCHANGED entry

-----------------------------------------------------------------------------
Init ==
    /\ ApiInit
    /\ config \in Config
    /\ entry = NoEntry
    /\ data = NoData
    /\ op = "none"
    /\ pc = "idle"
    /\ result = "none"
    /\ owned = {}
    /\ drift = FALSE

Handler ==
    \/ CreateAnswered
    \/ ReadAnswered
    \/ CheckAnswered
    \/ UpdateAnswered
    \/ DeleteAnswered
    \/ PollRefreshes
    \/ PollAnswered
    \/ PollTimesOut

Terraform ==
    \/ Configure
    \/ StartRead
    \/ StartCreate
    \/ StartUpdate
    \/ StartDelete
    \/ \E id \in Ids, segments \in 1..(NParents + 2) : StartImport(id, segments)
    \/ Crash

Api == ApiNext /\ UNCHANGED tfVars

Others ==
    /\ SomebodyElse
    /\ drift' = TRUE
    /\ UNCHANGED <<config, entry, data, op, pc, result, owned>>

Next == Handler \/ Terraform \/ Api \/ Others

\* Handlers and the API make progress; Terraform is run again and again.
Fairness ==
    /\ WF_vars(Handler)
    /\ WF_vars(PollTimesOut)
    /\ WF_vars(ApiServes /\ UNCHANGED tfVars)
    /\ \A id \in Ids : WF_vars(ApiJobEnds(id) /\ UNCHANGED tfVars)
    /\ SF_vars(StartRead)
    /\ SF_vars(StartCreate)
    /\ SF_vars(StartUpdate)
    /\ SF_vars(StartDelete)

Spec == Init /\ [][Next]_vars
FairSpec == Spec /\ Fairness
=============================================================================
