------------------------------ MODULE RemoteApi ------------------------------
(***************************************************************************)
(* The REST API behind the provider, as the code in openapi/ uses it: one  *)
(* collection of objects, POST on the collection, GET, PUT and DELETE on   *)
(* an instance.  The API is external to the repository; what is assumed of *)
(* it is what openapi_client.go and resource_factory.go rely on:           *)
(*   - an identifier names one object for ever (it is never reused);       *)
(*   - GET, PUT and DELETE answer 404 exactly when the object is not there;*)
(*   - 202 starts a job that runs on its own, any other 2xx is synchronous;*)
(*   - a property declared x-terraform-immutable cannot be edited by other *)
(*     clients of the API.                                                 *)
(* Everything that goes wrong (a rejected, dropped or unanswered request,  *)
(* an odd answer, a job that fails, an edit or removal by somebody else)   *)
(* is listed in Faults and drawn from the one counter `budget`.            *)
(***************************************************************************)
EXTENDS Integers

CONSTANTS
    Ids,        \* identifiers the API can hand out
    Props,      \* input properties of the resource's schema
    Vals,       \* values a property can take
    Null,       \* "absent": no identifier, no value in a payload, no config
    Immutable,  \* the properties marked x-terraform-immutable
    Working,    \* statuses the API reports while it creates or updates
    Removing,   \* statuses the API reports while it removes an object
    Ready,      \* statuses of an object whose last job succeeded
    Broken,     \* statuses of an object whose last job failed
    Faults,     \* which things may go wrong in this instance
    Budget      \* how many times something may go wrong

Statuses == Working \cup Removing \cup Ready \cup Broken

ASSUME NullAssumption ==
    /\ Null \notin Ids
    /\ Null \notin Vals
    /\ Null \notin Statuses
    /\ Null \notin [Props -> Vals]
ASSUME PropsAssumption == Immutable \subseteq Props
ASSUME StatusAssumption == {} \notin {Working, Removing, Ready, Broken}
ASSUME BudgetAssumption == Budget \in Nat

VARIABLES
    remote,     \* remote[id]: the object the API holds under id
    net,        \* the request or the response in flight, or Quiet
    budget      \* how many more times something may go wrong

apiVars == <<remote, net, budget>>

Methods == {"POST", "GET", "PUT", "DELETE"}

\* 0 stands for "no response" (the client returned an error), 203 for a
\* success code no handler lists, 500 for every failure code but 404.
Codes == {0, 200, 201, 202, 203, 204, 404, 500}

\* A payload: a value per property, Null where the payload omits it.
Payload == [Props -> Vals \cup {Null}]
Empty == [p \in Props |-> Null]

\* `job` is the asynchronous work the API is doing on the object.
Object == [life: {"unused", "live", "gone"}, vals: Payload,
           status: Statuses \cup {Null}, job: {"none", "write", "delete"}]

NoObject == [life |-> "unused", vals |-> Empty, status |-> Null,
             job |-> "none"]

\* `sound` is FALSE when the body does not convert to the resource's schema.
Message == [kind: {"none", "req", "resp"}, method: Methods \cup {Null},
            id: Ids \cup {Null}, code: Codes, vals: Payload,
            status: Statuses \cup {Null}, sound: BOOLEAN]

Quiet == [kind |-> "none", method |-> Null, id |-> Null, code |-> 0,
          vals |-> Empty, status |-> Null, sound |-> TRUE]

Request(method, id, vals) ==
    [kind |-> "req", method |-> method, id |-> id, code |-> 0,
     vals |-> vals, status |-> Null, sound |-> TRUE]

Response(code, id, vals, status, sound) ==
    [kind |-> "resp", method |-> net.method, id |-> id, code |-> code,
     vals |-> vals, status |-> status, sound |-> sound]

\* The answer to the request in flight without a body, and the one that
\* carries object o, known under id, well formed or not.
Bare(code) == Response(code, net.id, Empty, Null, TRUE)
Body(code, id, o) == Response(code, id, o.vals, o.status, TRUE)
Garbled(code, id, o) == Response(code, id, o.vals, o.status, FALSE)

\* The values an object holds after a payload is written to it (also what
\* updateStateWithPayloadData leaves of a list of properties).
Merge(vals, payload) ==
    [p \in Props |-> IF payload[p] = Null THEN vals[p] ELSE payload[p]]

Asked(method) == net.kind = "req" /\ net.method = method
Live(id) == remote[id].life = "live"

Spend(fault) ==
    /\ fault \in Faults
    /\ budget > 0
    /\ budget' = budget - 1

ApiInit ==
    /\ remote = [id \in Ids |-> NoObject]
    /\ net = Quiet
    /\ budget = Budget

-----------------------------------------------------------------------------
(* The requests the API serves.                                            *)

\* Code 202 starts a job, the others are done when they are answered.
Written(vals, code, s) ==
    [life |-> "live", vals |-> vals, status |-> s,
     job |-> IF code = 202 THEN "write" ELSE "none"]

Reported(o, s, job) ==
    [life |-> o.life, vals |-> o.vals, status |-> s, job |-> job]

Gone(o) ==
    [life |-> "gone", vals |-> o.vals, status |-> o.status, job |-> "none"]

Edited(o, p, v) ==
    [life |-> o.life, vals |-> [o.vals EXCEPT ![p] = v], status |-> o.status,
     job |-> o.job]

StatusAfter(code) == IF code = 202 THEN Working ELSE Ready

\* A POST that creates object id.  The answer may echo the object or carry
\* its identifier alone; a fault omits the identifier, garbles the payload
\* or uses a success code the handler does not know.
Creates(id, code, s) ==
    LET o == Written(net.vals, code, s) IN
      /\ remote[id].life = "unused"
      /\ remote' = [remote EXCEPT ![id] = o]
      /\ \/ /\ code # 203
            /\ net' \in {Body(code, id, o), Response(code, id, Empty, Null, TRUE)}
            /\ UNCHANGED budget
         \/ /\ code # 203
            /\ \/ /\ Spend("noid")
                  /\ net' = Body(code, Null, o)
               \/ /\ Spend("garble")
                  /\ net' = Garbled(code, id, o)
         \/ /\ code = 203
            /\ Spend("oddcode")
            /\ net' = Body(code, id, o)

ApiPost ==
    /\ Asked("POST")
    /\ \E id \in Ids, code \in {200, 201, 202, 203} :
         \E s \in StatusAfter(code) : Creates(id, code, s)

\* The API has no room for another object (Ids bounds the instance).
ApiPostFull ==
    /\ Asked("POST")
    /\ \A id \in Ids : remote[id].life # "unused"
    /\ net' = Bare(500)
    /\ UNCHANGED <<remote, budget>>

ApiGet ==
    /\ Asked("GET")
    /\ IF Live(net.id)
       THEN \/ /\ net' = Body(200, net.id, remote[net.id])
               /\ UNCHANGED budget
            \/ /\ Spend("garble")
               /\ net' = Garbled(200, net.id, remote[net.id])
       ELSE net' = Bare(404) /\ UNCHANGED budget
    /\ UNCHANGED remote

\* A PUT overwrites what the payload names, or finds nothing to update.
ApiPut ==
    /\ Asked("PUT")
    /\ \/ /\ Live(net.id)
          /\ \E code \in {200, 202, 203} : \E s \in StatusAfter(code) :
               LET o == Written(Merge(remote[net.id].vals, net.vals), code, s) IN
                 /\ remote' = [remote EXCEPT ![net.id] = o]
                 /\ net' \in {Body(code, net.id, o), Bare(code)}
                 /\ IF code = 203 THEN Spend("oddcode") ELSE UNCHANGED budget
       \/ /\ ~Live(net.id)
          /\ net' = Bare(404)
          /\ UNCHANGED <<remote, budget>>

\* A DELETE removes the object, starts its removal, or finds nothing.
ApiDelete ==
    /\ Asked("DELETE")
    /\ \/ /\ Live(net.id)
          /\ remote' = [remote EXCEPT ![net.id] = Gone(remote[net.id])]
          /\ \/ /\ \E code \in {200, 204} : net' = Bare(code)
                /\ UNCHANGED budget
             \/ /\ Spend("oddcode")
                /\ net' = Bare(203)
       \/ /\ Live(net.id)
          /\ \E s \in Removing :
               remote' = [remote EXCEPT
                              ![net.id] = Reported(remote[net.id], s, "delete")]
          /\ net' = Bare(202)
          /\ UNCHANGED budget
       \/ /\ ~Live(net.id)
          /\ net' = Bare(404)
          /\ UNCHANGED <<remote, budget>>

\* The job of an object ends; by a fault, badly.
ApiJobEnds(id) ==
    /\ Live(id)
    /\ remote[id].job # "none"
    /\ UNCHANGED net
    /\ \/ /\ remote[id].job = "write"
          /\ \E s \in Ready :
               remote' = [remote EXCEPT ![id] = Reported(remote[id], s, "none")]
          /\ UNCHANGED budget
       \/ /\ remote[id].job = "delete"
          /\ remote' = [remote EXCEPT ![id] = Gone(remote[id])]
          /\ UNCHANGED budget
       \/ /\ Spend("broken")
          /\ \E s \in Broken :
               remote' = [remote EXCEPT ![id] = Reported(remote[id], s, "none")]

-----------------------------------------------------------------------------
(* What else goes wrong.                                                   *)

\* The API refuses the request.
ApiReject ==
    /\ net.kind = "req"
    /\ Spend("reject")
    /\ net' = Bare(500)
    /\ UNCHANGED remote

\* The request is never served (no connection, or prepareAuth, a required
\* header or the URL fails inside the client), or its answer is lost.
NetworkFails ==
    /\ net.kind # "none"
    /\ net.code = 0 => net.kind = "req"
    /\ Spend("drop")
    /\ net' = Bare(0)
    /\ UNCHANGED remote

\* Another client of the API edits an object or removes it.
SomebodyEdits(id) ==
    /\ Live(id)
    /\ Spend("edit")
    /\ \E p \in Props \ Immutable, v \in Vals :
         /\ v # remote[id].vals[p]
         /\ remote' = [remote EXCEPT ![id] = Edited(remote[id], p, v)]
    /\ UNCHANGED net

SomebodyRemoves(id) ==
    /\ Live(id)
    /\ Spend("remove")
    /\ remote' = [remote EXCEPT ![id] = Gone(remote[id])]
    /\ UNCHANGED net

ApiServes == ApiPost \/ ApiPostFull \/ ApiGet \/ ApiPut \/ ApiDelete

ApiNext ==
    \/ ApiServes
    \/ \E id \in Ids : ApiJobEnds(id)
    \/ ApiReject
    \/ NetworkFails

SomebodyElse == \E id \in Ids : SomebodyEdits(id) \/ SomebodyRemoves(id)

ApiTypeOK ==
    /\ remote \in [Ids -> Object]
    /\ net \in Message
    /\ budget \in 0..Budget
=============================================================================
