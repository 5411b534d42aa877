------------------------- MODULE ResourceValuesProofs -------------------------
(***************************************************************************)
(* Proofs, for every value of the constants, about the values the handlers *)
(* of ResourceCrud keep in the state file and the jobs they wait for.  The *)
(* invariant ValuesHold is inductive relative to IInv, which               *)
(* ResourceCrudProofs shows to hold.                                       *)
(***************************************************************************)
EXTENDS ResourceCrudProofs

\* The conjuncts of ValuesHold about a state between two operations.
EntryTells ==
    /\ StateMirrorsObject
    /\ AbortRollsBack
    /\ StatusesTell => SuccessMeansDone

\* ... and the others.
CallsTell == RequestCarriesPlan /\ WriteAnswerTells /\ ReadAnswerTells

LEMMA ValuesParts ==
    /\ ValuesHold <=> ObjectsTell /\ CallsTell /\ EntryTells
    /\ ValuesHold' <=> ObjectsTell' /\ CallsTell' /\ EntryTells'
  BY DEF ValuesHold, CallsTell, EntryTells

\* What both invariants say of the variables.
LEMMA ValueFacts ==
    ASSUME IInv, ValuesHold
    PROVE  /\ net \in Message /\ remote \in [Ids -> Object]
           /\ data \in ResourceData /\ entry \in StateEntry
           /\ \A id \in Ids : remote[id].life # "unused" =>
                 remote[id].vals \in Config /\ remote[id].status \in Statuses
  BY DEF IInv, TypeOK, ApiTypeOK, ValuesHold, ObjectsTell

\* A payload with a value for every property is saved as it is; one without
\* any leaves the ResourceData as it was.
LEMMA CopiedAll ==
    ASSUME net \in Message, net.vals \in Config, NEW d \in ResourceData,
           NEW s \in BOOLEAN
    PROVE  Copied(d, Props, s).vals = net.vals
  BY NullAssumption DEF Copied, Config

LEMMA CopiedPlan ==
    ASSUME net \in Message, NEW d \in ResourceData, d.vals \in Config,
           net.vals \in {Empty, d.vals}, NEW s \in BOOLEAN
    PROVE  Copied(d, Props, s).vals = d.vals
  BY NullAssumption DEF Copied, Config, Empty

\* A sound payload leaves one ResourceData to be saved.
LEMMA SoundSaved ==
    ASSUME net.sound, NEW d0, NEW d \in SavedBy(d0)
    PROVE  d = Copied(d0, Props, TRUE)
  BY DEF SavedBy

\* What the state file holds of a ResourceData with an identifier.
LEMMA EntryHolds ==
    ASSUME NEW d, d.id # Null, NEW t
    PROVE  /\ EntryOf(d, t).id = d.id
           /\ EntryOf(d, t).vals = d.vals
           /\ EntryOf(d, t).status = d.status
  BY DEF EntryOf

-----------------------------------------------------------------------------
(* How a step ends, and what it owes.                                      *)

\* Nothing in flight says nothing.
LEMMA QuietTells ==
    ASSUME net' = Quiet, pc' # "post"
    PROVE  CallsTell'
  BY DEF CallsTell, RequestCarriesPlan, WriteAnswerTells, ReadAnswerTells,
         Quiet

LEMMA StillTell ==
    ASSUME ObjectsTell, remote' = remote
    PROVE  ObjectsTell'
  BY DEF ObjectsTell

\* An operation that does not end in success or in a rollback claims nothing.
LEMMA OtherwiseTells ==
    ASSUME pc' # "idle" \/ result' \notin {"ok", "immutable"}
    PROVE  EntryTells'
  BY DEF EntryTells, StateMirrorsObject, AbortRollsBack, SuccessMeansDone

LEMMA ReturnValues ==
    ASSUME ValuesHold, NEW r, Return(r), EntryTells'
    PROVE  ValuesHold'
<1>1. remote' = remote /\ net' = Quiet /\ pc' = "idle"
  BY DEF Return
<1>2. QED
  BY <1>1, ValuesParts, QuietTells, StillTell

LEMMA FailValues ==
    ASSUME ValuesHold, NEW r, Return(r), r \notin {"ok", "immutable"}
    PROVE  ValuesHold'
  BY ReturnValues, OtherwiseTells DEF Return

LEMMA PollValues ==
    ASSUME ValuesHold, NEW d, Poll(d)
    PROVE  ValuesHold'
<1>1. remote' = remote /\ net' = Quiet /\ pc' = "poll"
  BY DEF Poll
<1>2. QED
  BY <1>1, ValuesParts, QuietTells, StillTell, OtherwiseTells

\* A call asks for something: what it carries is the plan.
LEMMA CallValues ==
    ASSUME ValuesHold, NEW point \in Points \ {"idle"}, NEW m, NEW id, NEW v,
           Call(point, m, id, v), remote' = remote,
           point = "post" => v \in Config /\ data'.status = Null,
           point \in {"post", "put"} => v = data'.vals
    PROVE  ValuesHold'
<1>1. pc' = point /\ net' = Request(m, id, v)
  BY DEF Call
<1>2. net'.kind = "req" /\ net'.vals = v
  BY <1>1 DEF Request
<1>3. CallsTell'
  BY <1>1, <1>2 DEF CallsTell, RequestCarriesPlan, WriteAnswerTells,
                    ReadAnswerTells
<1>4. EntryTells'
  BY <1>1, OtherwiseTells DEF Points
<1>5. QED
  BY <1>3, <1>4, ValuesParts, StillTell

\* A ResourceData that tells the truth of its object is saved.
LEMMA SavesTruth ==
    ASSUME ValuesHold, NEW r, Return(r), NEW e, e.id \in Ids, NEW t,
           entry' = EntryOf(e, t),
           ~drift => e.vals = remote[e.id].vals,
           r = "ok" /\ op \in {"create", "update"} /\ WritesAreWatched =>
                remote[e.id].job # "write",
           r = "ok" /\ op = "create" /\ WritesAreWatched /\ StatusesTell =>
                e.status \notin Working
    PROVE  ValuesHold'
<1>0. e.id # Null
  BY NullAssumption
<1>1. /\ entry'.id = e.id /\ entry'.vals = e.vals /\ entry'.status = e.status
  BY <1>0, EntryHolds
<1>2. result' = r /\ op' = op /\ remote' = remote /\ drift' = drift
  BY DEF Return
<1>3. StateMirrorsObject' /\ AbortRollsBack'
  BY <1>0, <1>1, <1>2 DEF StateMirrorsObject, AbortRollsBack, Tracked
<1>4. (StatusesTell => SuccessMeansDone)'
  BY <1>0, <1>1, <1>2 DEF SuccessMeansDone, Tracked
<1>5. QED
  BY <1>3, <1>4, ReturnValues DEF EntryTells

\* The state is saved with the payload of an answer.
LEMMA SaveValues ==
    ASSUME ValuesHold, NEW d \in ResourceData, SaveAndReturn(d), d.id \in Ids,
           LET e == Copied(d, Props, TRUE) IN
             /\ ~drift => e.vals = remote[d.id].vals
             /\ op \in {"create", "update"} /\ WritesAreWatched =>
                  remote[d.id].job # "write"
             /\ op = "create" /\ WritesAreWatched /\ StatusesTell =>
                  e.status \notin Working
    PROVE  ValuesHold'
<1>1. CASE ~net.sound
  BY <1>1, FailValues DEF SaveAndReturn
<1>2. CASE net.sound
  <2> DEFINE e == Copied(d, Props, TRUE)
  <2>1. Return("ok") /\ e.id = d.id
    BY <1>2 DEF SaveAndReturn, Copied
  <2>2. PICK x \in SavedBy(d) : entry' = EntryOf(x, op = "create" /\ ~net.sound)
    BY DEF SaveAndReturn
  <2>3. x = e
    BY <1>2, SoundSaved
  <2> HIDE DEF e
  <2>4. /\ ~drift => e.vals = remote[e.id].vals
        /\ op \in {"create", "update"} /\ WritesAreWatched =>
             remote[e.id].job # "write"
        /\ op = "create" /\ WritesAreWatched /\ StatusesTell =>
             e.status \notin Working
    BY <2>1 DEF e
  <2>5. QED
    BY <2>1, <2>2, <2>3, <2>4, SavesTruth
<1>3. QED
  BY <1>1, <1>2

-----------------------------------------------------------------------------
(* The handlers.                                                           *)

\* An accepted answer to POST or PUT leaves the plan in the object.
LEMMA CreateValues ==
    ASSUME IInv, ValuesHold, CreateAnswered
    PROVE  ValuesHold'
<1>1. /\ pc = "post" /\ net.kind = "resp" /\ net.method = "POST"
      /\ op = "create" /\ net \in Message /\ data \in ResourceData
      /\ data.vals \in Config /\ data.status = Null
  BY ValueFacts DEF CreateAnswered, Waiting, IInv, CallMatches, DataMatches,
     MethodOf, ValuesHold, RequestCarriesPlan
<1>2. CASE ~Accepted \/ net.id = Null
  BY <1>2, FailValues DEF CreateAnswered, Fail
<1>3. CASE Accepted /\ net.id # Null
  <2> DEFINE d == [data EXCEPT !.id = net.id]
  <2>1. net.id \in Ids
    BY <1>1, <1>3 DEF Message
  <2>2. /\ d \in ResourceData /\ d.id = net.id /\ d.vals = data.vals
        /\ d.status = Null
    BY <1>1, <2>1 DEF ResourceData
  <2>3. /\ net.vals \in {Empty, data.vals}
        /\ ~drift => remote[net.id].vals = data.vals
        /\ net.code # 202 => /\ remote[net.id].job # "write"
                             /\ net.status \in Ready \cup {Null}
    BY <1>1, <1>3 DEF ValuesHold, WriteAnswerTells
  <2> HIDE DEF d
  <2>4. CASE PollingConfigured
    <3>1. Poll(d)
      BY <1>3, <2>4 DEF CreateAnswered, d
    <3>2. QED
      BY <3>1, PollValues
  <2>5. CASE ~PollingConfigured
    <3> DEFINE e == Copied(d, Props, TRUE)
    <3>1. SaveAndReturn(d)
      BY <1>3, <2>5 DEF CreateAnswered, d
    <3>2. e.vals = data.vals
      BY <1>1, <2>2, <2>3, CopiedPlan
    <3>3. WritesAreWatched => net.code # 202
      BY <1>1, <2>5 DEF WritesAreWatched, PollingConfigured
    <3>4. WritesAreWatched /\ StatusesTell => e.status \notin Working
      BY <2>2, <2>3, <3>3, NullAssumption DEF Copied, StatusesTell, Statuses
    <3> HIDE DEF e
    <3>5. QED
      BY <2>1, <2>2, <2>3, <3>1, <3>2, <3>3, <3>4, SaveValues DEF e
  <2>6. QED
    BY <2>4, <2>5
<1>4. QED
  BY <1>2, <1>3

LEMMA UpdateValues ==
    ASSUME IInv, ValuesHold, UpdateAnswered
    PROVE  ValuesHold'
<1>1. /\ pc = "put" /\ net.kind = "resp" /\ net.method = "PUT"
      /\ op = "update" /\ net \in Message /\ data \in ResourceData
      /\ data.vals \in Config /\ net.id = data.id /\ data.id \in Ids
  BY ValueFacts DEF UpdateAnswered, Waiting, IInv, CallMatches, DataMatches,
     MethodOf
<1>2. CASE ~Accepted
  BY <1>2, FailValues DEF UpdateAnswered, Fail
<1>3. CASE Accepted /\ PollingConfigured
  BY <1>3, PollValues DEF UpdateAnswered
<1>4. CASE Accepted /\ ~PollingConfigured
  <2> DEFINE e == Copied(data, Props, TRUE)
  <2>1. SaveAndReturn(data)
    BY <1>4 DEF UpdateAnswered
  <2>2. /\ net.vals \in {Empty, data.vals}
        /\ ~drift => remote[data.id].vals = data.vals
        /\ net.code # 202 => remote[data.id].job # "write"
    BY <1>1, <1>4, NullAssumption DEF ValuesHold, WriteAnswerTells
  <2>3. e.vals = data.vals
    BY <1>1, <2>2, CopiedPlan
  <2>4. WritesAreWatched => net.code # 202
    BY <1>1, <1>4 DEF WritesAreWatched, PollingConfigured
  <2> HIDE DEF e
  <2>5. QED
    BY <1>1, <2>1, <2>2, <2>3, <2>4, SaveValues DEF e
<1>5. QED
  BY <1>2, <1>3, <1>4

\* What is saved of an object that was read is the object.
LEMMA ReadTells ==
    ASSUME IInv, ValuesHold, pc \in {"get", "check", "refresh"},
           net.kind = "resp", Accepted
    PROVE  /\ net.code = 200 /\ net.method = "GET" /\ net.id = data.id
           /\ data.id \in Ids
           /\ net.status \in Statuses
           /\ remote[data.id].job = "write" => net.status \in Working
           /\ remote[data.id].job = "delete" => net.status \in Removing
           /\ LET e == Copied(data, Props, TRUE) IN
                /\ ~drift => e.vals = remote[data.id].vals
                /\ e.status = net.status /\ e.id = data.id
<1>1. net.method = "GET" /\ net.id = data.id /\ data.id \in Ids
  BY DEF IInv, CallMatches, DataMatches, MethodOf
<1>2. net.code = 200
  BY <1>1 DEF Accepted, Expected
<1>3. /\ net.vals \in Config /\ net.status \in Statuses
      /\ ~drift => net.vals = remote[data.id].vals
      /\ remote[data.id].job = "write" => net.status \in Working
      /\ remote[data.id].job = "delete" => net.status \in Removing
  BY <1>1, <1>2 DEF ValuesHold, ReadAnswerTells
<1>4. Copied(data, Props, TRUE).vals = net.vals
  BY <1>3, ValueFacts, CopiedAll
<1>5. /\ Copied(data, Props, TRUE).status = net.status
      /\ Copied(data, Props, TRUE).id = data.id
  BY <1>3, NullAssumption DEF Copied
<1>6. QED
  BY <1>1, <1>2, <1>3, <1>4, <1>5

LEMMA ReadValues ==
    ASSUME IInv, ValuesHold, ReadAnswered
    PROVE  ValuesHold'
<1>1. pc = "get" /\ net.kind = "resp" /\ op \in {"read", "import"}
  BY DEF ReadAnswered, Waiting, IInv, DataMatches
<1>2. CASE Accepted /\ net.sound
  <2> DEFINE e == Copied(data, Props, TRUE)
  <2>1. Return("ok") /\ \E x \in SavedBy(data) : entry' = EntryOf(x, entry.tainted)
    BY <1>2 DEF ReadAnswered
  <2>2. entry' = EntryOf(e, entry.tainted)
    BY <1>2, <2>1, SoundSaved
  <2>3. e.id = data.id /\ e.id \in Ids /\ (~drift => e.vals = remote[e.id].vals)
    BY <1>1, <1>2, ReadTells
  <2> HIDE DEF e
  <2>4. QED
    BY <1>1, <2>1, <2>2, <2>3, SavesTruth
<1>3. CASE ~(Accepted /\ net.sound)
  <2>1. Return("missing") \/ Return("failed")
    BY <1>3 DEF ReadAnswered
  <2>2. QED
    BY <2>1, FailValues
<1>4. QED
  BY <1>2, <1>3

\* The rollback of checkImmutableFields saves what was read.
LEMMA CheckValues ==
    ASSUME IInv, ValuesHold, CheckAnswered
    PROVE  ValuesHold'
<1>1. pc = "check" /\ net.kind = "resp"
  BY DEF CheckAnswered, Waiting
<1>2. CASE ~Accepted
  BY <1>2, FailValues DEF CheckAnswered
<1>3. CASE Accepted /\ ImmutableChanged
  <2> DEFINE e == Copied(data, Props, TRUE)
  <2>1. /\ Return(IF net.sound THEN "immutable" ELSE "failed")
        /\ \E x \in SavedBy(data) : entry' = EntryOf(x, FALSE)
    BY <1>3 DEF CheckAnswered
  <2>2. CASE net.sound
    <3>1. Return("immutable") /\ entry' = EntryOf(e, FALSE)
      BY <2>1, <2>2, SoundSaved
    <3>2. e.id \in Ids /\ (~drift => e.vals = remote[e.id].vals)
      BY <1>1, <1>3, ReadTells
    <3>3. "immutable" # "ok"
      OBVIOUS
    <3> HIDE DEF e
    <3>4. QED
      BY <3>1, <3>2, <3>3, SavesTruth
  <2>3. CASE ~net.sound
    BY <2>1, <2>3, FailValues
  <2>4. QED
    BY <2>2, <2>3
<1>4. CASE Accepted /\ ~ImmutableChanged
  <2>1. Call("put", "PUT", data.id, data.vals) /\ remote' = remote
    BY <1>4 DEF CheckAnswered
  <2>2. data.vals = data'.vals
    BY <1>4 DEF CheckAnswered
  <2>3. "put" \in Points \ {"idle"} /\ "put" # "post"
    BY DEF Points
  <2>4. QED
    BY <2>1, <2>2, <2>3, CallValues
<1>5. QED
  BY <1>2, <1>3, <1>4

LEMMA DeleteEnds ==
    ASSUME ValuesHold, Return("ok"), op = "delete"
    PROVE  ValuesHold'
<1>1. op' = "delete" /\ result' = "ok"
  BY DEF Return
<1>2. EntryTells'
  BY <1>1 DEF EntryTells, StateMirrorsObject, AbortRollsBack, SuccessMeansDone
<1>3. QED
  BY <1>2, ReturnValues

LEMMA DeleteValues ==
    ASSUME IInv, ValuesHold, DeleteAnswered
    PROVE  ValuesHold'
<1>1. op = "delete"
  BY DEF DeleteAnswered, Waiting, IInv, DataMatches
<1>2. Fail("failed") \/ Poll(data) \/ Return("ok")
  BY DEF DeleteAnswered
<1>3. QED
  BY <1>1, <1>2, FailValues, PollValues, DeleteEnds DEF Fail

LEMMA PollRefreshValues ==
    ASSUME IInv, ValuesHold, PollRefreshes
    PROVE  ValuesHold'
<1>1. Fail("unread") \/ (Call("refresh", "GET", data.id, Empty) /\ remote' = remote)
  BY DEF PollRefreshes
<1>2. CASE Fail("unread")
  BY <1>2, FailValues DEF Fail
<1>3. CASE Call("refresh", "GET", data.id, Empty) /\ remote' = remote
  BY <1>3, CallValues DEF Points
<1>4. QED
  BY <1>1, <1>2, <1>3

\* A create or an update that ends the polling saves the object it read, and
\* a target status is not one of an object under work.
LEMMA PollAnswerValues ==
    ASSUME IInv, ValuesHold, PollAnswered
    PROVE  ValuesHold'
<1>1. /\ pc = "refresh" /\ net.kind = "resp" /\ data \in ResourceData
      /\ op \in {"create", "update", "delete"}
  BY ValueFacts DEF PollAnswered, Waiting, IInv, DataMatches
<1>2. \/ Fail("failed")
      \/ Poll(data)
      \/ op = "delete" /\ Return("ok")
      \/ /\ Readable /\ RefreshedStatus \in Target /\ op # "delete"
         /\ net.code # 404 /\ SaveAndReturn(data)
  BY DEF PollAnswered
<1>3. CASE Fail("failed") \/ Poll(data) \/ (op = "delete" /\ Return("ok"))
  BY <1>3, FailValues, PollValues, DeleteEnds DEF Fail
<1>4. CASE /\ Readable /\ RefreshedStatus \in Target /\ op # "delete"
           /\ net.code # 404 /\ SaveAndReturn(data)
  <2>1. Accepted /\ net.status \in PollTarget
    BY <1>4 DEF Readable, RefreshedStatus, Target
  <2>2. WritesAreWatched => net.status \notin Working
    BY <2>1 DEF WritesAreWatched
  <2>3. /\ data.id \in Ids
        /\ remote[data.id].job = "write" => net.status \in Working
        /\ LET e == Copied(data, Props, TRUE) IN
             /\ ~drift => e.vals = remote[data.id].vals
             /\ e.status = net.status
    BY <1>1, <2>1, ReadTells
  <2>4. QED
    BY <1>1, <1>4, <2>2, <2>3, SaveValues
<1>5. QED
  BY <1>2, <1>3, <1>4

LEMMA HandlerValues ==
    ASSUME IInv, ValuesHold, Handler
    PROVE  ValuesHold'
<1>1. ASSUME PollTimesOut
      PROVE  ValuesHold'
  BY <1>1, FailValues DEF PollTimesOut
<1>2. QED
  BY <1>1, CreateValues, ReadValues, CheckValues, UpdateValues, DeleteValues,
     PollRefreshValues, PollAnswerValues DEF Handler

-----------------------------------------------------------------------------
(* Terraform, which starts the handlers.                                   *)

\* Between two operations nothing moves but the configuration, or an
\* operation fails before its first call.
LEMMA IdleValues ==
    ASSUME IInv, ValuesHold, pc = "idle", UNCHANGED <<pc, remote, net>>,
           \/ UNCHANGED <<entry, op, result, drift>>
           \/ result' = "failed"
    PROVE  ValuesHold'
<1>1. net' = Quiet /\ pc' # "post"
  BY DEF IInv, CallMatches
<1>2. CallsTell'
  BY <1>1, QuietTells
<1>3. EntryTells'
  <2>1. CASE result' = "failed"
    BY <2>1, OtherwiseTells
  <2>2. CASE UNCHANGED <<entry, op, result, drift>>
    BY <2>2 DEF ValuesHold, EntryTells, StateMirrorsObject, AbortRollsBack,
                SuccessMeansDone, Tracked
  <2>3. QED
    BY <2>1, <2>2
<1>4. QED
  BY <1>2, <1>3, ValuesParts, StillTell

LEMMA TerraformValues ==
    ASSUME IInv, ValuesHold, Terraform
    PROVE  ValuesHold'
<1>1. CASE Configure
  BY <1>1, IdleValues DEF Configure
<1>2. CASE StartCreate
  <2> DEFINE d == [NoData EXCEPT !.vals = config]
  <2>1. /\ Begin("create", d) /\ Call("post", "POST", Null, config)
        /\ config \in Config
    BY <1>2 DEF StartCreate, IInv, TypeOK
  <2>2. d.vals = config /\ d.status = Null
    BY DEF NoData
  <2> HIDE DEF d
  <2>3. data' = d /\ remote' = remote /\ "post" \in Points \ {"idle"}
    BY <2>1 DEF Begin, Points
  <2>4. QED
    BY <2>1, <2>2, <2>3, CallValues
<1>3. ASSUME NEW point \in {"get", "check", "delete"}, NEW m, NEW id,
             Call(point, m, id, Empty), NEW o, NEW d, Begin(o, d)
      PROVE  ValuesHold'
  <2>1. point \in Points \ {"idle"} /\ point \notin {"post", "put"}
        /\ remote' = remote
    BY <1>3 DEF Begin, Points
  <2>2. QED
    BY <1>3, <2>1, CallValues
<1>4. ASSUME pc = "idle", result' = "failed", UNCHANGED <<pc, apiVars>>
      PROVE  ValuesHold'
  BY <1>4, IdleValues DEF apiVars
<1>5. CASE StartRead
  BY <1>3, <1>5 DEF StartRead
<1>6. CASE StartUpdate
  BY <1>3, <1>4, <1>6 DEF StartUpdate
<1>7. CASE StartDelete
  BY <1>3, <1>4, <1>7 DEF StartDelete
<1>8. ASSUME NEW id \in Ids, NEW segments, StartImport(id, segments)
      PROVE  ValuesHold'
  BY <1>3, <1>4, <1>8 DEF StartImport
<1>9. CASE Crash
  BY <1>9, FailValues DEF Crash
<1>10. QED
  BY <1>1, <1>2, <1>5, <1>6, <1>7, <1>8, <1>9 DEF Terraform

-----------------------------------------------------------------------------
(* The API and its other clients.                                          *)

\* What ObjectsTell asks of one object.
Tells(o) ==
    /\ o.vals \in Config
    /\ o.status \in Statuses
    /\ o.job = "write" => o.status \in Working
    /\ o.job = "delete" => o.status \in Removing
    /\ o.life = "gone" => o.job = "none"

LEMMA ObjectsAfter ==
    ASSUME IInv, ValuesHold, NEW id \in Ids, NEW o, Tells(o),
           remote' = [remote EXCEPT ![id] = o]
    PROVE  ObjectsTell'
<1>1. \A i \in Ids : remote'[i] = IF i = id THEN o ELSE remote[i]
  BY ValueFacts
<1>2. QED
  BY <1>1 DEF ValuesHold, ObjectsTell, Tells

\* The object of an operation that has returned is one the API holds.
LEMMA EntryKept ==
    ASSUME IInv, ValuesHold, UNCHANGED <<entry, op, pc, result>>,
           drift' \/ drift' = drift,
           NEW id \in Ids, NEW o,
           remote' = [remote EXCEPT ![id] = o],
           o.job = "write" => remote[id].job = "write",
           drift' \/ o.vals = remote[id].vals
    PROVE  EntryTells'
<1>1. \A i \in Ids : remote'[i] = IF i = id THEN o ELSE remote[i]
  BY ValueFacts
<1>2. Tracked => entry.id \in Ids
  BY ValueFacts DEF Tracked, StateEntry
<1>3. Tracked' = Tracked
  BY DEF Tracked
<1>4. StateMirrorsObject' /\ AbortRollsBack'
  BY <1>1, <1>2, <1>3
     DEF StateMirrorsObject, AbortRollsBack, ValuesHold
<1>5. (StatusesTell => SuccessMeansDone)'
  BY <1>1, <1>2, <1>3 DEF SuccessMeansDone, ValuesHold
<1>6. QED
  BY <1>4, <1>5 DEF EntryTells

\* An object that changes behind the handler's back starts no job, and keeps
\* its values unless somebody else changed it.
LEMMA BackgroundValues ==
    ASSUME IInv, ValuesHold, UNCHANGED <<entry, data, op, pc, result, net>>,
           drift' \/ drift' = drift,
           NEW id \in Ids, remote[id].life = "live", NEW o, Tells(o),
           remote' = [remote EXCEPT ![id] = o],
           o.job \in {"none", remote[id].job},
           drift' \/ o.vals = remote[id].vals
    PROVE  ValuesHold'
<1>1. \A i \in Ids : remote'[i] = IF i = id THEN o ELSE remote[i]
  BY ValueFacts
<1>2. net \in Message
  BY ValueFacts
<1>3. RequestCarriesPlan'
  BY DEF ValuesHold, RequestCarriesPlan
<1>4. WriteAnswerTells'
  <2>1. net.id # Null => net.id \in Ids
    BY <1>2 DEF Message
  <2>2. QED
    BY <1>1, <2>1 DEF ValuesHold, WriteAnswerTells, Accepted
<1>5. ReadAnswerTells'
  <2>1. net.kind = "resp" /\ net.method = "GET" => net.id \in Ids
    BY NetFacts
  <2>2. QED
    BY <1>1, <2>1 DEF ValuesHold, ReadAnswerTells
<1>6. o.job = "write" => remote[id].job = "write"
  OBVIOUS
<1>7. EntryTells'
  BY <1>6, EntryKept
<1>8. ObjectsTell'
  BY ObjectsAfter
<1>9. QED
  BY <1>3, <1>4, <1>5, <1>7, <1>8, ValuesParts DEF CallsTell

LEMMA JobValues ==
    ASSUME IInv, ValuesHold, NEW id \in Ids, ApiJobEnds(id), UNCHANGED tfVars
    PROVE  ValuesHold'
<1>1. /\ UNCHANGED <<entry, data, op, pc, result, net, drift>>
      /\ remote[id].life = "live"
  BY DEF ApiJobEnds, tfVars, Live
<1>2. remote[id].vals \in Config /\ remote[id].status \in Statuses
  BY <1>1, ValueFacts
<1>3. CASE \E s \in Ready \cup Broken :
             remote' = [remote EXCEPT ![id] = Reported(remote[id], s, "none")]
  <2>1. PICK s \in Ready \cup Broken :
             remote' = [remote EXCEPT ![id] = Reported(remote[id], s, "none")]
    BY <1>3
  <2> DEFINE o == Reported(remote[id], s, "none")
  <2>2. Tells(o) /\ o.job = "none" /\ o.vals = remote[id].vals
    BY <1>2 DEF Reported, Tells, Statuses
  <2> HIDE DEF o
  <2>3. remote' = [remote EXCEPT ![id] = o]
    BY <2>1 DEF o
  <2>4. QED
    BY <1>1, <2>2, <2>3, BackgroundValues
<1>4. CASE remote' = [remote EXCEPT ![id] = Gone(remote[id])]
  <2> DEFINE o == Gone(remote[id])
  <2>1. Tells(o) /\ o.job = "none" /\ o.vals = remote[id].vals
    BY <1>2 DEF Gone, Tells
  <2> HIDE DEF o
  <2>2. remote' = [remote EXCEPT ![id] = o]
    BY <1>4 DEF o
  <2>3. QED
    BY <1>1, <2>1, <2>2, BackgroundValues
<1>5. QED
  BY <1>3, <1>4 DEF ApiJobEnds

LEMMA OthersValues ==
    ASSUME IInv, ValuesHold, Others
    PROVE  ValuesHold'
<1>1. PICK id \in Ids : SomebodyEdits(id) \/ SomebodyRemoves(id)
  BY DEF Others, SomebodyElse
<1>2. /\ UNCHANGED <<entry, data, op, pc, result, net>> /\ drift'
      /\ remote[id].life = "live"
  BY <1>1 DEF Others, SomebodyEdits, SomebodyRemoves, Live
<1>3. /\ remote[id].vals \in Config /\ remote[id].status \in Statuses
      /\ Tells(remote[id])
  BY <1>2, ValueFacts DEF ValuesHold, ObjectsTell, Tells
<1>4. CASE SomebodyEdits(id)
  <2>1. PICK p \in Props, v \in Vals :
             remote' = [remote EXCEPT ![id] = Edited(remote[id], p, v)]
    BY <1>4 DEF SomebodyEdits
  <2> DEFINE o == Edited(remote[id], p, v)
  <2>2. o.vals \in Config
    BY <1>3 DEF Edited, Config
  <2>3. Tells(o) /\ o.job = remote[id].job
    BY <1>2, <1>3, <2>2 DEF Edited, Tells
  <2> HIDE DEF o
  <2>4. remote' = [remote EXCEPT ![id] = o]
    BY <2>1 DEF o
  <2>5. QED
    BY <1>2, <2>3, <2>4, BackgroundValues
<1>5. CASE SomebodyRemoves(id)
  <2> DEFINE o == Gone(remote[id])
  <2>1. Tells(o) /\ o.job = "none"
    BY <1>3 DEF Gone, Tells
  <2> HIDE DEF o
  <2>2. remote' = [remote EXCEPT ![id] = o]
    BY <1>5 DEF o, SomebodyRemoves
  <2>3. QED
    BY <1>2, <2>1, <2>2, BackgroundValues
<1>6. QED
  BY <1>1, <1>4, <1>5

-----------------------------------------------------------------------------
(* The API answers.                                                        *)

LEMMA ServedValues ==
    ASSUME IInv, ValuesHold, UNCHANGED tfVars, net.kind # "none",
           net'.kind = "resp", ObjectsTell', WriteAnswerTells',
           ReadAnswerTells'
    PROVE  ValuesHold'
<1>1. pc # "idle" /\ pc' = pc /\ data' = data
  BY DEF IInv, CallMatches, Quiet, tfVars
<1>2. RequestCarriesPlan'
  BY <1>1 DEF ValuesHold, RequestCarriesPlan
<1>3. QED
  BY <1>1, <1>2, OtherwiseTells, ValuesParts DEF CallsTell

\* An answer without a body, to which nothing was written.
LEMMA BareValues ==
    ASSUME IInv, ValuesHold, UNCHANGED tfVars, remote' = remote,
           net.kind # "none", NEW c \in {0, 404, 500}, net' = Bare(c)
    PROVE  ValuesHold'
<1>1. net'.kind = "resp" /\ net'.code = c /\ net'.method = net.method
      /\ net'.method \in Methods
  BY NetFacts DEF Bare, Response
<1>2. ~Accepted'
  BY <1>1 DEF Accepted, Expected, Methods
<1>3. WriteAnswerTells' /\ ReadAnswerTells'
  BY <1>1, <1>2 DEF WriteAnswerTells, ReadAnswerTells
<1>4. QED
  BY <1>1, <1>3, ServedValues, StillTell DEF ValuesHold

\* The object a POST or a PUT leaves tells of the plan.
LEMMA WrittenTells ==
    ASSUME NEW v \in Config, NEW c, NEW s \in StatusAfter(c)
    PROVE  /\ Tells(Written(v, c, s))
           /\ Written(v, c, s).vals = v
           /\ Written(v, c, s).status = s
           /\ c # 202 => /\ Written(v, c, s).job = "none"
                         /\ s \in Ready
  BY DEF Tells, Written, StatusAfter, Statuses

LEMMA PostValues ==
    ASSUME IInv, ValuesHold, ApiPost, UNCHANGED tfVars
    PROVE  ValuesHold'
<1>1. /\ net.kind = "req" /\ net.method = "POST" /\ pc = "post"
      /\ net.vals = data.vals /\ data.vals \in Config
  BY DEF ApiPost, Asked, IInv, CallMatches, TypeOK, Points, MethodOf, Quiet,
         ValuesHold, RequestCarriesPlan
<1>2. PICK id \in Ids, code \in {200, 201, 202, 203} :
          \E s \in StatusAfter(code) : Creates(id, code, s)
  BY DEF ApiPost
<1>3. PICK s \in StatusAfter(code) : Creates(id, code, s)
  BY <1>2
<1> DEFINE o == Written(net.vals, code, s)
<1>4. /\ Tells(o) /\ o.vals = data.vals /\ o.status = s
      /\ code # 202 => o.job = "none" /\ s \in Ready
  BY <1>1, WrittenTells
<1> HIDE DEF o
<1>5. remote' = [remote EXCEPT ![id] = o]
  BY <1>3 DEF o, Creates
<1>6. ObjectsTell'
  BY <1>4, <1>5, ObjectsAfter
<1>7. remote'[id] = o
  BY <1>5, ValueFacts
<1>8. net' \in {Body(code, id, o), Response(code, id, Empty, Null, TRUE),
               Body(code, Null, o), Garbled(code, id, o)}
  BY <1>3 DEF o, Creates
<1>9. /\ net'.kind = "resp" /\ net'.method = "POST" /\ net'.code = code
      /\ net'.id \in {id, Null}
      /\ net'.vals \in {Empty, data.vals}
      /\ net'.status \in {s, Null}
  BY <1>1, <1>4, <1>8 DEF Body, Garbled, Response
<1>10. data' = data /\ drift' = drift
  BY DEF tfVars
<1>11. WriteAnswerTells'
  BY <1>4, <1>7, <1>9, <1>10 DEF WriteAnswerTells
<1>12. ReadAnswerTells'
  BY <1>9 DEF ReadAnswerTells
<1>13. QED
  BY <1>1, <1>6, <1>9, <1>11, <1>12, ServedValues

LEMMA MergePlan ==
    ASSUME NEW v, NEW w \in Config
    PROVE  Merge(v, w) = w
  BY NullAssumption DEF Merge, Config

\* What a PUT of the whole plan that finds its object does.
PutAnswers(code, s) ==
    LET o == Written(data.vals, code, s) IN
      /\ remote' = [remote EXCEPT ![net.id] = o]
      /\ net' \in {Body(code, net.id, o), Bare(code)}

LEMMA PutValues ==
    ASSUME IInv, ValuesHold, ApiPut, UNCHANGED tfVars
    PROVE  ValuesHold'
<1>1. /\ net.kind = "req" /\ net.method = "PUT" /\ pc = "put"
      /\ net.vals = data.vals /\ data.vals \in Config
      /\ net.id = data.id /\ data.id \in Ids
  BY DEF ApiPut, Asked, IInv, CallMatches, DataMatches, TypeOK, Points,
         MethodOf, Quiet, ValuesHold, RequestCarriesPlan
<1>2. CASE ~Live(net.id)
  BY <1>1, <1>2, BareValues DEF ApiPut
<1>3. CASE Live(net.id)
  <2>1. Merge(remote[net.id].vals, net.vals) = data.vals
    BY <1>1, MergePlan
  <2>2. PICK code \in {200, 202, 203} :
          \E s \in StatusAfter(code) : PutAnswers(code, s)
    BY <1>3, <2>1 DEF ApiPut, PutAnswers
  <2>3. PICK s \in StatusAfter(code) : PutAnswers(code, s)
    BY <2>2
  <2> DEFINE o == Written(data.vals, code, s)
  <2>4. /\ Tells(o) /\ o.vals = data.vals /\ o.status = s
        /\ code # 202 => o.job = "none" /\ s \in Ready
    BY <1>1, WrittenTells
  <2> HIDE DEF o
  <2>5. remote' = [remote EXCEPT ![net.id] = o]
    BY <2>3 DEF o, PutAnswers
  <2>6. ObjectsTell'
    BY <1>1, <2>4, <2>5, ObjectsAfter
  <2>7. remote'[net.id] = o
    BY <1>1, <2>5, ValueFacts
  <2>8. net' \in {Body(code, net.id, o), Bare(code)}
    BY <2>3 DEF o, PutAnswers
  <2>9. /\ net'.kind = "resp" /\ net'.method = "PUT" /\ net'.code = code
        /\ net'.id = net.id
        /\ net'.vals \in {Empty, data.vals}
        /\ net'.status \in {s, Null}
    BY <1>1, <2>4, <2>8 DEF Body, Bare, Response
  <2>10. data' = data /\ drift' = drift
    BY DEF tfVars
  <2>11. WriteAnswerTells'
    BY <2>4, <2>7, <2>9, <2>10 DEF WriteAnswerTells
  <2>12. ReadAnswerTells'
    BY <2>9 DEF ReadAnswerTells
  <2>13. QED
    BY <1>1, <2>6, <2>9, <2>11, <2>12, ServedValues
<1>4. QED
  BY <1>2, <1>3

LEMMA GetValues ==
    ASSUME IInv, ValuesHold, ApiGet, UNCHANGED tfVars
    PROVE  ValuesHold'
<1>1. /\ net.kind = "req" /\ net.method = "GET" /\ net.id \in Ids
      /\ remote' = remote /\ pc \notin {"post", "put"}
  BY NetFacts DEF ApiGet, Asked, IInv, CallMatches, MethodOf
<1>2. CASE ~Live(net.id)
  BY <1>1, <1>2, BareValues DEF ApiGet
<1>3. CASE Live(net.id)
  <2> DEFINE r == remote[net.id]
  <2>1. Tells(r)
    BY <1>1, <1>3 DEF ValuesHold, ObjectsTell, Tells, Live
  <2>2. PICK b \in BOOLEAN : net' = Response(200, net.id, r.vals, r.status, b)
    BY <1>3 DEF ApiGet, Body, Garbled
  <2>3. /\ net'.kind = "resp" /\ net'.method = "GET" /\ net'.id = net.id
        /\ net'.code = 200 /\ net'.vals = r.vals /\ net'.status = r.status
    BY <1>1, <2>2 DEF Response
  <2>4. ReadAnswerTells'
    BY <1>1, <2>1, <2>3 DEF ReadAnswerTells, Tells
  <2>5. WriteAnswerTells'
    BY <1>1 DEF WriteAnswerTells, tfVars
  <2>6. QED
    BY <1>1, <2>3, <2>4, <2>5, ServedValues, StillTell DEF ValuesHold
<1>4. QED
  BY <1>2, <1>3

LEMMA DeleteCallValues ==
    ASSUME IInv, ValuesHold, ApiDelete, UNCHANGED tfVars
    PROVE  ValuesHold'
<1>1. /\ net.kind = "req" /\ net.method = "DELETE" /\ net.id \in Ids
      /\ pc \notin {"post", "put"}
  BY NetFacts DEF ApiDelete, Asked, IInv, CallMatches, MethodOf
<1>2. CASE ~Live(net.id)
  BY <1>1, <1>2, BareValues DEF ApiDelete
<1>3. CASE Live(net.id)
  <2>1. PICK c \in Codes : net' = Bare(c)
    BY <1>3 DEF ApiDelete, Codes
  <2>2. net'.kind = "resp" /\ net'.method = "DELETE"
    BY <1>1, <2>1 DEF Bare, Response
  <2>3. WriteAnswerTells' /\ ReadAnswerTells'
    BY <1>1, <2>2 DEF WriteAnswerTells, ReadAnswerTells, tfVars
  <2>4. remote[net.id].vals \in Config /\ remote[net.id].status \in Statuses
    BY <1>1, <1>3, ValueFacts DEF Live
  <2>5. \E o : Tells(o) /\ remote' = [remote EXCEPT ![net.id] = o]
    <3>1. Tells(Gone(remote[net.id]))
      BY <2>4 DEF Tells, Gone
    <3>2. \A s \in Removing : Tells(Reported(remote[net.id], s, "delete"))
      BY <1>3, <2>4 DEF Tells, Reported, Statuses, Live
    <3>3. QED
      BY <1>3, <3>1, <3>2 DEF ApiDelete
  <2>6. ObjectsTell'
    BY <1>1, <2>5, ObjectsAfter
  <2>7. QED
    BY <1>1, <2>2, <2>3, <2>6, ServedValues
<1>4. QED
  BY <1>2, <1>3

LEMMA ApiValues ==
    ASSUME IInv, ValuesHold, Api
    PROVE  ValuesHold'
<1>1. UNCHANGED tfVars
  BY DEF Api
<1>2. CASE ApiServes
  BY <1>1, <1>2, PostValues, GetValues, PutValues, DeleteCallValues, BareValues
     DEF ApiServes, ApiPostFull, Asked
<1>3. CASE ApiReject \/ NetworkFails
  BY <1>1, <1>3, BareValues DEF ApiReject, NetworkFails
<1>4. QED
  BY <1>1, <1>2, <1>3, JobValues DEF Api, ApiNext

-----------------------------------------------------------------------------
(* The theorems.                                                           *)

LEMMA ValuesInitially == Init => ValuesHold
  BY DEF Init, ApiInit, NoObject, Quiet, ValuesHold, ObjectsTell,
     RequestCarriesPlan, WriteAnswerTells, ReadAnswerTells,
     StateMirrorsObject, AbortRollsBack, SuccessMeansDone

LEMMA ValuesInductive == IInv /\ ValuesHold /\ [Next]_vars => ValuesHold'
<1> SUFFICES ASSUME IInv, ValuesHold, [Next]_vars PROVE ValuesHold'
  OBVIOUS
<1>1. CASE UNCHANGED vars
  BY <1>1 DEF vars, apiVars, tfVars, ValuesHold, ObjectsTell,
     RequestCarriesPlan, WriteAnswerTells, ReadAnswerTells, Accepted,
     StateMirrorsObject, AbortRollsBack, SuccessMeansDone, Tracked
<1>2. CASE Next
  BY <1>2, HandlerValues, TerraformValues, ApiValues, OthersValues DEF Next
<1>3. QED
  BY <1>1, <1>2

\* What an answer tells of the object's values and of the job behind them is
\* still so when resource_factory.go reads it, and what a handler saved when
\* it returned stays so until the next operation.
THEOREM ValuesAreTold == Spec => []ValuesHold
  BY ValuesInitially, ValuesInductive, Invariance, PTL DEF Spec

\* After an operation that succeeded, and that nobody interfered with, the
\* state file holds the values of the object it names.
THEOREM StateIsTrue == Spec => []StateMirrorsObject
<1>1. ValuesHold => StateMirrorsObject
  BY DEF ValuesHold
<1>2. QED
  BY <1>1, ValuesAreTold, PTL

\* An update that checkImmutableFields aborts leaves the object's own values in
\* the state file.
THEOREM AbortsRollBack == Spec => []AbortRollsBack
<1>1. ValuesHold => AbortRollsBack
  BY DEF ValuesHold
<1>2. QED
  BY <1>1, ValuesAreTold, PTL

\* With polling configured, success means that the API has finished, and no
\* created object keeps a status in progress, if the API does not report an
\* object it is done with as under work.
THEOREM SuccessIsDone ==
    ASSUME StatusesTell
    PROVE  Spec => []SuccessMeansDone
<1>1. ValuesHold => SuccessMeansDone
  BY DEF ValuesHold
<1>2. QED
  BY <1>1, ValuesAreTold, PTL

-----------------------------------------------------------------------------
(* Why polling ends.                                                       *)

Reason ==
    \/ result' \in {"ok", "timeout", "crashed"}
    \/ net.kind = "resp" /\ net.code \in {0, 500}
    \/ remote[data.id].job = "none"

\* A refresh that ends the polling in failure found an object the API is done
\* with, or none: the statuses of an object under work are all pending.
LEMMA RefreshReason ==
    ASSUME PollingIsListed, IInv, ValuesHold, PollAnswered, pc' = "idle"
    PROVE  Reason
<1>1. /\ pc = "refresh" /\ net.kind = "resp" /\ net.method = "GET"
      /\ net.id = data.id /\ data.id \in Ids
      /\ remote[data.id].life # "unused"
      /\ remote \in [Ids -> Object]
  BY NetFacts DEF PollAnswered, Waiting, IInv, CallMatches, DataMatches,
     MethodOf, HeldIdsExist
<1>2. net.code \in {0, 200, 404, 500}
  BY <1>1 DEF ValuesHold, ReadAnswerTells
<1>3. CASE net.code = 404
  <2>1. remote[data.id].life = "gone"
    BY <1>1, <1>3 DEF IInv, AnswerHolds, Live, Object
  <2>2. remote[data.id].job = "none"
    BY <1>1, <2>1 DEF ValuesHold, ObjectsTell
  <2>3. QED
    BY <2>2 DEF Reason
<1>4. CASE net.code = 200
  <2>1. /\ Accepted /\ net.status \in Statuses
        /\ remote[data.id].job = "write" => net.status \in Working
        /\ remote[data.id].job = "delete" => net.status \in Removing
    BY <1>1, <1>4, ReadTells DEF Accepted, Expected
  <2>2. CASE net.status \in Working \cup Removing
    <3>1. Readable /\ RefreshedStatus = net.status
      BY <1>4, <2>1, NullAssumption DEF Readable, RefreshedStatus
    <3>2. net.status \in PollPending \/ PollPending = {}
      BY <2>2 DEF PollingIsListed
    <3>3. op # "delete" => RefreshedStatus \notin Target
      BY <2>2, <3>1 DEF PollingIsListed, Target
    <3>4. RefreshedStatus \notin Target => StillPending
      BY <3>1, <3>2 DEF StillPending, Pending
    <3>5. ~Poll(data)
      BY DEF Poll
    <3>6. op = "delete" /\ Return("ok")
      BY <3>1, <3>3, <3>4, <3>5 DEF PollAnswered
    <3>7. QED
      BY <3>6 DEF Return, Reason
  <2>3. CASE net.status \notin Working \cup Removing
    BY <1>1, <2>1, <2>3 DEF Reason, Object
  <2>4. QED
    BY <2>2, <2>3
<1>5. QED
  BY <1>1, <1>2, <1>3, <1>4 DEF Reason

LEMMA PollReason ==
    ASSUME PollingIsListed, IInv, ValuesHold, Next,
           pc \in {"poll", "refresh"}, pc' = "idle"
    PROVE  Reason
<1>1. ~PollRefreshes
  BY DEF PollRefreshes, PollingIsListed, Call
<1>2. \/ PollAnswered \/ PollTimesOut \/ Crash
  BY <1>1 DEF Next, Handler, Terraform, Api, Others, CreateAnswered,
     ReadAnswered, CheckAnswered, UpdateAnswered, DeleteAnswered, Waiting,
     Configure, StartRead, StartCreate, StartUpdate, StartDelete,
     StartImport, tfVars
<1>3. PollTimesOut \/ Crash => Reason
  BY DEF PollTimesOut, Crash, Return, Reason
<1>4. QED
  BY <1>2, <1>3, RefreshReason

\* When the document lists the statuses of an object under work as pending,
\* polling never gives up on an object the API is still working on, unless
\* a call fails, the operation times out or the provider dies.
THEOREM PollingEndsForAReason ==
    ASSUME PollingIsListed
    PROVE  Spec => PollEndsForAReason
<1> DEFINE A == (pc \in {"poll", "refresh"} /\ pc' = "idle") => Reason
<1>1. IInv /\ ValuesHold /\ [Next]_vars => [A]_vars
  BY PollReason
<1>2. Spec => [][A]_vars
  BY <1>1, Invariance, ValuesAreTold, PTL DEF Spec
<1>3. QED
  BY <1>2 DEF PollEndsForAReason, Reason

=============================================================================
