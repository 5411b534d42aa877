-------------------------- MODULE ResourceCrudProofs --------------------------
(***************************************************************************)
(* Proofs, for every value of the constants, about the handlers of         *)
(* ResourceCrud.                                                           *)
(***************************************************************************)
EXTENDS ResourceCrudProps, TLAPS

\* The record types of the model, for the leaves that build records.
LEMMA QuietType == Quiet \in Message
  BY DEF Quiet, Message, Codes, Payload, Empty

LEMMA EmptyType == Empty \in Payload
  BY DEF Empty, Payload

LEMMA ConfigType == Config \subseteq Payload
  BY DEF Config, Payload

\* Merge keeps a property the payload omits and takes the others from it.
LEMMA MergeType ==
    ASSUME NEW v \in Payload, NEW w \in Payload
    PROVE  Merge(v, w) \in Payload
  BY DEF Merge, Payload

LEMMA RequestType ==
    ASSUME NEW m \in Methods, NEW id \in Ids \cup {Null}, NEW v \in Payload
    PROVE  Request(m, id, v) \in Message
  BY DEF Request, Quiet, Message, Codes, Payload, Empty

LEMMA ResponseType ==
    ASSUME net \in Message, NEW c \in Codes, NEW id \in Ids \cup {Null},
           NEW v \in Payload, NEW s \in Statuses \cup {Null}, NEW b \in BOOLEAN
    PROVE  Response(c, id, v, s, b) \in Message
  BY DEF Response, Message

LEMMA WrittenType ==
    ASSUME NEW v \in Payload, NEW c \in Codes, NEW s \in Statuses
    PROVE  /\ Written(v, c, s) \in Object
           /\ Written(v, c, s).life = "live"
           /\ Written(v, c, s).vals = v
  BY DEF Written, Object

LEMMA NoDataType ==
    /\ NoData \in ResourceData /\ NoData.id = Null
    /\ NoEntry \in StateEntry /\ NoEntry.id = Null
  BY EmptyType DEF NoData, NoEntry, ResourceData, StateEntry

LEMMA EntryOfType ==
    ASSUME NEW d \in ResourceData, NEW t \in BOOLEAN
    PROVE  /\ EntryOf(d, t) \in StateEntry
           /\ EntryOf(d, t).id = d.id
  BY NoDataType DEF EntryOf, ResourceData, StateEntry

LEMMA SavedByType ==
    ASSUME net \in Message, NEW d0 \in ResourceData, NEW d \in SavedBy(d0)
    PROVE  d \in ResourceData /\ d.id = d0.id
<1>1. \E P \in SUBSET Props, s \in BOOLEAN : d = Copied(d0, P, s)
  <2>1. CASE net.sound
    <3>1. d = Copied(d0, Props, TRUE)
      BY <2>1 DEF SavedBy
    <3>2. Props \in SUBSET Props /\ TRUE \in BOOLEAN
      OBVIOUS
    <3>3. QED
      BY <3>1, <3>2
  <2>2. CASE ~net.sound
    <3>1. d \in {Copied(d0, P, s) : P \in SUBSET Props, s \in BOOLEAN}
      BY <2>2 DEF SavedBy
    <3>2. QED
      BY <3>1
  <2>3. QED
    BY <2>1, <2>2
<1>2. PICK P \in SUBSET Props, s \in BOOLEAN : d = Copied(d0, P, s)
  BY <1>1
<1>3. QED
  BY <1>2 DEF Copied, Message, Payload, ResourceData

-----------------------------------------------------------------------------
(* How a handler's step ends: it returns, polls or calls the API.  Each    *)
(* lemma says what the step still owes for the invariant to hold after it. *)

LEMMA ReturnStep ==
    ASSUME IInv, NEW r \in Outcomes, Return(r),
           budget' \in 0..Budget, owned' \subseteq Ids, entry' \in StateEntry,
           entry'.id # Null => remote[entry'.id].life # "unused",
           DeletesAreWatched => \A id \in owned' :
                remote[id].life = "gone" \/ id = entry'.id
    PROVE  IInv'
<1> USE DEF Return, IInv
<1>1. TypeOK'
  BY QuietType, NoDataType DEF TypeOK, ApiTypeOK, Points
<1>2. CallMatches' /\ DataMatches'
  BY DEF CallMatches, DataMatches
<1>3. HeldIdsExist'
  BY DEF HeldIdsExist, Tracked
<1>4. AnswerHolds' /\ PutKeepsImmutable'
  BY DEF AnswerHolds, PutKeepsImmutable, Asked, Quiet
<1>5. NothingDropped'
  BY DEF NothingDropped, DeletesAreWatched
<1>6. QED
  BY <1>1, <1>2, <1>3, <1>4, <1>5

LEMMA PollStep ==
    ASSUME IInv, NEW d \in ResourceData, Poll(d),
           d.id \in Ids, remote[d.id].life # "unused",
           op \in {"create", "update", "delete"},
           IF op = "create" THEN entry.id = Null ELSE d.id = entry.id,
           owned' \subseteq Ids,
           DeletesAreWatched => \A id \in owned' :
                \/ remote[id].life = "gone"
                \/ id = entry.id
                \/ op = "create" /\ id = d.id
    PROVE  IInv'
<1> USE DEF Poll, IInv
<1>1. TypeOK'
  BY QuietType DEF TypeOK, ApiTypeOK, Points
<1>2. CallMatches' /\ DataMatches'
  BY DEF CallMatches, DataMatches
<1>3. HeldIdsExist'
  BY DEF HeldIdsExist, Tracked
<1>4. AnswerHolds' /\ PutKeepsImmutable'
  BY DEF AnswerHolds, PutKeepsImmutable, Asked, Quiet
<1>5. NothingDropped'
  BY DEF NothingDropped, DeletesAreWatched
<1>6. QED
  BY <1>1, <1>2, <1>3, <1>4, <1>5

LEMMA CallStep ==
    ASSUME IInv,
           NEW point \in Points \ {"idle", "poll"},
           NEW id \in Ids \cup {Null}, NEW v \in Payload,
           Call(point, MethodOf[point], id, v),
           UNCHANGED <<remote, budget, config, entry, owned>>,
           data' \in ResourceData,
           op' \in {"create", "read", "update", "delete", "import"},
           result' \in Outcomes \cup {"none"},
           drift' \in BOOLEAN,
           DataMatches',
           point # "post" => id = data'.id,
           point = "refresh" => remote[id].life # "unused",
           point = "put" => \A p \in Immutable : v[p] = remote[id].vals[p],
           DeletesAreWatched => \A i \in owned :
                \/ remote[i].life = "gone"
                \/ i = entry.id
                \/ op' = "create" /\ i = data'.id
    PROVE  IInv'
<1> USE DEF Call, IInv
<1>1. MethodOf[point] \in Methods
  BY DEF MethodOf, Methods, Points
<1>2. net' \in Message
  BY <1>1, RequestType
<1>3. TypeOK'
  BY <1>2 DEF TypeOK, ApiTypeOK
<1>4. CallMatches'
  BY DEF CallMatches, Request, Points
<1>5. HeldIdsExist'
  BY DEF HeldIdsExist, Tracked, Points
<1>6. AnswerHolds'
  BY DEF AnswerHolds, Request
<1>7. PutKeepsImmutable'
  <2>1. Asked("PUT")' => point = "put"
    BY DEF Asked, Request, MethodOf, Points
  <2>2. QED
    BY <2>1 DEF PutKeepsImmutable, Request
<1>8. NothingDropped'
  BY DEF NothingDropped, DeletesAreWatched, Points
<1>9. QED
  BY <1>3, <1>4, <1>5, <1>6, <1>7, <1>8

-----------------------------------------------------------------------------
(* The invariant is preserved: one lemma per step of a handler.            *)

\* What a failed operation leaves in the state file: the ResourceData of a
\* create or an update, the entry as it was otherwise.
LEMMA KeptEntry ==
    ASSUME IInv, KeepAfterError, pc # "idle"
    PROVE  /\ entry' \in StateEntry
           /\ entry'.id = IF op = "create" THEN data.id ELSE entry.id
<1>1. data \in ResourceData /\ entry \in StateEntry
  BY DEF IInv, TypeOK
<1>2. CASE op \in {"create", "update"}
  <2>1. entry' = EntryOf(data, op = "create")
    BY <1>2 DEF KeepAfterError
  <2>2. entry' \in StateEntry /\ entry'.id = data.id
    BY <1>1, <2>1, EntryOfType
  <2>3. op = "update" => data.id = entry.id
    BY DEF IInv, DataMatches
  <2>4. QED
    BY <1>2, <2>2, <2>3
<1>3. CASE op \notin {"create", "update"}
  BY <1>1, <1>3 DEF KeepAfterError
<1>4. QED
  BY <1>2, <1>3

\* A handler that fails loses no identifier.
LEMMA FailStep ==
    ASSUME IInv, pc # "idle", NEW r \in Outcomes, Return(r), KeepAfterError,
           owned' = owned, budget' \in 0..Budget
    PROVE  IInv'
<1>1. /\ entry' \in StateEntry
      /\ entry'.id = IF op = "create" THEN data.id ELSE entry.id
  BY KeptEntry
<1>2. owned' \subseteq Ids
  BY DEF IInv, TypeOK
<1>3. entry'.id # Null => remote[entry'.id].life # "unused"
  BY <1>1 DEF IInv, HeldIdsExist, DataMatches, Tracked, TypeOK, Points
<1>4. DeletesAreWatched => \A id \in owned' :
          remote[id].life = "gone" \/ id = entry'.id
  BY <1>1, <1>2, NullAssumption DEF IInv, NothingDropped, DataMatches
<1>5. QED
  BY <1>1, <1>2, <1>3, <1>4, ReturnStep

LEMMA CreateStep ==
    ASSUME IInv, CreateAnswered
    PROVE  IInv'
<1>1. /\ pc = "post" /\ net.kind = "resp" /\ net.method = "POST"
      /\ op = "create" /\ data.id = Null /\ entry.id = Null
  BY DEF CreateAnswered, Waiting, IInv, CallMatches, DataMatches, MethodOf
<1>2. CASE ~Accepted \/ net.id = Null
  <2>1. Fail("failed")
    BY <1>2 DEF CreateAnswered
  <2>2. QED
    BY <1>1, <2>1, FailStep DEF Fail, Outcomes, IInv, TypeOK, ApiTypeOK
<1>3. CASE Accepted /\ net.id # Null
  <2> DEFINE d == [data EXCEPT !.id = net.id]
  <2>1. net.id \in Ids /\ net.code \in {200, 201, 202}
    BY <1>1, <1>3 DEF Accepted, Expected, IInv, TypeOK, ApiTypeOK, Message
  <2>2. remote[net.id].life # "unused"
    BY <1>1, <2>1, NullAssumption DEF IInv, AnswerHolds
  <2>3. d \in ResourceData /\ d.id = net.id
    BY <2>1 DEF IInv, TypeOK, ResourceData
  <2> HIDE DEF d
  <2>4. owned' = owned \cup {net.id} /\ owned' \subseteq Ids
    BY <1>3, <2>1 DEF CreateAnswered, IInv, TypeOK
  <2>5. DeletesAreWatched => \A id \in owned :
            remote[id].life = "gone"
    BY <1>1, NullAssumption DEF IInv, NothingDropped, TypeOK
  <2>6. CASE PollingConfigured
    <3>1. Poll(d)
      BY <1>3, <2>6 DEF CreateAnswered, d
    <3>2. QED
      BY <1>1, <2>1, <2>2, <2>3, <2>4, <2>5, <3>1, PollStep
  <2>7. CASE ~PollingConfigured
    <3>1. SaveAndReturn(d)
      BY <1>3, <2>7 DEF CreateAnswered, d
    <3>2. PICK e \in SavedBy(d) :
              entry' = EntryOf(e, op = "create" /\ ~net.sound)
      BY <3>1 DEF SaveAndReturn
    <3>3. e \in ResourceData /\ e.id = net.id
      BY <2>3, SavedByType DEF IInv, TypeOK, ApiTypeOK
    <3>4. entry' \in StateEntry /\ entry'.id = net.id
      BY <3>2, <3>3, EntryOfType
    <3>5. /\ Return(IF net.sound THEN "ok" ELSE "failed")
          /\ (IF net.sound THEN "ok" ELSE "failed") \in Outcomes
          /\ budget' \in 0..Budget
      BY <3>1 DEF SaveAndReturn, Outcomes, IInv, TypeOK, ApiTypeOK
    <3>6. QED
      BY <2>2, <2>4, <2>5, <3>4, <3>5, ReturnStep
  <2>8. QED
    BY <2>6, <2>7
<1>4. QED
  BY <1>2, <1>3

LEMMA ReadStep ==
    ASSUME IInv, ReadAnswered
    PROVE  IInv'
<1>1. /\ pc = "get" /\ net.kind = "resp" /\ net.method = "GET"
      /\ op \in {"read", "import"} /\ data.id \in Ids /\ net.id = data.id
      /\ op = "import" => entry.id = Null
      /\ op = "read" => data.id = entry.id
  BY DEF ReadAnswered, Waiting, IInv, CallMatches, DataMatches, MethodOf
<1>2. budget' \in 0..Budget /\ data \in ResourceData /\ entry \in StateEntry
      /\ net \in Message /\ owned \subseteq Ids
  BY DEF ReadAnswered, IInv, TypeOK, ApiTypeOK
<1>3. CASE Accepted /\ net.sound
  <2>1. remote[data.id].life # "unused"
    BY <1>1, <1>3 DEF Accepted, Expected, IInv, AnswerHolds
  <2>2. /\ Return("ok")
        /\ owned' = owned \cup {data.id}
        /\ \E e \in SavedBy(data) : entry' = EntryOf(e, entry.tainted)
    BY <1>3 DEF ReadAnswered
  <2>3. PICK e \in SavedBy(data) : entry' = EntryOf(e, entry.tainted)
    BY <2>2
  <2>4. e \in ResourceData /\ e.id = data.id
    BY <1>2, SavedByType
  <2>5. entry' \in StateEntry /\ entry'.id = data.id
    BY <1>2, <2>3, <2>4, EntryOfType DEF StateEntry
  <2>6. DeletesAreWatched => \A id \in owned' :
            remote[id].life = "gone" \/ id = entry'.id
    BY <1>1, <1>2, <2>2, <2>5, NullAssumption DEF IInv, NothingDropped
  <2>7. QED
    BY <1>1, <1>2, <2>1, <2>2, <2>5, <2>6, ReturnStep DEF Outcomes
<1>4. CASE ~(Accepted /\ net.sound)
  <2>1. /\ UNCHANGED <<entry, owned>>
        /\ \E r \in Outcomes : Return(r)
    BY <1>4 DEF ReadAnswered, Outcomes
  <2>2. PICK r \in Outcomes : Return(r)
    BY <2>1
  <2>3. entry'.id # Null => remote[entry'.id].life # "unused"
    BY <2>1 DEF IInv, HeldIdsExist, Tracked
  <2>4. DeletesAreWatched => \A id \in owned' :
            remote[id].life = "gone" \/ id = entry'.id
    BY <1>1, <2>1 DEF IInv, NothingDropped
  <2>5. QED
    BY <1>2, <2>1, <2>2, <2>3, <2>4, ReturnStep
<1>5. QED
  BY <1>3, <1>4

LEMMA CheckStep ==
    ASSUME IInv, CheckAnswered
    PROVE  IInv'
<1>1. /\ pc = "check" /\ net.kind = "resp" /\ net.method = "GET"
      /\ op = "update" /\ data.id \in Ids /\ net.id = data.id
      /\ data.id = entry.id /\ data.vals \in Config
  BY DEF CheckAnswered, Waiting, IInv, CallMatches, DataMatches, MethodOf
<1>2. /\ budget' \in 0..Budget /\ budget' = budget /\ owned' = owned
      /\ data \in ResourceData /\ net \in Message /\ owned \subseteq Ids
  BY DEF CheckAnswered, IInv, TypeOK, ApiTypeOK
<1>3. remote[data.id].life # "unused"
  BY <1>1, NullAssumption DEF IInv, HeldIdsExist, Tracked
<1>4. DeletesAreWatched => \A id \in owned :
          remote[id].life = "gone" \/ id = data.id
  BY <1>1 DEF IInv, NothingDropped
<1>5. CASE ~Accepted
  BY <1>1, <1>2, <1>5, FailStep DEF CheckAnswered, Outcomes
<1>6. CASE Accepted /\ ImmutableChanged
  <2>1. /\ \E e \in SavedBy(data) : entry' = EntryOf(e, FALSE)
        /\ \E r \in Outcomes : Return(r)
    BY <1>6 DEF CheckAnswered, Outcomes
  <2>2. PICK e \in SavedBy(data) : entry' = EntryOf(e, FALSE)
    BY <2>1
  <2>3. PICK r \in Outcomes : Return(r)
    BY <2>1
  <2>4. e \in ResourceData /\ e.id = data.id
    BY <1>2, SavedByType
  <2>5. entry' \in StateEntry /\ entry'.id = data.id
    BY <2>2, <2>4, EntryOfType
  <2>6. QED
    BY <1>2, <1>3, <1>4, <2>3, <2>5, ReturnStep
<1>7. CASE Accepted /\ ~ImmutableChanged
  <2>1. /\ Call("put", "PUT", data.id, data.vals)
        /\ UNCHANGED <<config, entry, data, op, result, drift, remote>>
    BY <1>7 DEF CheckAnswered
  <2>2. net.code = 200
    BY <1>1, <1>7 DEF Accepted, Expected
  <2>3. \A p \in Immutable : data.vals[p] = remote[data.id].vals[p]
    BY <1>1, <1>7, <2>2 DEF ImmutableChanged, IInv, AnswerHolds
  <2>4. DataMatches'
    BY <1>1, <2>1 DEF DataMatches, Call
  <2>5. result' \in Outcomes \cup {"none"} /\ drift' \in BOOLEAN
    BY <1>1, <2>1 DEF IInv, TypeOK
  <2>6. QED
    BY <1>1, <1>2, <1>4, <2>1, <2>3, <2>4, <2>5, ConfigType, CallStep
      DEF Points, MethodOf
<1>8. QED
  BY <1>5, <1>6, <1>7

\* What saving the payload of an answer leaves: the entry of the ResourceData.
LEMMA SaveStep ==
    ASSUME IInv, op \in {"create", "update"}, net.kind = "resp",
           data.id \in Ids, remote[data.id].life # "unused",
           SaveAndReturn(data), owned' = owned,
           op = "update" => data.id = entry.id,
           op = "create" => entry.id = Null
    PROVE  IInv'
<1>1. data \in ResourceData /\ net \in Message /\ owned \subseteq Ids
      /\ budget' \in 0..Budget
  BY DEF SaveAndReturn, IInv, TypeOK, ApiTypeOK
<1>2. PICK e \in SavedBy(data) :
          entry' = EntryOf(e, op = "create" /\ ~net.sound)
  BY DEF SaveAndReturn
<1>3. e \in ResourceData /\ e.id = data.id
  BY <1>1, SavedByType
<1>4. entry' \in StateEntry /\ entry'.id = data.id
  BY <1>2, <1>3, EntryOfType
<1>5. /\ Return(IF net.sound THEN "ok" ELSE "failed")
      /\ (IF net.sound THEN "ok" ELSE "failed") \in Outcomes
  BY DEF SaveAndReturn, Outcomes
<1>6. DeletesAreWatched => \A id \in owned' :
          remote[id].life = "gone" \/ id = entry'.id
  BY <1>1, <1>4, NullAssumption DEF IInv, NothingDropped
<1>7. QED
  BY <1>1, <1>4, <1>5, <1>6, ReturnStep

LEMMA UpdateStep ==
    ASSUME IInv, UpdateAnswered
    PROVE  IInv'
<1>1. /\ pc = "put" /\ net.kind = "resp" /\ op = "update"
      /\ data.id \in Ids /\ data.id = entry.id
  BY DEF UpdateAnswered, Waiting, IInv, DataMatches
<1>2. remote[data.id].life # "unused"
  BY <1>1, NullAssumption DEF IInv, HeldIdsExist, Tracked
<1>3. data \in ResourceData /\ owned' = owned /\ owned \subseteq Ids
  BY DEF UpdateAnswered, IInv, TypeOK
<1>4. CASE ~Accepted
  <2>1. Fail("failed")
    BY <1>4 DEF UpdateAnswered
  <2>2. QED
    BY <1>1, <2>1, FailStep DEF Fail, Outcomes, IInv, TypeOK, ApiTypeOK
<1>5. CASE Accepted /\ PollingConfigured
  <2>1. Poll(data)
    BY <1>5 DEF UpdateAnswered
  <2>2. DeletesAreWatched => \A id \in owned :
            remote[id].life = "gone" \/ id = entry.id
    BY <1>1 DEF IInv, NothingDropped
  <2>3. QED
    BY <1>1, <1>2, <1>3, <2>1, <2>2, PollStep
<1>6. CASE Accepted /\ ~PollingConfigured
  <2>1. SaveAndReturn(data)
    BY <1>6 DEF UpdateAnswered
  <2>2. QED
    BY <1>1, <1>2, <1>3, <2>1, SaveStep
<1>7. QED
  BY <1>4, <1>5, <1>6

\* delete forgets the identifier only when the object is gone, if a delete
\* answered with 202 is polled.
LEMMA DeleteStep ==
    ASSUME IInv, DeleteAnswered
    PROVE  IInv'
<1>1. /\ pc = "delete" /\ net.kind = "resp" /\ net.method = "DELETE"
      /\ op = "delete" /\ data.id \in Ids /\ data.id = entry.id
      /\ net.id = data.id
  BY DEF DeleteAnswered, Waiting, IInv, CallMatches, DataMatches, MethodOf
<1>2. remote[data.id].life # "unused"
  BY <1>1, NullAssumption DEF IInv, HeldIdsExist, Tracked
<1>3. data \in ResourceData /\ owned' = owned /\ owned \subseteq Ids
      /\ remote \in [Ids -> Object] /\ budget \in 0..Budget
  BY DEF DeleteAnswered, IInv, TypeOK, ApiTypeOK
<1>4. DeletesAreWatched => \A id \in owned :
          remote[id].life = "gone" \/ id = data.id
  BY <1>1 DEF IInv, NothingDropped
<1>5. CASE ~Accepted /\ net.code # 404
  <2>1. Fail("failed")
    BY <1>5 DEF DeleteAnswered
  <2>2. QED
    BY <1>1, <2>1, FailStep DEF Fail, Outcomes, IInv, TypeOK, ApiTypeOK
<1>6. CASE Accepted /\ PollingConfigured
  <2>1. Poll(data)
    BY <1>6 DEF DeleteAnswered
  <2>2. QED
    BY <1>1, <1>2, <1>3, <1>4, <2>1, PollStep
<1>7. CASE ~(~Accepted /\ net.code # 404) /\ ~(Accepted /\ PollingConfigured)
  <2>1. entry' = NoEntry /\ Return("ok") /\ UNCHANGED budget
    BY <1>7 DEF DeleteAnswered
  <2>2. DeletesAreWatched => net.code # 202
    BY <1>1, <1>7 DEF DeletesAreWatched, PollingConfigured, Accepted, Expected
  <2>3. net.code \in {200, 202, 204, 404}
    BY <1>1, <1>7 DEF Accepted, Expected
  <2>4. DeletesAreWatched => ~Live(data.id)
    BY <1>1, <2>2, <2>3 DEF IInv, AnswerHolds
  <2>5. DeletesAreWatched => remote[data.id].life = "gone"
    BY <1>1, <1>2, <1>3, <2>4 DEF Live, Object
  <2>6. DeletesAreWatched => \A id \in owned' :
            remote[id].life = "gone" \/ id = entry'.id
    BY <1>3, <1>4, <2>5
  <2>7. QED
    BY <1>3, <2>1, <2>6, NoDataType, ReturnStep DEF Outcomes
<1>8. QED
  BY <1>5, <1>6, <1>7

LEMMA PollRefreshStep ==
    ASSUME IInv, PollRefreshes
    PROVE  IInv'
<1>1. pc = "poll" /\ op \in {"create", "update", "delete"} /\ data.id \in Ids
      /\ remote[data.id].life # "unused"
  BY DEF PollRefreshes, IInv, DataMatches, HeldIdsExist
<1>2. CASE NParents > 0
  <2>1. Fail("unread")
    BY <1>2 DEF PollRefreshes
  <2>2. QED
    BY <1>1, <2>1, FailStep DEF Fail, Outcomes, IInv, TypeOK, ApiTypeOK
<1>3. CASE ~(NParents > 0)
  <2>1. /\ Call("refresh", "GET", data.id, Empty)
        /\ UNCHANGED <<config, entry, data, op, result, owned, drift,
                       remote, budget>>
    BY <1>3 DEF PollRefreshes
  <2>2. data' \in ResourceData /\ drift' \in BOOLEAN
        /\ result' \in Outcomes \cup {"none"}
    BY <2>1 DEF IInv, TypeOK
  <2>3. DataMatches'
    BY <1>1, <2>1 DEF IInv, DataMatches, Call
  <2>4. DeletesAreWatched => \A i \in owned :
            \/ remote[i].life = "gone"
            \/ i = entry.id
            \/ op' = "create" /\ i = data'.id
    BY <2>1 DEF IInv, NothingDropped
  <2>5. QED
    BY <1>1, <2>1, <2>2, <2>3, <2>4, EmptyType, CallStep DEF Points, MethodOf
<1>4. QED
  BY <1>2, <1>3

LEMMA PollAnswerStep ==
    ASSUME IInv, PollAnswered
    PROVE  IInv'
<1>1. /\ pc = "refresh" /\ net.kind = "resp" /\ net.method = "GET"
      /\ op \in {"create", "update", "delete"} /\ data.id \in Ids
      /\ net.id = data.id /\ remote[data.id].life # "unused"
      /\ IF op = "create" THEN entry.id = Null ELSE data.id = entry.id
  BY DEF PollAnswered, Waiting, IInv, CallMatches, DataMatches, MethodOf,
         HeldIdsExist
<1>2. data \in ResourceData /\ owned' = owned /\ owned \subseteq Ids
      /\ remote \in [Ids -> Object] /\ budget \in 0..Budget
      /\ net \in Message
  BY DEF PollAnswered, IInv, TypeOK, ApiTypeOK
<1>3. DeletesAreWatched => \A id \in owned :
          \/ remote[id].life = "gone"
          \/ id = entry.id
          \/ op = "create" /\ id = data.id
  BY <1>1 DEF IInv, NothingDropped
<1>4. CASE Fail("failed")
  BY <1>1, <1>2, <1>4, FailStep DEF Fail, Outcomes
<1>5. CASE Poll(data)
  BY <1>1, <1>2, <1>3, <1>5, PollStep
<1>6. CASE SaveAndReturn(data) /\ op # "delete"
  BY <1>1, <1>2, <1>6, SaveStep
<1>7. CASE /\ RefreshedStatus \in Target /\ op = "delete"
           /\ entry' = NoEntry /\ Return("ok") /\ UNCHANGED budget
  <2>1. RefreshedStatus = Destroyed
    BY <1>7 DEF Target
  <2>2. Readable
    BY <1>7, <2>1 DEF Readable, PollAnswered, Fail, Return, Outcomes
  <2>3. DeletesAreWatched => net.code = 404
    BY <1>2, <2>1, <2>2 DEF RefreshedStatus, Readable, DeletesAreWatched,
                            Message
  <2>4. DeletesAreWatched => remote[data.id].life = "gone"
    BY <1>1, <1>2, <2>3 DEF IInv, AnswerHolds, Live, Object
  <2>5. DeletesAreWatched => \A id \in owned' :
            remote[id].life = "gone" \/ id = entry'.id
    BY <1>1, <1>2, <1>3, <1>7, <2>4
  <2>6. QED
    BY <1>2, <1>7, <2>5, NoDataType, ReturnStep DEF Outcomes
<1>8. QED
  BY <1>4, <1>5, <1>6, <1>7 DEF PollAnswered

LEMMA PollTimeoutStep ==
    ASSUME IInv, PollTimesOut
    PROVE  IInv'
<1>1. pc # "idle" /\ Return("timeout") /\ KeepAfterError /\ owned' = owned
  BY DEF PollTimesOut
<1>2. budget' \in 0..Budget
  BY BudgetAssumption DEF PollTimesOut, Spend, IInv, TypeOK, ApiTypeOK
<1>3. QED
  BY <1>1, <1>2, FailStep DEF Outcomes

-----------------------------------------------------------------------------
(* ... and one lemma per step of Terraform, which starts the handlers.     *)

\* Nothing but the configuration and the last outcome changes between two
\* operations.
LEMMA IdleStep ==
    ASSUME IInv, pc = "idle",
           UNCHANGED <<data, pc, owned, remote, net>>,
           config' \in Config \cup {Null}, entry' \in StateEntry,
           entry'.id = entry.id, budget' \in 0..Budget, drift' \in BOOLEAN,
           op' \in {"none", "create", "read", "update", "delete", "import"},
           result' \in Outcomes \cup {"none"}
    PROVE  IInv'
<1> USE DEF IInv
<1>1. TypeOK'
  BY DEF TypeOK, ApiTypeOK
<1>2. CallMatches' /\ DataMatches'
  BY DEF CallMatches, DataMatches
<1>3. HeldIdsExist'
  BY DEF HeldIdsExist, Tracked
<1>4. AnswerHolds' /\ PutKeepsImmutable'
  BY DEF CallMatches, AnswerHolds, PutKeepsImmutable, Asked, Quiet
<1>5. NothingDropped'
  BY DEF NothingDropped, DeletesAreWatched
<1>6. QED
  BY <1>1, <1>2, <1>3, <1>4, <1>5

LEMMA ConfigureStep ==
    ASSUME IInv, Configure
    PROVE  IInv'
<1>1. budget' \in 0..Budget
  BY BudgetAssumption DEF Configure, Spend, IInv, TypeOK, ApiTypeOK
<1>2. QED
  BY <1>1, IdleStep DEF Configure, IInv, TypeOK

\* An operation that starts with a call on the object id.
LEMMA BeginStep ==
    ASSUME IInv, pc = "idle",
           NEW o \in {"read", "update", "delete", "import"},
           NEW d \in ResourceData,
           NEW point \in Points \ {"idle", "post", "poll", "put", "refresh"},
           Begin(o, d), Call(point, MethodOf[point], d.id, Empty), DataMatches'
    PROVE  IInv'
<1>1. /\ UNCHANGED <<remote, budget, config, entry, owned>>
      /\ data' = d /\ op' = o
      /\ result' \in Outcomes \cup {"none"} /\ drift' \in BOOLEAN
  BY DEF Begin
<1>2. d.id \in Ids \cup {Null}
  BY DEF ResourceData
<1>3. DeletesAreWatched => \A i \in owned :
          \/ remote[i].life = "gone"
          \/ i = entry.id
          \/ op' = "create" /\ i = data'.id
  BY DEF IInv, NothingDropped
<1>4. point \in Points \ {"idle", "poll"} /\ point \notin {"post", "put", "refresh"}
  OBVIOUS
<1>5. op' \in {"create", "read", "update", "delete", "import"}
  BY <1>1
<1>6. QED
  BY <1>1, <1>2, <1>3, <1>4, <1>5, EmptyType, CallStep

LEMMA ReadStarts ==
    ASSUME IInv, StartRead
    PROVE  IInv'
<1> DEFINE d == [id |-> entry.id, vals |-> entry.vals, status |-> entry.status]
<1>1. /\ pc = "idle" /\ entry.id # Null /\ Begin("read", d)
      /\ Call("get", "GET", entry.id, Empty)
  BY DEF StartRead, Tracked
<1>2. entry \in StateEntry /\ entry.id \in Ids
  BY <1>1 DEF IInv, TypeOK, StateEntry
<1>3. d \in ResourceData
  BY <1>2 DEF StateEntry, ResourceData
<1>4. DataMatches'
  BY <1>1, <1>2 DEF DataMatches, Begin, Call
<1>5. d.id = entry.id /\ MethodOf["get"] = "GET"
  BY DEF MethodOf
<1>6. QED
  BY <1>1, <1>3, <1>4, <1>5, BeginStep DEF Points

LEMMA CreateStarts ==
    ASSUME IInv, StartCreate
    PROVE  IInv'
<1> DEFINE d == [NoData EXCEPT !.vals = config]
<1>1. /\ pc = "idle" /\ entry.id = Null /\ config \in Config
      /\ Begin("create", d) /\ Call("post", "POST", Null, config)
  BY DEF StartCreate, Tracked, IInv, TypeOK
<1>2. config \in Payload
  BY <1>1, ConfigType
<1>3. d \in ResourceData /\ d.id = Null
  BY <1>2, NoDataType DEF NoData, ResourceData
<1>4. DataMatches'
  BY <1>1, <1>3 DEF DataMatches, Begin, Call
<1>5. DeletesAreWatched => \A i \in owned :
          remote[i].life = "gone" \/ i = entry.id
  BY <1>1 DEF IInv, NothingDropped
<1>6. QED
  BY <1>1, <1>2, <1>3, <1>4, <1>5, CallStep DEF Begin, Points, MethodOf

LEMMA UpdateStarts ==
    ASSUME IInv, StartUpdate
    PROVE  IInv'
<1>1. /\ pc = "idle" /\ entry.id # Null /\ config \in Config
      /\ entry \in StateEntry /\ entry.id \in Ids
  BY DEF StartUpdate, MustUpdate, Tracked, IInv, TypeOK, StateEntry
<1>2. Planned \in ResourceData /\ Planned.id = entry.id
      /\ Planned.vals = config
  BY <1>1, ConfigType DEF Planned, ResourceData, StateEntry
<1>3. CASE "PUT" \in Supported
  <2>1. Begin("update", Planned) /\ Call("check", "GET", entry.id, Empty)
    BY <1>3 DEF StartUpdate
  <2>2. DataMatches'
    BY <1>1, <1>2, <2>1 DEF DataMatches, Begin, Call
  <2>3. MethodOf["check"] = "GET"
    BY DEF MethodOf
  <2>4. QED
    BY <1>1, <1>2, <2>1, <2>2, <2>3, BeginStep DEF Points
<1>4. CASE "PUT" \notin Supported
  <2>1. /\ op' = "update" /\ result' = "failed" /\ drift' = FALSE
        /\ entry' = EntryOf(Planned, FALSE)
        /\ UNCHANGED <<config, data, pc, owned, remote, net, budget>>
    BY <1>4 DEF StartUpdate, apiVars
  <2>2. entry' \in StateEntry /\ entry'.id = entry.id
    BY <1>2, <2>1, EntryOfType
  <2>3. config' \in Config \cup {Null} /\ budget' \in 0..Budget
    BY <2>1 DEF IInv, TypeOK, ApiTypeOK
  <2>4. QED
    BY <1>1, <2>1, <2>2, <2>3, IdleStep DEF Outcomes
<1>5. QED
  BY <1>3, <1>4

LEMMA DeleteStarts ==
    ASSUME IInv, StartDelete
    PROVE  IInv'
<1> DEFINE d == [id |-> entry.id, vals |-> entry.vals, status |-> entry.status]
<1>1. pc = "idle" /\ entry.id # Null /\ entry \in StateEntry /\ entry.id \in Ids
  BY DEF StartDelete, MustDelete, Tracked, IInv, TypeOK, StateEntry
<1>2. d \in ResourceData
  BY <1>1 DEF StateEntry, ResourceData
<1>3. CASE "DELETE" \in Supported
  <2>1. Begin("delete", d) /\ Call("delete", "DELETE", entry.id, Empty)
    BY <1>3 DEF StartDelete
  <2>2. DataMatches'
    BY <1>1, <2>1 DEF DataMatches, Begin, Call
  <2>3. d.id = entry.id /\ MethodOf["delete"] = "DELETE"
    BY DEF MethodOf
  <2>4. QED
    BY <1>1, <1>2, <2>1, <2>2, <2>3, BeginStep DEF Points
<1>4. CASE "DELETE" \notin Supported
  <2>1. /\ op' = "delete" /\ result' = "failed" /\ drift' = FALSE
        /\ UNCHANGED <<config, entry, data, pc, owned, remote, net, budget>>
    BY <1>4 DEF StartDelete, apiVars
  <2>2. /\ config' \in Config \cup {Null} /\ budget' \in 0..Budget
        /\ entry' \in StateEntry
    BY <1>1, <2>1 DEF IInv, TypeOK, ApiTypeOK
  <2>3. QED
    BY <1>1, <2>1, <2>2, IdleStep DEF Outcomes
<1>5. QED
  BY <1>3, <1>4

LEMMA ImportStarts ==
    ASSUME IInv, NEW id \in Ids, NEW segments \in Nat, StartImport(id, segments)
    PROVE  IInv'
<1> DEFINE d == [NoData EXCEPT !.id = id]
<1>1. pc = "idle" /\ entry.id = Null /\ entry \in StateEntry
  BY DEF StartImport, Tracked, IInv, TypeOK
<1>2. d \in ResourceData /\ d.id = id
  BY EmptyType DEF NoData, ResourceData
<1>3. CASE NParents = 0 \/ segments = NParents + 1
  <2>1. Begin("import", d) /\ Call("get", "GET", id, Empty)
    BY <1>3 DEF StartImport
  <2>2. DataMatches'
    BY <1>1, <1>2, <2>1 DEF DataMatches, Begin, Call
  <2>3. MethodOf["get"] = "GET"
    BY DEF MethodOf
  <2>4. QED
    BY <1>1, <1>2, <2>1, <2>2, <2>3, BeginStep DEF Points
<1>4. CASE ~(NParents = 0 \/ segments = NParents + 1)
  <2>1. /\ op' = "import" /\ result' = "failed" /\ drift' = FALSE
        /\ UNCHANGED <<config, entry, data, pc, owned, remote, net, budget>>
    BY <1>4 DEF StartImport, apiVars
  <2>2. /\ config' \in Config \cup {Null} /\ budget' \in 0..Budget
        /\ entry' \in StateEntry
    BY <1>1, <2>1 DEF IInv, TypeOK, ApiTypeOK
  <2>3. QED
    BY <1>1, <2>1, <2>2, IdleStep DEF Outcomes
<1>5. QED
  BY <1>3, <1>4

LEMMA CrashStep ==
    ASSUME IInv, Crash
    PROVE  IInv'
<1>1. /\ pc # "idle" /\ Return("crashed") /\ entry' = entry
      /\ owned' = IF op = "create" THEN owned \ {data.id} ELSE owned
  BY DEF Crash
<1>2. budget' \in 0..Budget
  BY BudgetAssumption DEF Crash, Spend, IInv, TypeOK, ApiTypeOK
<1>3. owned' \subseteq Ids /\ entry' \in StateEntry
  BY <1>1 DEF IInv, TypeOK
<1>4. entry'.id # Null => remote[entry'.id].life # "unused"
  BY <1>1 DEF IInv, HeldIdsExist, Tracked
<1>5. DeletesAreWatched => \A id \in owned' :
          remote[id].life = "gone" \/ id = entry'.id
  BY <1>1 DEF IInv, NothingDropped
<1>6. QED
  BY <1>1, <1>2, <1>3, <1>4, <1>5, ReturnStep DEF Outcomes

-----------------------------------------------------------------------------
(* ... and one per step of the API and of its other clients.               *)

\* What a step of the API may do to the objects: it creates one, or changes
\* or removes one without touching its immutable properties.
Evolves(id, o) ==
    /\ remote' = [remote EXCEPT ![id] = o]
    /\ \/ remote[id].life = "unused" /\ o.life = "live"
       \/ /\ remote[id].life = "live"
          /\ o.life \in {"live", "gone"}
          /\ \A p \in Immutable : o.vals[p] = remote[id].vals[p]

LEMMA EvolvesFacts ==
    ASSUME remote \in [Ids -> Object], NEW id \in Ids, NEW o \in Object,
           Evolves(id, o)
    PROVE  /\ remote' \in [Ids -> Object]
           /\ \A i \in Ids : remote[i].life # "unused" => remote'[i].life # "unused"
           /\ \A i \in Ids : remote[i].life = "gone" => remote'[i].life = "gone"
           /\ \A i \in Ids, p \in Immutable :
                remote[i].life # "unused" => remote'[i].vals[p] = remote[i].vals[p]
<1>1. remote' = [remote EXCEPT ![id] = o]
  BY DEF Evolves
<1>2. remote' \in [Ids -> Object]
  BY <1>1
<1>3. ASSUME NEW i \in Ids
      PROVE  remote'[i] = IF i = id THEN o ELSE remote[i]
  BY <1>1
<1>4. QED
  BY <1>2, <1>3 DEF Evolves, Object

\* A step that leaves the objects as they are.
Still == remote' = remote

LEMMA WorldFacts ==
    ASSUME remote \in [Ids -> Object],
           Still \/ \E id \in Ids, o \in Object : Evolves(id, o)
    PROVE  /\ remote' \in [Ids -> Object]
           /\ \A i \in Ids : remote[i].life # "unused" => remote'[i].life # "unused"
           /\ \A i \in Ids : remote[i].life = "gone" => remote'[i].life = "gone"
           /\ \A i \in Ids, p \in Immutable :
                remote[i].life # "unused" => remote'[i].vals[p] = remote[i].vals[p]
<1>1. CASE Still
  BY <1>1 DEF Still
<1>2. CASE \E id \in Ids, o \in Object : Evolves(id, o)
  BY <1>2, EvolvesFacts
<1>3. QED
  BY <1>1, <1>2

\* An answer replaces the request in flight.
Answers ==
    /\ net.kind # "none"
    /\ net'.kind = "resp"
    /\ net'.method = net.method
    /\ net.method # "POST" => net'.id = net.id

LEMMA ServeStep ==
    ASSUME IInv, UNCHANGED tfVars, Answers,
           Still \/ \E id \in Ids, o \in Object : Evolves(id, o),
           net' \in Message, budget' \in 0..Budget, AnswerHolds'
    PROVE  IInv'
<1> USE DEF IInv, tfVars
<1>1. /\ remote' \in [Ids -> Object]
      /\ \A i \in Ids : remote[i].life # "unused" => remote'[i].life # "unused"
      /\ \A i \in Ids : remote[i].life = "gone" => remote'[i].life = "gone"
  BY WorldFacts DEF TypeOK, ApiTypeOK
<1>2. TypeOK'
  BY <1>1 DEF TypeOK, ApiTypeOK
<1>3. CallMatches'
  BY DEF CallMatches, Answers, Quiet, TypeOK, Points, MethodOf
<1>4. DataMatches'
  BY DEF DataMatches
<1>5. HeldIdsExist'
  BY <1>1 DEF HeldIdsExist, Tracked, TypeOK, StateEntry, DataMatches
<1>6. PutKeepsImmutable'
  BY DEF PutKeepsImmutable, Asked, Answers
<1>7. NothingDropped'
  BY <1>1 DEF NothingDropped, DeletesAreWatched, TypeOK
<1>8. QED
  BY <1>2, <1>3, <1>4, <1>5, <1>6, <1>7

\* A change made behind the handler's back does not falsify the answer in
\* flight: nothing comes back to life, and immutable properties stay.
LEMMA BackgroundStep ==
    ASSUME IInv, UNCHANGED <<config, entry, data, op, pc, result, owned, net>>,
           NEW id \in Ids, NEW o \in Object, Evolves(id, o),
           remote[id].life = "live",
           budget' \in 0..Budget, drift' \in BOOLEAN
    PROVE  IInv'
<1> USE DEF IInv
<1>1. /\ remote' \in [Ids -> Object]
      /\ \A i \in Ids : remote[i].life # "unused" => remote'[i].life # "unused"
      /\ \A i \in Ids : remote[i].life = "gone" => remote'[i].life = "gone"
      /\ \A i \in Ids, p \in Immutable :
           remote[i].life # "unused" => remote'[i].vals[p] = remote[i].vals[p]
  BY EvolvesFacts DEF TypeOK, ApiTypeOK
<1>2. \A i \in Ids : ~Live(i) => ~Live(i)'
  BY DEF Live, Evolves, TypeOK, ApiTypeOK
<1>3. TypeOK'
  BY <1>1 DEF TypeOK, ApiTypeOK
<1>4. CallMatches'
  BY DEF CallMatches
<1>5. DataMatches'
  BY DEF DataMatches
<1>6. HeldIdsExist'
  BY <1>1 DEF HeldIdsExist, Tracked, TypeOK, StateEntry, DataMatches
<1>7. net.kind # "none" /\ net.method # "POST" => net.id \in Ids
  BY DEF CallMatches, DataMatches, MethodOf, TypeOK, Points, Quiet
<1>8. AnswerHolds'
  <2>1. net.kind = "resp" /\ net.method = "POST" /\ net.id # Null
          => net.id \in Ids
    BY DEF TypeOK, ApiTypeOK, Message
  <2>2. net.kind = "resp" /\ net.method = "POST" /\ net.code \in {200, 201, 202}
           /\ net.id # Null => remote'[net.id].life # "unused"
    BY <1>1, <2>1 DEF AnswerHolds
  <2>3. net.kind = "resp" /\ net.method # "POST" /\ net.code = 404
           => ~Live(net.id)'
    BY <1>2, <1>7 DEF AnswerHolds
  <2>4. net.kind = "resp" /\ net.method = "GET" /\ net.code = 200
           => /\ remote'[net.id].life # "unused"
              /\ \A p \in Immutable : net.vals[p] = remote'[net.id].vals[p]
    BY <1>1, <1>7 DEF AnswerHolds
  <2>5. net.kind = "resp" /\ net.method = "DELETE" /\ net.code \in {200, 204}
           => ~Live(net.id)'
    BY <1>2, <1>7 DEF AnswerHolds
  <2>6. QED
    BY <2>2, <2>3, <2>4, <2>5 DEF AnswerHolds, Live
<1>9. PutKeepsImmutable'
  <2>1. Asked("PUT") => net.id \in Ids /\ remote[net.id].life # "unused"
    BY <1>7, NullAssumption DEF Asked, CallMatches, DataMatches, MethodOf,
       HeldIdsExist, Tracked, TypeOK, Points, Quiet
  <2>2. QED
    BY <1>1, <2>1 DEF PutKeepsImmutable, Asked
<1>10. NothingDropped'
  BY <1>1 DEF NothingDropped, DeletesAreWatched, TypeOK
<1>11. QED
  BY <1>3, <1>4, <1>5, <1>6, <1>8, <1>9, <1>10

LEMMA NetFacts ==
    ASSUME IInv
    PROVE  /\ net \in Message /\ remote \in [Ids -> Object]
           /\ budget \in 0..Budget
           /\ net.kind # "none" => net.method \in Methods
           /\ net.kind # "none" /\ net.method # "POST"
                => net.id \in Ids
           /\ Asked("PUT") => remote[net.id].life # "unused"
  BY NullAssumption DEF IInv, TypeOK, ApiTypeOK, CallMatches, DataMatches,
     MethodOf, Methods, Points, Quiet, Asked, HeldIdsExist, Tracked

LEMMA SpendType ==
    ASSUME budget \in 0..Budget, NEW f, Spend(f)
    PROVE  budget' \in 0..Budget
  BY BudgetAssumption DEF Spend

\* What every request the API serves does.
Served ==
    /\ Still \/ \E id \in Ids, o \in Object : Evolves(id, o)
    /\ Answers
    /\ net' \in Message
    /\ budget' \in 0..Budget
    /\ AnswerHolds'

LEMMA BareFacts ==
    ASSUME IInv, net.kind # "none", NEW c \in Codes, net' = Bare(c)
    PROVE  /\ Answers /\ net' \in Message
           /\ net'.kind = "resp" /\ net'.method = net.method
           /\ net'.id = net.id /\ net'.code = c
<1>1. net' = Response(c, net.id, Empty, Null, TRUE)
  BY DEF Bare
<1>2. net.id \in Ids \cup {Null} /\ net \in Message
  BY NetFacts DEF Message
<1>3. net' \in Message
  BY <1>1, <1>2, EmptyType, ResponseType
<1>4. QED
  BY <1>1, <1>3 DEF Answers, Response

LEMMA PostServed ==
    ASSUME IInv, ApiPost
    PROVE  Served
<1>1. net.kind = "req" /\ net.method = "POST" /\ net \in Message
      /\ remote \in [Ids -> Object] /\ budget \in 0..Budget
  BY NetFacts DEF ApiPost, Asked
<1>2. PICK id \in Ids, code \in {200, 201, 202, 203} :
          \E s \in StatusAfter(code) : Creates(id, code, s)
  BY DEF ApiPost
<1>3. PICK s \in StatusAfter(code) : Creates(id, code, s)
  BY <1>2
<1> DEFINE o == Written(net.vals, code, s)
<1>4. s \in Statuses /\ code \in Codes /\ net.vals \in Payload
  BY <1>1 DEF StatusAfter, Statuses, Codes, Message
<1>5. o \in Object /\ o.life = "live"
  BY <1>4, WrittenType
<1> HIDE DEF o
<1>6. Evolves(id, o)
  BY <1>3, <1>5 DEF Evolves, Creates, o
<1>7. budget' \in 0..Budget
  <2>1. \/ budget' = budget
        \/ Spend("noid") \/ Spend("garble") \/ Spend("oddcode")
    BY <1>3 DEF Creates
  <2>2. CASE budget' = budget
    BY <1>1, <2>2
  <2>3. CASE Spend("noid") \/ Spend("garble") \/ Spend("oddcode")
    BY <1>1, <2>3, BudgetAssumption DEF Spend
  <2>4. QED
    BY <2>1, <2>2, <2>3
<1>8. \E i \in {id, Null}, v \in Payload, z \in Statuses \cup {Null}, b \in BOOLEAN :
          net' = Response(code, i, v, z, b)
  <2>1. o.vals \in Payload /\ o.status \in Statuses \cup {Null}
    BY <1>5 DEF Object
  <2>2. \/ net' = Response(code, id, o.vals, o.status, TRUE)
        \/ net' = Response(code, id, Empty, Null, TRUE)
        \/ net' = Response(code, Null, o.vals, o.status, TRUE)
        \/ net' = Response(code, id, o.vals, o.status, FALSE)
    BY <1>3 DEF Creates, Body, Garbled, o
  <2>3. \A i \in {id, Null}, v \in Payload, z \in Statuses \cup {Null},
           b \in BOOLEAN :
           net' = Response(code, i, v, z, b) =>
              \E i1 \in {id, Null}, v1 \in Payload,
                 z1 \in Statuses \cup {Null}, b1 \in BOOLEAN :
                 net' = Response(code, i1, v1, z1, b1)
    OBVIOUS
  <2>4. id \in {id, Null} /\ Null \in {id, Null} /\ Empty \in Payload
        /\ Null \in Statuses \cup {Null} /\ TRUE \in BOOLEAN /\ FALSE \in BOOLEAN
    BY EmptyType
  <2>5. QED
    BY <2>1, <2>2, <2>3, <2>4
<1>9. PICK i \in {id, Null}, v \in Payload, z \in Statuses \cup {Null}, b \in BOOLEAN :
          net' = Response(code, i, v, z, b)
  BY <1>8
<1>10. net' \in Message
  <2>1. Response(code, i, v, z, b) \in Message
    BY <1>1, <1>4, ResponseType
  <2>2. QED
    BY <1>9, <2>1
<1>11. net'.kind = "resp" /\ net'.method = "POST" /\ net'.id \in {id, Null}
  BY <1>1, <1>9 DEF Response
<1>12. remote'[id].life # "unused"
  BY <1>1, <1>5, <1>6 DEF Evolves
<1>13. AnswerHolds'
  BY <1>11, <1>12 DEF AnswerHolds
<1>14. QED
  BY <1>1, <1>5, <1>6, <1>7, <1>10, <1>11, <1>13 DEF Served, Answers

LEMMA PostFullServed ==
    ASSUME IInv, ApiPostFull
    PROVE  Served
<1>1. net.kind # "none" /\ 500 \in Codes /\ net' = Bare(500)
      /\ budget' \in 0..Budget /\ Still
  BY NetFacts DEF ApiPostFull, Asked, Codes, Still
<1>2. QED
  BY <1>1, BareFacts DEF Served, AnswerHolds

LEMMA GetServed ==
    ASSUME IInv, ApiGet
    PROVE  Served
<1>1. net.kind = "req" /\ net.method = "GET" /\ net \in Message
      /\ remote \in [Ids -> Object] /\ budget \in 0..Budget
      /\ net.id \in Ids /\ remote' = remote /\ Still
  BY NetFacts DEF ApiGet, Asked, Still
<1>2. budget' \in 0..Budget
  BY <1>1, SpendType DEF ApiGet
<1>3. CASE ~Live(net.id)
  <2>1. net' = Bare(404) /\ 404 \in Codes
    BY <1>3 DEF ApiGet, Codes
  <2>2. QED
    BY <1>1, <1>2, <1>3, <2>1, BareFacts DEF Served, AnswerHolds, Live
<1>4. CASE Live(net.id)
  <2> DEFINE r == remote[net.id]
  <2>1. r.vals \in Payload /\ r.status \in Statuses \cup {Null} /\ 200 \in Codes
    BY <1>1 DEF Object, Codes
  <2>2. PICK b \in BOOLEAN : net' = Response(200, net.id, r.vals, r.status, b)
    BY <1>4 DEF ApiGet, Body, Garbled
  <2>3. net' \in Message
    <3>1. Response(200, net.id, r.vals, r.status, b) \in Message
      BY <1>1, <2>1, ResponseType
    <3>2. QED
      BY <2>2, <3>1
  <2>4. /\ net'.kind = "resp" /\ net'.method = "GET" /\ net'.id = net.id
        /\ net'.code = 200 /\ net'.vals = r.vals
    BY <1>1, <2>2 DEF Response
  <2>5. QED
    BY <1>1, <1>2, <1>4, <2>3, <2>4 DEF Served, Answers, AnswerHolds, Live
<1>5. QED
  BY <1>3, <1>4

LEMMA PutServed ==
    ASSUME IInv, ApiPut
    PROVE  Served
<1>1. net.kind = "req" /\ net.method = "PUT" /\ net \in Message
      /\ remote \in [Ids -> Object] /\ budget \in 0..Budget
      /\ net.id \in Ids /\ Asked("PUT")
  BY NetFacts DEF ApiPut, Asked
<1>2. CASE ~Live(net.id)
  <2>1. net' = Bare(404) /\ 404 \in Codes /\ Still /\ budget' \in 0..Budget
    BY <1>1, <1>2 DEF ApiPut, Codes, Still
  <2>2. QED
    BY <1>1, <1>2, <2>1, BareFacts DEF Served, AnswerHolds, Still, Live
<1>3. CASE Live(net.id)
  <2> DEFINE m == Merge(remote[net.id].vals, net.vals)
  <2>1. PICK code \in {200, 202, 203} : \E s \in StatusAfter(code) :
          LET o == Written(m, code, s) IN
            /\ remote' = [remote EXCEPT ![net.id] = o]
            /\ net' \in {Body(code, net.id, o), Bare(code)}
            /\ IF code = 203 THEN Spend("oddcode") ELSE UNCHANGED budget
    BY <1>3 DEF ApiPut
  <2>2. PICK s \in StatusAfter(code) :
          LET o == Written(m, code, s) IN
            /\ remote' = [remote EXCEPT ![net.id] = o]
            /\ net' \in {Body(code, net.id, o), Bare(code)}
            /\ IF code = 203 THEN Spend("oddcode") ELSE UNCHANGED budget
    BY <2>1
  <2> DEFINE o == Written(m, code, s)
  <2>3. m \in Payload
    BY <1>1, MergeType DEF Object, Message
  <2>4. s \in Statuses /\ code \in Codes
    BY DEF StatusAfter, Statuses, Codes
  <2>5. o \in Object /\ o.life = "live" /\ o.vals = m
    BY <2>3, <2>4, WrittenType
  <2>6. \A p \in Immutable : m[p] = remote[net.id].vals[p]
    BY <1>1, PropsAssumption DEF Merge, IInv, PutKeepsImmutable
  <2> HIDE DEF o, m
  <2>7. Evolves(net.id, o)
    BY <1>3, <2>2, <2>5, <2>6 DEF Evolves, Live, o
  <2>8. budget' \in 0..Budget
    BY <1>1, <2>2, SpendType
  <2>9. \/ net' = Response(code, net.id, o.vals, o.status, TRUE)
        \/ net' = Response(code, net.id, Empty, Null, TRUE)
    BY <2>2 DEF Body, Bare, o
  <2>10. /\ Response(code, net.id, o.vals, o.status, TRUE) \in Message
         /\ Response(code, net.id, Empty, Null, TRUE) \in Message
    <3>1. o.vals \in Payload /\ o.status \in Statuses \cup {Null}
      BY <2>5 DEF Object
    <3>2. QED
      BY <1>1, <2>4, <3>1, EmptyType, ResponseType
  <2>11. /\ net' \in Message /\ net'.kind = "resp" /\ net'.method = "PUT"
         /\ net'.id = net.id /\ net'.code = code
    <3>1. CASE net' = Response(code, net.id, o.vals, o.status, TRUE)
      BY <1>1, <2>10, <3>1 DEF Response
    <3>2. CASE net' = Response(code, net.id, Empty, Null, TRUE)
      BY <1>1, <2>10, <3>2 DEF Response
    <3>3. QED
      BY <2>9, <3>1, <3>2
  <2>12. QED
    BY <1>1, <2>5, <2>7, <2>8, <2>11 DEF Served, Answers, AnswerHolds
<1>4. QED
  BY <1>2, <1>3

LEMMA DeleteServed ==
    ASSUME IInv, ApiDelete
    PROVE  Served
<1>1. net.kind = "req" /\ net.method = "DELETE" /\ net \in Message
      /\ remote \in [Ids -> Object] /\ budget \in 0..Budget
      /\ net.id \in Ids
  BY NetFacts DEF ApiDelete, Asked
<1>2. CASE ~Live(net.id)
  <2>1. net' = Bare(404) /\ 404 \in Codes /\ Still /\ budget' \in 0..Budget
    BY <1>1, <1>2 DEF ApiDelete, Codes, Still
  <2>2. QED
    BY <1>1, <1>2, <2>1, BareFacts DEF Served, AnswerHolds, Still, Live
<1>3. CASE Live(net.id) /\ \E s \in Removing :
              /\ remote' = [remote EXCEPT
                              ![net.id] = Reported(remote[net.id], s, "delete")]
              /\ net' = Bare(202)
              /\ UNCHANGED budget
  <2>1. PICK s \in Removing :
              /\ remote' = [remote EXCEPT
                              ![net.id] = Reported(remote[net.id], s, "delete")]
              /\ net' = Bare(202)
              /\ UNCHANGED budget
    BY <1>3
  <2> DEFINE o == Reported(remote[net.id], s, "delete")
  <2>2. o \in Object /\ remote' = [remote EXCEPT ![net.id] = o]
    BY <1>1, <2>1 DEF Object, Statuses, Reported
  <2>3. Evolves(net.id, o)
    BY <1>3, <2>2 DEF Evolves, Live, Reported
  <2>4. budget' \in 0..Budget /\ 202 \in Codes
    BY <1>1, <2>1 DEF Codes
  <2>5. AnswerHolds' /\ Answers /\ net' \in Message
    BY <1>1, <2>1, <2>4, BareFacts DEF AnswerHolds
  <2>6. QED
    BY <1>1, <2>2, <2>3, <2>4, <2>5 DEF Served
<1>4. CASE /\ Live(net.id)
           /\ remote' = [remote EXCEPT ![net.id] = Gone(remote[net.id])]
           /\ \/ /\ \E code \in {200, 204} : net' = Bare(code)
                 /\ UNCHANGED budget
              \/ /\ Spend("oddcode")
                 /\ net' = Bare(203)
  <2> DEFINE o == Gone(remote[net.id])
  <2>1. o \in Object /\ remote' = [remote EXCEPT ![net.id] = o]
    BY <1>1, <1>4 DEF Object, Gone
  <2>2. Evolves(net.id, o)
    BY <1>4, <2>1 DEF Evolves, Live, Gone
  <2>3. budget' \in 0..Budget
    BY <1>1, <1>4, SpendType
  <2>4. PICK c \in {200, 203, 204} : net' = Bare(c)
    BY <1>4
  <2>5. c \in Codes /\ ~Live(net.id)'
    <3>1. remote'[net.id].life = "gone"
      BY <1>1, <2>1 DEF Gone
    <3>2. net'.id = net.id
      BY <1>1, <2>4, BareFacts DEF Codes
    <3>3. QED
      BY <3>1, <3>2 DEF Codes, Live
  <2>6. AnswerHolds' /\ Answers /\ net' \in Message
    BY <1>1, <2>4, <2>5, BareFacts DEF AnswerHolds
  <2>7. QED
    BY <1>1, <2>1, <2>2, <2>3, <2>6 DEF Served
<1>5. QED
  BY <1>2, <1>3, <1>4 DEF ApiDelete

LEMMA RejectServed ==
    ASSUME IInv, ApiReject
    PROVE  Served
<1>1. net.kind # "none" /\ 500 \in Codes /\ net' = Bare(500) /\ Still
      /\ budget \in 0..Budget /\ Spend("reject")
  BY NetFacts DEF ApiReject, Codes, Still
<1>2. budget' \in 0..Budget
  BY <1>1, SpendType
<1>3. QED
  BY <1>1, <1>2, BareFacts DEF Served, AnswerHolds

LEMMA NetworkServed ==
    ASSUME IInv, NetworkFails
    PROVE  Served
<1>1. net.kind # "none" /\ 0 \in Codes /\ net' = Bare(0) /\ Still
      /\ budget \in 0..Budget /\ Spend("drop")
  BY NetFacts DEF NetworkFails, Codes, Still
<1>2. budget' \in 0..Budget
  BY <1>1, SpendType
<1>3. QED
  BY <1>1, <1>2, BareFacts DEF Served, AnswerHolds

LEMMA JobEvolves ==
    ASSUME IInv, NEW id \in Ids, ApiJobEnds(id)
    PROVE  /\ \E o \in Object : Evolves(id, o)
           /\ remote[id].life = "live"
           /\ budget' \in 0..Budget
           /\ net' = net
<1>1. net' = net /\ remote[id].life = "live"
      /\ remote \in [Ids -> Object] /\ budget \in 0..Budget
  BY NetFacts DEF ApiJobEnds, Live
<1>2. budget' \in 0..Budget
  BY <1>1, SpendType DEF ApiJobEnds
<1>3. CASE \E s \in Ready \cup Broken :
             remote' = [remote EXCEPT ![id] = Reported(remote[id], s, "none")]
  <2>1. PICK s \in Ready \cup Broken :
             remote' = [remote EXCEPT ![id] = Reported(remote[id], s, "none")]
    BY <1>3
  <2> DEFINE o == Reported(remote[id], s, "none")
  <2>2. o \in Object /\ Evolves(id, o)
    BY <1>1, <2>1 DEF Object, Statuses, Reported, Evolves
  <2>3. QED
    BY <1>1, <1>2, <2>2
<1>4. CASE remote' = [remote EXCEPT ![id] = Gone(remote[id])]
  <2>1. Gone(remote[id]) \in Object /\ Evolves(id, Gone(remote[id]))
    BY <1>1, <1>4 DEF Object, Gone, Evolves
  <2>2. QED
    BY <1>1, <1>2, <2>1
<1>5. QED
  BY <1>3, <1>4 DEF ApiJobEnds

LEMMA EditEvolves ==
    ASSUME IInv, NEW id \in Ids, SomebodyEdits(id)
    PROVE  /\ \E o \in Object : Evolves(id, o)
           /\ remote[id].life = "live"
           /\ budget' \in 0..Budget
           /\ net' = net
<1>1. net' = net /\ remote[id].life = "live" /\ Spend("edit")
      /\ remote \in [Ids -> Object] /\ budget \in 0..Budget
  BY NetFacts DEF SomebodyEdits, Live
<1>2. PICK p \in Props \ Immutable, v \in Vals :
          remote' = [remote EXCEPT ![id] = Edited(remote[id], p, v)]
  BY DEF SomebodyEdits
<1> DEFINE o == Edited(remote[id], p, v)
<1>3. o \in Object
  BY <1>1 DEF Object, Payload, Edited
<1>4. remote' = [remote EXCEPT ![id] = o]
  BY <1>2
<1>5. \A q \in Immutable : o.vals[q] = remote[id].vals[q]
  BY <1>1, PropsAssumption DEF Object, Payload, Edited
<1>6. Evolves(id, o)
  BY <1>1, <1>4, <1>5 DEF Evolves, Edited
<1>7. QED
  BY <1>1, <1>3, <1>6, SpendType

LEMMA RemoveEvolves ==
    ASSUME IInv, NEW id \in Ids, SomebodyRemoves(id)
    PROVE  /\ \E o \in Object : Evolves(id, o)
           /\ remote[id].life = "live"
           /\ budget' \in 0..Budget
           /\ net' = net
<1>1. net' = net /\ remote[id].life = "live" /\ Spend("remove")
      /\ remote \in [Ids -> Object] /\ budget \in 0..Budget
      /\ remote' = [remote EXCEPT ![id] = Gone(remote[id])]
  BY NetFacts DEF SomebodyRemoves, Live
<1> DEFINE o == Gone(remote[id])
<1>2. o \in Object
  BY <1>1 DEF Object, Gone
<1>3. Evolves(id, o)
  BY <1>1, <1>2 DEF Evolves, Gone
<1>4. QED
  BY <1>1, <1>2, <1>3, SpendType

LEMMA ApiStep ==
    ASSUME IInv, Api
    PROVE  IInv'
<1>1. CASE ApiServes \/ ApiReject \/ NetworkFails
  <2>1. Served
    BY <1>1, PostServed, PostFullServed, GetServed, PutServed, DeleteServed,
       RejectServed, NetworkServed DEF ApiServes
  <2>2. QED
    BY <2>1, ServeStep DEF Served, Api
<1>2. ASSUME NEW id \in Ids, ApiJobEnds(id)
      PROVE  IInv'
  <2>1. PICK o \in Object : Evolves(id, o)
    BY <1>2, JobEvolves
  <2>2. UNCHANGED <<config, entry, data, op, pc, result, owned, net>>
        /\ remote[id].life = "live" /\ budget' \in 0..Budget
        /\ drift' \in BOOLEAN
    BY <1>2, JobEvolves DEF Api, tfVars, IInv, TypeOK
  <2>3. QED
    BY <2>1, <2>2, BackgroundStep
<1>3. QED
  BY <1>1, <1>2 DEF Api, ApiNext

LEMMA OthersStep ==
    ASSUME IInv, Others
    PROVE  IInv'
<1>1. PICK id \in Ids : SomebodyEdits(id) \/ SomebodyRemoves(id)
  BY DEF Others, SomebodyElse
<1>2. /\ \E o \in Object : Evolves(id, o)
      /\ remote[id].life = "live" /\ budget' \in 0..Budget /\ net' = net
  BY <1>1, EditEvolves, RemoveEvolves
<1>3. PICK o \in Object : Evolves(id, o)
  BY <1>2
<1>4. QED
  BY <1>2, <1>3, BackgroundStep DEF Others

LEMMA HandlerStep ==
    ASSUME IInv, Handler
    PROVE  IInv'
  BY CreateStep, ReadStep, CheckStep, UpdateStep, DeleteStep, PollRefreshStep,
     PollAnswerStep, PollTimeoutStep DEF Handler

LEMMA TerraformStep ==
    ASSUME IInv, Terraform
    PROVE  IInv'
<1>1. ASSUME NEW id \in Ids, NEW segments \in 1..(NParents + 2),
             StartImport(id, segments)
      PROVE  IInv'
  BY <1>1, ImportStarts
<1>2. QED
  BY <1>1, ConfigureStep, ReadStarts, CreateStarts, UpdateStarts,
     DeleteStarts, CrashStep DEF Terraform

-----------------------------------------------------------------------------
(* The theorems.                                                           *)

LEMMA Initially == Init => IInv
<1> SUFFICES ASSUME Init PROVE IInv
  OBVIOUS
<1> USE DEF Init, ApiInit
<1>1. TypeOK
  <2>1. NoObject \in Object
    BY EmptyType DEF Object, NoObject
  <2>2. ApiTypeOK
    BY <2>1, QuietType, BudgetAssumption DEF ApiTypeOK
  <2>3. QED
    BY <2>2, NoDataType DEF TypeOK, Points
<1>2. CallMatches /\ DataMatches
  BY DEF CallMatches, DataMatches
<1>3. HeldIdsExist
  BY NoDataType DEF HeldIdsExist, Tracked
<1>4. AnswerHolds /\ PutKeepsImmutable
  BY DEF AnswerHolds, PutKeepsImmutable, Asked, Quiet
<1>5. NothingDropped
  BY DEF NothingDropped
<1>6. QED
  BY <1>1, <1>2, <1>3, <1>4, <1>5 DEF IInv

LEMMA Inductive == IInv /\ [Next]_vars => IInv'
<1> SUFFICES ASSUME IInv, [Next]_vars PROVE IInv'
  OBVIOUS
<1>1. CASE UNCHANGED vars
  <2>1. UNCHANGED <<remote, net, budget, config, entry, data, op, pc, result,
                    owned, drift>>
    BY <1>1 DEF vars, apiVars, tfVars
  <2>2. TypeOK' /\ CallMatches' /\ DataMatches' /\ HeldIdsExist'
    BY <2>1 DEF IInv, TypeOK, ApiTypeOK, CallMatches, DataMatches,
                HeldIdsExist, Tracked
  <2>3. AnswerHolds' /\ PutKeepsImmutable' /\ NothingDropped'
    BY <2>1 DEF IInv, AnswerHolds, Live, PutKeepsImmutable, Asked,
                NothingDropped
  <2>4. QED
    BY <2>2, <2>3 DEF IInv
<1>2. CASE Next
  BY <1>2, HandlerStep, TerraformStep, ApiStep, OthersStep DEF Next
<1>3. QED
  BY <1>1, <1>2

\* The invariant holds in every reachable state: the message in flight and
\* the ResourceData belong to the operation under way, what an answer says of
\* an object still holds when resource_factory.go reads it, and every
\* identifier the API gave out is accounted for.
THEOREM Invariance == Spec => []IInv
  BY Initially, Inductive, PTL DEF Spec

\* Every variable keeps its type.
THEOREM TypeCorrect == Spec => []TypeOK
<1>1. IInv => TypeOK
  BY DEF IInv
<1>2. QED
  BY <1>1, Invariance, PTL

\* No object whose identifier the API told Terraform of is lost, whatever
\* fails and wherever the provider dies, as long as deletes are watched.
THEOREM NothingLeaks == Spec => []NoLeak
<1>1. IInv => NoLeak
  BY DEF IInv, NothingDropped, NoLeak
<1>2. QED
  BY <1>1, Invariance, PTL

\* No step changes an immutable property of an object that is not removed.
LEMMA ImmutableStep ==
    ASSUME IInv, Next
    PROVE  \A id \in Ids, p \in Immutable :
              remote[id].life = "live"
                 => remote'[id].vals[p] = remote[id].vals[p]
<1>1. remote \in [Ids -> Object]
  BY NetFacts
<1>2. Still \/ \E id \in Ids, o \in Object : Evolves(id, o)
  <2>1. CASE Handler
    BY <2>1 DEF Handler, CreateAnswered, ReadAnswered, CheckAnswered,
       UpdateAnswered, DeleteAnswered, PollRefreshes, PollAnswered,
       PollTimesOut, Fail, Return, Poll, SaveAndReturn, Still
  <2>2. CASE Terraform
    BY <2>2 DEF Terraform, Configure, StartRead, StartCreate, StartUpdate,
       StartDelete, StartImport, Crash, Begin, Return, apiVars, Still
  <2>3. CASE Api
    BY <2>3, PostServed, PostFullServed, GetServed, PutServed, DeleteServed,
       RejectServed, NetworkServed, JobEvolves
       DEF Api, ApiNext, ApiServes, Served
  <2>4. CASE Others
    BY <2>4, EditEvolves, RemoveEvolves DEF Others, SomebodyElse
  <2>5. QED
    BY <2>1, <2>2, <2>3, <2>4 DEF Next
<1>3. QED
  BY <1>1, <1>2, WorldFacts

\* The provider never changes an immutable property: the PUT that follows
\* checkImmutableFields carries the values the object has.
THEOREM ImmutableNeverWritten == Spec => ImmutableKept
<1>1. IInv /\ [Next]_vars =>
        [\A id \in Ids, p \in Immutable :
            remote[id].life = "live"
               => remote'[id].vals[p] = remote[id].vals[p]]_remote
  BY ImmutableStep DEF vars, apiVars
<1>2. QED
  BY <1>1, Invariance, PTL DEF Spec, ImmutableKept

-----------------------------------------------------------------------------
(* ResourceCrud implements ResourceHandle.                                 *)

\* What a step may do to the identifier in the state file.
Holds == entry'.id = entry.id
Adopts == entry.id = Null /\ entry'.id \in Ids
Releases ==
    /\ entry.id # Null
    /\ entry'.id = Null
    /\ remote[entry.id].life = "gone"

LEMMA FailHolds ==
    ASSUME IInv, pc # "idle", KeepAfterError
    PROVE  Holds \/ Adopts
<1>1. entry'.id = IF op = "create" THEN data.id ELSE entry.id
  BY KeptEntry
<1>2. op = "create" => entry.id = Null
  BY DEF IInv, DataMatches
<1>3. data.id \in Ids \cup {Null}
  BY DEF IInv, TypeOK, ResourceData
<1>4. QED
  BY <1>1, <1>2, <1>3 DEF Holds, Adopts

LEMMA SaveHolds ==
    ASSUME IInv, NEW d \in ResourceData, NEW t \in BOOLEAN,
           \E e \in SavedBy(d) : entry' = EntryOf(e, t)
    PROVE  entry'.id = d.id
<1>1. PICK e \in SavedBy(d) : entry' = EntryOf(e, t)
  OBVIOUS
<1>2. e \in ResourceData /\ e.id = d.id
  BY NetFacts, SavedByType
<1>3. QED
  BY <1>1, <1>2, EntryOfType

\* delete lets go of the identifier only when the object is gone.
LEMMA DeleteReleases ==
    ASSUME IInv, DeletesAreWatched, DeleteAnswered
    PROVE  Holds \/ Releases
<1>1. /\ pc = "delete" /\ net.kind = "resp" /\ net.method = "DELETE"
      /\ op = "delete" /\ data.id \in Ids /\ data.id = entry.id
      /\ net.id = data.id
  BY DEF DeleteAnswered, Waiting, IInv, CallMatches, DataMatches, MethodOf
<1>2. remote[data.id].life # "unused" /\ entry.id # Null
  BY <1>1, NullAssumption DEF IInv, HeldIdsExist, Tracked
<1>3. CASE Fail("failed")
  BY <1>1, <1>3 DEF Fail, KeepAfterError, Holds
<1>4. CASE Poll(data)
  BY <1>4 DEF Poll, Holds
<1>5. CASE /\ ~(~Accepted /\ net.code # 404)
           /\ ~(Accepted /\ PollingConfigured)
           /\ entry' = NoEntry
  <2>1. net.code \in {200, 204, 404}
    BY <1>1, <1>5 DEF Accepted, Expected, DeletesAreWatched, PollingConfigured
  <2>2. ~Live(data.id)
    BY <1>1, <2>1 DEF IInv, AnswerHolds
  <2>3. remote[data.id].life = "gone"
    BY <1>1, <1>2, <2>2, NetFacts DEF Live, Object
  <2>4. QED
    BY <1>1, <1>2, <1>5, <2>3, NoDataType DEF Releases
<1>6. QED
  BY <1>3, <1>4, <1>5 DEF DeleteAnswered

LEMMA PollReleases ==
    ASSUME IInv, DeletesAreWatched, PollAnswered
    PROVE  Holds \/ Adopts \/ Releases
<1>1. /\ pc = "refresh" /\ net.kind = "resp" /\ net.method = "GET"
      /\ op \in {"create", "update", "delete"} /\ data.id \in Ids
      /\ net.id = data.id /\ remote[data.id].life # "unused"
      /\ data \in ResourceData
      /\ IF op = "create" THEN entry.id = Null ELSE data.id = entry.id
  BY DEF PollAnswered, Waiting, IInv, CallMatches, DataMatches, MethodOf,
         HeldIdsExist, TypeOK
<1>2. CASE Fail("failed")
  BY <1>1, <1>2, FailHolds DEF Fail
<1>3. CASE Poll(data)
  BY <1>3 DEF Poll, Holds
<1>4. CASE SaveAndReturn(data)
  <2>1. (op = "create" /\ ~net.sound) \in BOOLEAN
    BY NetFacts DEF Message
  <2>2. entry'.id = data.id
    BY <1>1, <1>4, <2>1, SaveHolds DEF SaveAndReturn
  <2>3. QED
    BY <1>1, <2>2 DEF Holds, Adopts
<1>5. CASE /\ RefreshedStatus \in Target /\ op = "delete" /\ Readable
           /\ entry' = NoEntry
  <2>1. net.code = 404
    BY <1>5, NetFacts DEF Target, RefreshedStatus, Readable,
       DeletesAreWatched, Message
  <2>2. remote[data.id].life = "gone"
    BY <1>1, <2>1, NetFacts DEF IInv, AnswerHolds, Live, Object
  <2>3. QED
    BY <1>1, <1>5, <2>2, NoDataType, NullAssumption DEF Releases
<1>6. QED
  BY <1>2, <1>3, <1>4, <1>5 DEF PollAnswered

LEMMA HandleMoves ==
    ASSUME IInv, DeletesAreWatched, Handler \/ Terraform
    PROVE  Holds \/ Adopts \/ Releases
<1>1. data \in ResourceData /\ net \in Message /\ net.sound \in BOOLEAN
      /\ entry \in StateEntry
  BY NetFacts DEF IInv, TypeOK, Message
<1>2. CASE CreateAnswered
  <2>1. entry.id = Null /\ pc # "idle" /\ net.id \in Ids \cup {Null}
    BY <1>1, <1>2 DEF CreateAnswered, Waiting, IInv, DataMatches, Message
  <2>2. CASE Fail("failed")
    BY <2>1, <2>2, FailHolds DEF Fail
  <2> DEFINE d == [data EXCEPT !.id = net.id]
  <2>3. d \in ResourceData /\ d.id = net.id
    BY <1>1, <2>1 DEF ResourceData
  <2>4. CASE Poll(d)
    BY <2>4 DEF Poll, Holds
  <2>5. CASE SaveAndReturn(d)
    <3>1. entry'.id = net.id
      BY <1>1, <2>3, <2>5, SaveHolds DEF SaveAndReturn
    <3>2. QED
      BY <2>1, <3>1 DEF Holds, Adopts
  <2>6. QED
    BY <1>2, <2>2, <2>4, <2>5 DEF CreateAnswered
<1>3. CASE ReadAnswered
  <2>1. data.id \in Ids /\ IF op = "import" THEN entry.id = Null
                                            ELSE data.id = entry.id
    BY <1>3 DEF ReadAnswered, Waiting, IInv, DataMatches
  <2>2. CASE entry' = entry
    BY <2>2 DEF Holds
  <2>3. CASE \E e \in SavedBy(data) : entry' = EntryOf(e, entry.tainted)
    BY <1>1, <2>1, <2>3, SaveHolds DEF StateEntry, Holds, Adopts
  <2>4. QED
    BY <1>3, <2>2, <2>3 DEF ReadAnswered
<1>4. CASE CheckAnswered
  <2>1. data.id = entry.id /\ pc # "idle"
    BY <1>4 DEF CheckAnswered, Waiting, IInv, DataMatches
  <2>2. CASE KeepAfterError
    BY <2>1, <2>2, FailHolds
  <2>3. CASE \E e \in SavedBy(data) : entry' = EntryOf(e, FALSE)
    BY <1>1, <2>1, <2>3, SaveHolds DEF Holds
  <2>4. CASE entry' = entry
    BY <2>4 DEF Holds
  <2>5. QED
    BY <1>4, <2>2, <2>3, <2>4 DEF CheckAnswered
<1>5. CASE UpdateAnswered
  <2>1. data.id = entry.id /\ pc # "idle"
    BY <1>5 DEF UpdateAnswered, Waiting, IInv, DataMatches
  <2>2. CASE Fail("failed")
    BY <2>1, <2>2, FailHolds DEF Fail
  <2>3. CASE Poll(data)
    BY <2>3 DEF Poll, Holds
  <2>4. CASE SaveAndReturn(data)
    BY <1>1, <2>1, <2>4, SaveHolds DEF SaveAndReturn, Holds
  <2>5. QED
    BY <1>5, <2>2, <2>3, <2>4 DEF UpdateAnswered
<1>6. CASE DeleteAnswered
  BY <1>6, DeleteReleases
<1>7. CASE PollRefreshes
  BY <1>7, FailHolds DEF PollRefreshes, Fail, Holds
<1>8. CASE PollAnswered
  BY <1>8, PollReleases
<1>9. CASE PollTimesOut
  BY <1>9, FailHolds DEF PollTimesOut
<1>10. CASE StartUpdate
  <2>1. entry.id # Null /\ config \in Config
    BY <1>10 DEF StartUpdate, MustUpdate, Tracked, IInv, TypeOK
  <2>2. Planned \in ResourceData /\ Planned.id = entry.id
    BY <1>1, <2>1, ConfigType DEF Planned, ResourceData, StateEntry
  <2>3. EntryOf(Planned, FALSE).id = entry.id
    BY <2>2, EntryOfType
  <2>4. QED
    BY <1>10, <2>3 DEF StartUpdate, Begin, Holds
<1>11. CASE Terraform /\ ~StartUpdate
  BY <1>11 DEF Terraform, Configure, StartRead, StartCreate, StartDelete,
     StartImport, Crash, Begin, Holds
<1>12. QED
  BY <1>2, <1>3, <1>4, <1>5, <1>6, <1>7, <1>8, <1>9, <1>10, <1>11 DEF Handler

\* The objects evolve under the same identifier in the state file ...
LEMMA WorldRefines ==
    ASSUME IInv, entry'.id = entry.id, NEW id \in Ids, NEW o \in Object,
           Evolves(id, o)
    PROVE  Handle!Next \/ UNCHANGED Handle!vars
<1>1. ASSUME NEW i \in Ids
      PROVE  remote'[i] = IF i = id THEN o ELSE remote[i]
  BY <1>1, NetFacts DEF Evolves
<1> DEFINE born == {i \in Ids : remote[i].life # "unused"}
           dead == {i \in Ids : remote[i].life = "gone"}
<1>2. CASE remote[id].life = "unused" /\ o.life = "live"
  <2>1. born' = born \cup {id} /\ dead' = dead /\ id \notin born
    BY <1>1, <1>2
  <2>2. Handle!Create(id)
    BY <2>1 DEF Handle!Create
  <2>3. QED
    BY <2>2 DEF Handle!Next
<1>3. CASE remote[id].life = "live" /\ o.life = "gone"
  <2>1. born' = born /\ dead' = dead \cup {id} /\ id \in born \ dead
    BY <1>1, <1>3
  <2>2. Handle!Remove(id)
    BY <2>1 DEF Handle!Remove
  <2>3. QED
    BY <2>2 DEF Handle!Next
<1>4. CASE remote[id].life = "live" /\ o.life = "live"
  <2>1. born' = born /\ dead' = dead
    BY <1>1, <1>4
  <2>2. QED
    BY <2>1 DEF Handle!vars
<1>5. QED
  BY <1>2, <1>3, <1>4 DEF Evolves

\* ... or the identifier changes over the same objects.
LEMMA MoveRefines ==
    ASSUME IInv, IInv', remote' = remote, Holds \/ Adopts \/ Releases
    PROVE  Handle!Next \/ UNCHANGED Handle!vars
<1>1. CASE Holds
  BY <1>1 DEF Holds, Handle!vars
<1>2. CASE Adopts
  <2>1. remote[entry'.id].life # "unused"
    BY <1>2, NullAssumption DEF Adopts, IInv, HeldIdsExist, Tracked
  <2>2. Handle!Adopt(entry'.id)
    BY <1>2, <2>1 DEF Adopts, Handle!Adopt
  <2>3. QED
    BY <1>2, <2>2 DEF Adopts, Handle!Next
<1>3. CASE Releases
  <2>1. entry.id \in Ids
    BY <1>3 DEF Releases, IInv, TypeOK, StateEntry
  <2>2. Handle!Release
    BY <1>3, <2>1 DEF Releases, Handle!Release
  <2>3. QED
    BY <2>2 DEF Handle!Next
<1>4. QED
  BY <1>1, <1>2, <1>3

LEMMA StepRefines ==
    ASSUME IInv, DeletesAreWatched, [Next]_vars
    PROVE  Handle!Next \/ UNCHANGED Handle!vars
<1>1. IInv'
  BY Inductive
<1>2. CASE Handler \/ Terraform
  <2>1. remote' = remote
    BY <1>2 DEF Handler, CreateAnswered, ReadAnswered, CheckAnswered,
       UpdateAnswered, DeleteAnswered, PollRefreshes, PollAnswered,
       PollTimesOut, Fail, Return, Poll, SaveAndReturn,
       Terraform, Configure, StartRead, StartCreate, StartUpdate,
       StartDelete, StartImport, Crash, Begin, apiVars
  <2>2. QED
    BY <1>1, <1>2, <2>1, HandleMoves, MoveRefines
<1>3. CASE Api \/ Others
  <2>1. Still \/ \E id \in Ids, o \in Object : Evolves(id, o)
    BY <1>3, PostServed, PostFullServed, GetServed, PutServed, DeleteServed,
       RejectServed, NetworkServed, JobEvolves, EditEvolves, RemoveEvolves
       DEF Api, ApiNext, ApiServes, Served, Others, SomebodyElse
  <2>2. entry' = entry
    BY <1>3 DEF Api, Others, tfVars
  <2>3. QED
    BY <2>1, <2>2, WorldRefines DEF Still, Handle!vars
<1>4. CASE UNCHANGED vars
  BY <1>4 DEF vars, apiVars, tfVars, Handle!vars
<1>5. QED
  BY <1>2, <1>3, <1>4 DEF Next

\* When deletes are watched, the handlers implement the promise of
\* ResourceHandle: one handle, dropped only when its object is gone.
THEOREM HandlersImplementHandle ==
    DeletesAreWatched => (Spec => ImplementsHandle)
<1> SUFFICES ASSUME DeletesAreWatched PROVE Spec => ImplementsHandle
  OBVIOUS
<1>1. Init => Handle!Init
  <2> SUFFICES ASSUME Init PROVE Handle!Init
    OBVIOUS
  <2>1. /\ \A id \in Ids : remote[id].life = "unused"
        /\ entry.id = Null
    BY NoDataType DEF Init, ApiInit, NoObject
  <2>2. QED
    BY <2>1 DEF Handle!Init
<1>2. IInv /\ [Next]_vars => [Handle!Next]_(Handle!vars)
  BY StepRefines
<1>3. QED
  BY <1>1, <1>2, Invariance, PTL DEF Spec, ImplementsHandle, Handle!Spec
=============================================================================
