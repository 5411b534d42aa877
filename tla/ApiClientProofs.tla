---------------------------- MODULE ApiClientProofs ----------------------------
(***************************************************************************)
(* Proofs about the requests of the client, for every document, every      *)
(* configuration and any number of concurrent calls: where they go, what   *)
(* credentials they carry and which objects they are about.                *)
(***************************************************************************)
EXTENDS ApiClientProps, SortedSetsProofs, SequenceTheorems

\* A call is the record that Idle is.
Shaped(x) ==
    x = [pc |-> x.pc, resource |-> x.resource, method |-> x.method,
         parents |-> x.parents, id |-> x.id, host |-> x.host, path |-> x.path,
         headers |-> x.headers, query |-> x.query, todo |-> x.todo]

Begun(c) == call[c].pc \in {"auth", "refresh", "sent"}

\* What the start-up has left when calls are made.
StartInv ==
    /\ setup \in Setups
    /\ phase \in {"created", "ready"} => Complete
    /\ phase = "ready" => auth \in Authenticators /\ endpoints \in ConfiguredEndpoints
    /\ call = [c \in Callers |-> call[c]]
    /\ \A c \in Callers :
          /\ Shaped(call[c])
          /\ call[c].pc \in {"idle", "auth", "refresh", "sent", "refused"}
          /\ call[c].pc # "idle" => phase = "ready"
          /\ Begun(c) => /\ call[c].resource \in DOMAIN doc.resources
                         /\ call[c].method \in DOMAIN R(c).calls

(***************************************************************************)
(* A step that makes a request, or goes on with one, is one caller's.      *)
(***************************************************************************)
Acts(c) == Begin(c) \/ Authenticate(c) \/ TokenAnswered(c) \/ Dispatch(c)

\* What Begin makes of a call.
Starting(n, m, parents, id) ==
    [Idle EXCEPT !.resource = n, !.method = m, !.parents = parents, !.id = id]

\* What getResourceURL and getResourceIDURL make of a call's identifiers.
Addressed(x, r) ==
    /\ x.parents \in [ToSet(r.parents) -> Ids]
    /\ ~IdsMisfit(r.path, ParentIds(r, x.parents))
    /\ x.method \notin Collective => x.id \in Ids /\ x.id \notin Slashed \cup {""}
    /\ x.path = Path(r, x.method, ParentIds(r, x.parents), x.id)

LEMMA Begins ==
    ASSUME StartInv, NEW c \in Callers, Begin(c)
    PROVE  /\ phase = "ready"
           /\ \E x : call' = [call EXCEPT ![c] = x]
           /\ Shaped(call'[c]) /\ call'[c].pc \in {"auth", "refused"}
           /\ call'[c].pc = "auth" =>
                 /\ call'[c].resource \in DOMAIN doc.resources
                 /\ call'[c].method \in DOMAIN doc.resources[call'[c].resource].calls
                 /\ ~NoHost(doc.resources[call'[c].resource])
                 /\ call'[c].host =
                       HostOf(call'[c].resource, doc.resources[call'[c].resource])
                 /\ LET operation ==
                            doc.resources[call'[c].resource].calls[call'[c].method]
                    IN /\ call'[c].todo = Chosen(operation)
                       /\ \A s \in Chosen(operation) : TerraformName[s] \in DOMAIN auth
                 /\ call'[c].headers = <<>> /\ call'[c].query = <<>>
                 /\ Addressed(call'[c], doc.resources[call'[c].resource])
<1>1. PICK n \in DOMAIN doc.resources :
      \E m \in DOMAIN doc.resources[n].calls,
         parents \in [ToSet(doc.resources[n].parents) -> Ids] :
      \E id \in IF m \in Collective THEN {Null} ELSE Ids :
         call' = [call EXCEPT ![c] =
            IF \/ Unbuildable(doc.resources[n], m, ParentIds(doc.resources[n], parents), id)
               \/ \E s \in Chosen(doc.resources[n].calls[m]) :
                     TerraformName[s] \notin DOMAIN auth
            THEN [Starting(n, m, parents, id) EXCEPT !.pc = "refused"]
            ELSE [Starting(n, m, parents, id) EXCEPT !.pc = "auth",
                     !.todo = Chosen(doc.resources[n].calls[m]),
                     !.host = HostOf(n, doc.resources[n]),
                     !.path = Path(doc.resources[n], m,
                                   ParentIds(doc.resources[n], parents), id)]]
  BY DEF Begin, Starting
<1>2. PICK m \in DOMAIN doc.resources[n].calls,
           parents \in [ToSet(doc.resources[n].parents) -> Ids] :
      \E id \in IF m \in Collective THEN {Null} ELSE Ids :
         call' = [call EXCEPT ![c] =
            IF \/ Unbuildable(doc.resources[n], m, ParentIds(doc.resources[n], parents), id)
               \/ \E s \in Chosen(doc.resources[n].calls[m]) :
                     TerraformName[s] \notin DOMAIN auth
            THEN [Starting(n, m, parents, id) EXCEPT !.pc = "refused"]
            ELSE [Starting(n, m, parents, id) EXCEPT !.pc = "auth",
                     !.todo = Chosen(doc.resources[n].calls[m]),
                     !.host = HostOf(n, doc.resources[n]),
                     !.path = Path(doc.resources[n], m,
                                   ParentIds(doc.resources[n], parents), id)]]
  BY <1>1
<1> DEFINE r == doc.resources[n]
<1>3. PICK id \in IF m \in Collective THEN {Null} ELSE Ids : call' = [call EXCEPT ![c] =
            IF \/ Unbuildable(r, m, ParentIds(r, parents), id)
               \/ \E s \in Chosen(r.calls[m]) : TerraformName[s] \notin DOMAIN auth
            THEN [Starting(n, m, parents, id) EXCEPT !.pc = "refused"]
            ELSE [Starting(n, m, parents, id) EXCEPT !.pc = "auth",
                     !.todo = Chosen(r.calls[m]),
                     !.host = HostOf(n, r),
                     !.path = Path(r, m, ParentIds(r, parents), id)]]
  BY <1>2
<1> DEFINE wrong == \/ Unbuildable(r, m, ParentIds(r, parents), id)
                    \/ \E s \in Chosen(r.calls[m]) : TerraformName[s] \notin DOMAIN auth
           chosen == Chosen(r.calls[m])
           host == HostOf(n, r)
           path == Path(r, m, ParentIds(r, parents), id)
<1>4. ~wrong => /\ ~NoHost(r) /\ \A s \in chosen : TerraformName[s] \in DOMAIN auth
                /\ ~IdsMisfit(r.path, ParentIds(r, parents))
                /\ m \notin Collective => id \in Ids /\ id \notin Slashed \cup {""}
  BY DEF Unbuildable
<1>5. call'[c] = IF wrong
                 THEN [Starting(n, m, parents, id) EXCEPT !.pc = "refused"]
                 ELSE [Starting(n, m, parents, id) EXCEPT !.pc = "auth",
                          !.todo = chosen, !.host = host, !.path = path]
  BY <1>3 DEF StartInv
<1>6. \E x : call' = [call EXCEPT ![c] = x]
  BY <1>3
<1> HIDE DEF wrong, chosen, host, path
<1>7. CASE wrong
  <2>1. Shaped(call'[c]) /\ call'[c].pc = "refused"
    BY <1>5, <1>7 DEF Shaped, Starting, Idle
  <2> QED BY <1>6, <2>1 DEF Begin
<1>8. CASE ~wrong
  <2>1. /\ Shaped(call'[c]) /\ call'[c].pc = "auth" /\ call'[c].resource = n
        /\ call'[c].method = m /\ call'[c].host = host /\ call'[c].todo = chosen
        /\ call'[c].headers = <<>> /\ call'[c].query = <<>>
        /\ call'[c].parents = parents /\ call'[c].id = id /\ call'[c].path = path
    BY <1>5, <1>8 DEF Shaped, Starting, Idle
  <2>2. Addressed(call'[c], doc.resources[call'[c].resource])
    BY <1>4, <1>8, <2>1 DEF Addressed, path
  <2> QED BY <1>4, <1>6, <1>8, <2>1, <2>2 DEF Begin, chosen, host
<1> QED BY <1>7, <1>8

\* A call that goes on stays what it is about.
SameCall(c) ==
    /\ UNCHANGED <<setup, phase, auth, endpoints>>
    /\ \E x : call' = [call EXCEPT ![c] = x]
    /\ Shaped(call'[c])
    /\ call'[c].resource = call[c].resource /\ call'[c].method = call[c].method
    /\ call'[c].host = call[c].host /\ call'[c].parents = call[c].parents
    /\ call'[c].id = call[c].id /\ call'[c].path = call[c].path

\* What prepareAuth makes of a scheme s that the definition d stands for.
Authenticated(c, s, d) ==
    /\ s \in call[c].todo /\ d = auth[TerraformName[s]] /\ ~Missing(d)
    /\ call'[c].todo = call[c].todo \ {s}
    /\ \/ /\ doc.defs[d].kind = "refresh"
          /\ call'[c].pc = "refresh"
          /\ call'[c].headers = call[c].headers /\ call'[c].query = call[c].query
       \/ /\ doc.defs[d].kind # "refresh" /\ doc.defs[d].in = "query"
          /\ call'[c].pc = "auth"
          /\ call'[c].headers = call[c].headers
          /\ call'[c].query =
                Append(call[c].query, <<Place(d), Text(TerraformName[s])>>)
       \/ /\ doc.defs[d].kind # "refresh" /\ doc.defs[d].in # "query"
          /\ call'[c].pc = "auth"
          /\ call'[c].query = call[c].query
          /\ call'[c].headers =
                With(call[c].headers, Place(d), Text(TerraformName[s]))

LEMMA Refuses ==
    ASSUME StartInv, NEW c \in Callers, Refuse(c),
           UNCHANGED <<setup, phase, auth, endpoints>>
    PROVE  SameCall(c) /\ call'[c].pc = "refused"
<1>1. Shaped(call[c]) /\ call = [x \in Callers |-> call[x]]
  BY DEF StartInv
<1>2. call'[c] = [call[c] EXCEPT !.pc = "refused"] /\ \E x : call' = [call EXCEPT ![c] = x]
  BY <1>1 DEF Refuse
<1> QED BY <1>1, <1>2 DEF SameCall, Shaped

LEMMA Authenticates ==
    ASSUME StartInv, NEW c \in Callers, Authenticate(c)
    PROVE  /\ call[c].pc = "auth" /\ SameCall(c) /\ issued' = issued
           /\ call'[c].pc = "refused" \/ \E s, d : Authenticated(c, s, d)
<1>1. PICK s \in call[c].todo :
         LET d == auth[TerraformName[s]]
             value == Text(TerraformName[s])
             left == [call[c] EXCEPT !.todo = @ \ {s}]
         IN IF Missing(d) THEN Refuse(c)
            ELSE call' = [call EXCEPT ![c] =
               IF doc.defs[d].kind = "refresh"
               THEN [left EXCEPT !.pc = "refresh"]
               ELSE IF doc.defs[d].in = "query"
               THEN [left EXCEPT !.query = Append(@, <<Place(d), value>>)]
               ELSE [left EXCEPT !.headers = With(@, Place(d), value)]]
  BY DEF Authenticate
<1> DEFINE d == auth[TerraformName[s]]
           value == Text(TerraformName[s])
           left == [call[c] EXCEPT !.todo = @ \ {s}]
<1>2. /\ call[c].pc = "auth" /\ UNCHANGED <<setup, phase, auth, endpoints, issued>>
      /\ Shaped(call[c]) /\ call = [x \in Callers |-> call[x]]
  BY DEF Authenticate, StartInv
<1>3. CASE Missing(d)
  BY <1>1, <1>2, <1>3, Refuses
<1>4. CASE ~Missing(d)
  <2> DEFINE x == IF doc.defs[d].kind = "refresh"
                  THEN [left EXCEPT !.pc = "refresh"]
                  ELSE IF doc.defs[d].in = "query"
                  THEN [left EXCEPT !.query = Append(left.query, <<Place(d), value>>)]
                  ELSE [left EXCEPT !.headers = With(left.headers, Place(d), value)]
  <2>1. call' = [call EXCEPT ![c] = x]
    BY <1>1, <1>4
  <2>2. call'[c] = x
    BY <1>2, <2>1
  <2>3. \E y : call' = [call EXCEPT ![c] = y]
    BY <2>1
  <2>4. /\ Shaped(left) /\ left.pc = "auth" /\ left.resource = call[c].resource
        /\ left.method = call[c].method /\ left.host = call[c].host
        /\ left.parents = call[c].parents /\ left.id = call[c].id
        /\ left.path = call[c].path
        /\ left.headers = call[c].headers /\ left.query = call[c].query
        /\ left.todo = call[c].todo \ {s}
    BY <1>2 DEF Shaped
  <2> HIDE DEF d, value, left
  <2>5. SameCall(c)
    BY <1>2, <2>2, <2>3, <2>4 DEF SameCall, Shaped
  <2>6. call'[c].todo = call[c].todo \ {s}
    BY <2>2, <2>4 DEF Shaped
  <2>7. CASE doc.defs[d].kind = "refresh"
    <3>1. /\ call'[c].pc = "refresh"
          /\ call'[c].headers = call[c].headers /\ call'[c].query = call[c].query
      BY <2>2, <2>4, <2>7 DEF Shaped
    <3>2. Authenticated(c, s, d)
      BY <1>4, <2>6, <2>7, <3>1 DEF Authenticated, d
    <3> QED BY <1>2, <2>5, <3>2
  <2>8. CASE doc.defs[d].kind # "refresh" /\ doc.defs[d].in = "query"
    <3>1. /\ call'[c].pc = "auth" /\ call'[c].headers = call[c].headers
          /\ call'[c].query = Append(call[c].query, <<Place(d), value>>)
      BY <2>2, <2>4, <2>8 DEF Shaped
    <3>2. Authenticated(c, s, d)
      BY <1>4, <2>6, <2>8, <3>1 DEF Authenticated, d, value
    <3> QED BY <1>2, <2>5, <3>2
  <2>9. CASE doc.defs[d].kind # "refresh" /\ doc.defs[d].in # "query"
    <3>1. /\ call'[c].pc = "auth" /\ call'[c].query = call[c].query
          /\ call'[c].headers = With(call[c].headers, Place(d), value)
      BY <2>2, <2>4, <2>9 DEF Shaped
    <3>2. Authenticated(c, s, d)
      BY <1>4, <2>6, <2>9, <3>1 DEF Authenticated, d, value
    <3> QED BY <1>2, <2>5, <3>2
  <2> QED BY <2>7, <2>8, <2>9
<1> QED BY <1>3, <1>4

LEMMA TokenTells ==
    ASSUME StartInv, NEW c \in Callers, TokenAnswered(c)
    PROVE  /\ call[c].pc = "refresh" /\ SameCall(c)
           /\ \/ call'[c].pc = "refused" /\ issued' = issued
              \/ /\ call'[c].pc = "auth" /\ issued' = issued + 1
                 /\ call'[c].todo = call[c].todo /\ call'[c].query = call[c].query
                 /\ call'[c].headers =
                       With(call[c].headers, Authorization, Token(issued'))
<1>1. /\ call[c].pc = "refresh" /\ UNCHANGED <<setup, phase, auth, endpoints>>
      /\ Shaped(call[c]) /\ call = [x \in Callers |-> call[x]]
  BY DEF TokenAnswered, StartInv
<1>2. CASE issued' = issued /\ Refuse(c)
  BY <1>1, <1>2, Refuses
<1>3. CASE /\ issued' = issued + 1
           /\ call' = [call EXCEPT ![c].pc = "auth",
                       ![c].headers = With(@, Authorization, Token(issued'))]
  <2> DEFINE t == Token(issued')
             x == [call[c] EXCEPT !.pc = "auth",
                                  !.headers = With(call[c].headers, Authorization, t)]
  <2> HIDE DEF t
  <2>1. call' = [call EXCEPT ![c] = x]
    BY <1>1, <1>3 DEF t, Shaped
  <2>2. call'[c] = x
    BY <1>1, <2>1
  <2>3. \E y : call' = [call EXCEPT ![c] = y]
    BY <2>1
  <2> QED BY <1>1, <1>3, <2>2, <2>3 DEF SameCall, Shaped, t
<1> QED BY <1>1, <1>2, <1>3 DEF TokenAnswered

LEMMA Dispatches ==
    ASSUME StartInv, NEW c \in Callers, Dispatch(c)
    PROVE  /\ call[c].pc = "auth" /\ call[c].todo = {} /\ SameCall(c) /\ issued' = issued
           /\ \/ call'[c].pc = "refused"
              \/ /\ call'[c].pc = "sent" /\ ~HeaderMissing(c)
                 /\ call'[c].todo = {} /\ call'[c].query = call[c].query
                 /\ call'[c].headers = Headers(c)
<1>1. /\ call[c].pc = "auth" /\ call[c].todo = {}
      /\ UNCHANGED <<setup, phase, auth, endpoints, issued>>
      /\ Shaped(call[c]) /\ call = [x \in Callers |-> call[x]]
  BY DEF Dispatch, StartInv
<1>2. CASE HeaderMissing(c)
  BY <1>1, <1>2, Refuses DEF Dispatch
<1>3. CASE ~HeaderMissing(c)
  <2> DEFINE h == Headers(c)
             x == [call[c] EXCEPT !.pc = "sent", !.headers = h]
  <2> HIDE DEF h
  <2>1. call' = [call EXCEPT ![c] = x]
    BY <1>1, <1>3 DEF Dispatch, h, Shaped
  <2>2. call'[c] = x
    BY <1>1, <2>1
  <2>3. \E y : call' = [call EXCEPT ![c] = y]
    BY <2>1
  <2> QED BY <1>1, <1>3, <2>2, <2>3 DEF SameCall, Shaped, h
<1> QED BY <1>2, <1>3
-----------------------------------------------------------------------------
(* Where requests go                                                       *)

USE DEF doc, conf

LEMMA OtherCalls ==
    ASSUME StartInv, NEW c \in Callers, \E x : call' = [call EXCEPT ![c] = x]
    PROVE  /\ call' = [d \in Callers |-> call'[d]]
           /\ \A d \in Callers : d # c => call'[d] = call[d]
BY DEF StartInv

LEMMA InitStartInv == Init => StartInv
<1> SUFFICES ASSUME Init PROVE StartInv
  OBVIOUS
<1>1. /\ setup \in Setups /\ phase = "starting"
      /\ call = [c \in Callers |-> Idle]
  BY DEF Init
<1>2. call = [c \in Callers |-> call[c]]
  BY <1>1
<1>3. Shaped(Idle) /\ Idle.pc = "idle"
  BY DEF Shaped, Idle
<1>4. \A c \in Callers : call[c] = Idle
  BY <1>1
<1> QED BY <1>1, <1>2, <1>3, <1>4 DEF StartInv, Begun

\* The document and the configuration are what they are from the start.
LEMMA SetupStays ==
    ASSUME UNCHANGED setup
    PROVE  /\ ApiKeys' = ApiKeys /\ ResourceNames' = ResourceNames
           /\ Authenticators' = Authenticators
           /\ ConfiguredEndpoints' = ConfiguredEndpoints
           /\ Complete' = Complete
<1>1. ApiKeys' = ApiKeys /\ ResourceNames' = ResourceNames
  BY DEF ApiKeys, ResourceNames
<1>2. LastMet' = LastMet
  BY <1>1 DEF LastMet
<1>3. Authenticators' = Authenticators
  BY <1>1, <1>2 DEF Authenticators
<1>4. ConfiguredEndpoints' = ConfiguredEndpoints
  BY <1>1 DEF ConfiguredEndpoints
<1>5. FirstSchemes(doc.global)' = FirstSchemes(doc.global)
  BY DEF FirstSchemes
<1>6. DefinitionsValid' = DefinitionsValid /\ MultiRegion' = MultiRegion
  BY <1>1 DEF DefinitionsValid, MultiRegion
<1>7. Complete' = Complete
  BY <1>1, <1>5, <1>6 DEF Complete
<1> QED BY <1>1, <1>3, <1>4, <1>7

LEMMA CallStartInv ==
    ASSUME StartInv, NEW c \in Callers, Acts(c)
    PROVE  StartInv'
<1>1. CASE Begin(c)
  <2>1. UNCHANGED <<setup, phase, auth, endpoints>>
    BY <1>1 DEF Begin
  <2>2. /\ call' = [d \in Callers |-> call'[d]]
        /\ \A d \in Callers : d # c => call'[d] = call[d]
    BY <1>1, Begins, OtherCalls
  <2>3. /\ phase = "ready" /\ Shaped(call'[c]) /\ call'[c].pc \in {"auth", "refused"}
        /\ call'[c].pc = "auth" =>
              /\ call'[c].resource \in DOMAIN doc.resources
              /\ call'[c].method \in DOMAIN doc.resources[call'[c].resource].calls
    BY <1>1, Begins
  <2>4. \A d \in Callers : Begun(d)' =>
           /\ (call[d].resource \in DOMAIN doc.resources)'
           /\ (call[d].method \in DOMAIN R(d).calls)'
    BY <2>1, <2>2, <2>3 DEF StartInv, Begun, R
  <2>5. Complete' = Complete /\ Authenticators' = Authenticators
        /\ ConfiguredEndpoints' = ConfiguredEndpoints
    BY <2>1, SetupStays
  <2> QED BY <2>1, <2>2, <2>3, <2>4, <2>5 DEF StartInv, Begun
<1>2. CASE Authenticate(c) \/ TokenAnswered(c) \/ Dispatch(c)
  <2>1. SameCall(c) /\ Begun(c) /\ call'[c].pc \in {"auth", "refresh", "sent", "refused"}
    BY <1>2, Authenticates, TokenTells, Dispatches DEF Authenticated, Begun
  <2>2. /\ call' = [d \in Callers |-> call'[d]]
        /\ \A d \in Callers : d # c => call'[d] = call[d]
    BY <2>1, OtherCalls DEF SameCall
  <2>3. phase = "ready"
    BY <2>1 DEF StartInv, Begun
  <2>4. \A d \in Callers : Begun(d)' =>
           /\ (call[d].resource \in DOMAIN doc.resources)'
           /\ (call[d].method \in DOMAIN R(d).calls)'
    BY <2>1, <2>2 DEF StartInv, SameCall, Begun, R
  <2>5. Complete' = Complete /\ Authenticators' = Authenticators
        /\ ConfiguredEndpoints' = ConfiguredEndpoints
    BY <2>1, SetupStays DEF SameCall
  <2> QED BY <2>1, <2>2, <2>3, <2>4, <2>5 DEF StartInv, SameCall, Begun
<1> QED BY <1>1, <1>2 DEF Acts

LEMMA NextStartInv == StartInv /\ [Next]_vars => StartInv'
<1> SUFFICES ASSUME StartInv, [Next]_vars PROVE StartInv'
  OBVIOUS
<1>1. CASE CreateProvider
  <2>1. \A c \in Callers : call[c].pc = "idle"
    BY <1>1 DEF CreateProvider, StartInv
  <2>2. /\ phase' = "created" => Complete
        /\ phase' \in {"created", "failed"} /\ UNCHANGED <<setup, call>>
    BY <1>1 DEF CreateProvider
  <2>3. Complete' = Complete
    BY <2>2, SetupStays
  <2> QED BY <2>1, <2>2, <2>3 DEF StartInv, Begun
<1>2. CASE ConfigureProvider
  <2>1. \A c \in Callers : call[c].pc = "idle"
    BY <1>2 DEF ConfigureProvider, StartInv
  <2>2. phase = "created" /\ phase' = "ready" /\ UNCHANGED <<setup, call>>
        /\ auth' \in Authenticators /\ endpoints' \in ConfiguredEndpoints
    BY <1>2 DEF ConfigureProvider
  <2>3. Authenticators' = Authenticators /\ ConfiguredEndpoints' = ConfiguredEndpoints
        /\ Complete' = Complete
    BY <2>2, SetupStays
  <2> QED BY <2>1, <2>2, <2>3 DEF StartInv, Begun
<1>3. ASSUME NEW c \in Callers, Acts(c) PROVE StartInv'
  BY <1>3, CallStartInv
<1>4. CASE UNCHANGED vars
  <2>1. UNCHANGED <<setup, phase, auth, endpoints, call>>
    BY <1>4 DEF vars
  <2>2. Complete' = Complete /\ Authenticators' = Authenticators
        /\ ConfiguredEndpoints' = ConfiguredEndpoints
    BY <2>1, SetupStays
  <2>3. \A d \in Callers : Begun(d)' => Begun(d) /\ R(d)' = R(d)
    BY <2>1 DEF Begun, R
  <2> QED BY <2>1, <2>2, <2>3 DEF StartInv, Begun, Shaped
<1> QED BY <1>1, <1>2, <1>3, <1>4 DEF Next, Acts

\* A request that has been begun is for the host that was chosen, of which there
\* was one.
HostInv ==
    /\ StartInv
    /\ \A c \in Callers :
          Begun(c) => call[c].host = HostOf(call[c].resource, R(c)) /\ ~NoHost(R(c))

LEMMA InitHostInv == Init => HostInv
<1> SUFFICES ASSUME Init PROVE HostInv
  OBVIOUS
<1>1. StartInv
  BY InitStartInv
<1> QED BY <1>1 DEF Init, HostInv, Begun, Idle

LEMMA HostsStay ==
    ASSUME UNCHANGED <<setup, endpoints>>, NEW n, NEW r
    PROVE  HostOf(n, r)' = HostOf(n, r) /\ NoHost(r)' = NoHost(r)
BY DEF HostOf, NoHost, Endpoint, OwnHost, DefaultHost, Region, RegionAllowed, MultiRegion, Value

LEMMA NextHostInv == HostInv /\ [Next]_vars => HostInv'
<1> SUFFICES ASSUME HostInv, [Next]_vars PROVE HostInv'
  OBVIOUS
<1>1. StartInv /\ StartInv'
  BY NextStartInv DEF HostInv
<1>2. SUFFICES ASSUME NEW d \in Callers, Begun(d)'
               PROVE  call'[d].host = HostOf(call[d].resource, R(d))' /\ ~NoHost(R(d))'
  BY <1>1 DEF HostInv
<1>3. ASSUME UNCHANGED <<setup, endpoints>>, Begun(d),
             call'[d].resource = call[d].resource, call'[d].host = call[d].host
      PROVE  call'[d].host = HostOf(call[d].resource, R(d))' /\ ~NoHost(R(d))'
  <2>1. PICK n, r : n = call[d].resource /\ r = R(d)
    OBVIOUS
  <2>2. call[d].host = HostOf(n, r) /\ ~NoHost(r)
    BY <1>3, <2>1 DEF HostInv
  <2>3. HostOf(n, r)' = HostOf(n, r) /\ NoHost(r)' = NoHost(r)
    BY <1>3, HostsStay
  <2>4. R(d)' = r /\ call'[d].resource = n
    BY <1>3, <2>1 DEF R
  <2>5. HostOf(call[d].resource, R(d))' = HostOf(n, r)' /\ NoHost(R(d))' = NoHost(r)'
    BY <2>4
  <2> QED BY <1>3, <2>2, <2>3, <2>5
<1>4. CASE CreateProvider \/ ConfigureProvider
  BY <1>1, <1>2, <1>4 DEF CreateProvider, ConfigureProvider, StartInv, Begun
<1>5. ASSUME NEW c \in Callers, Begin(c), d = c
      PROVE  call'[d].host = HostOf(call[d].resource, R(d))' /\ ~NoHost(R(d))'
  <2>1. call'[c].pc = "auth" /\ UNCHANGED <<setup, endpoints>>
    BY <1>1, <1>2, <1>5, Begins DEF Begun, Begin
  <2>2. PICK n, r : n = call'[c].resource /\ r = doc.resources[n]
    OBVIOUS
  <2>3. ~NoHost(r) /\ call'[c].host = HostOf(n, r)
    BY <1>1, <1>5, <2>1, <2>2, Begins
  <2>4. HostOf(n, r)' = HostOf(n, r) /\ NoHost(r)' = NoHost(r)
    BY <2>1, HostsStay
  <2>5. R(d)' = r /\ call'[d].resource = n
    BY <1>5, <2>1, <2>2 DEF R
  <2>6. HostOf(call[d].resource, R(d))' = HostOf(n, r)' /\ NoHost(R(d))' = NoHost(r)'
    BY <2>5
  <2> QED BY <1>5, <2>3, <2>4, <2>6
<1>6. ASSUME NEW c \in Callers, Acts(c), d # c \/ ~Begin(c)
      PROVE  call'[d].host = HostOf(call[d].resource, R(d))' /\ ~NoHost(R(d))'
  <2>1. UNCHANGED <<setup, endpoints>> /\ \E x : call' = [call EXCEPT ![c] = x]
    BY <1>1, <1>6, Begins, Authenticates, TokenTells, Dispatches DEF Acts, SameCall, Begin
  <2>2. CASE d # c
    BY <1>1, <1>2, <1>3, <2>1, <2>2, OtherCalls DEF Begun
  <2>3. CASE d = c
    <3>1. SameCall(c) /\ Begun(c)
      BY <1>1, <1>6, <2>3, Authenticates, TokenTells, Dispatches DEF Acts, Begun
    <3> QED BY <1>3, <2>1, <2>3, <3>1 DEF SameCall
  <2> QED BY <2>2, <2>3
<1>7. CASE UNCHANGED vars
  BY <1>2, <1>3, <1>7 DEF vars, Begun
<1> QED BY <1>4, <1>5, <1>6, <1>7 DEF Next, Acts

LEMMA HostFields ==
    ASSUME NEW name, NEW region
    PROVE  Host(name, region).name = name /\ Host(name, region).region = region
BY DEF Host

LEMMA HostInvDecides ==
    ASSUME HostInv
    PROVE  HostsAreMeant
<1> SUFFICES ASSUME NEW c \in Callers, Sent(c)
             PROVE  EndpointObeyed(c) /\ RegionServed(c)
  BY DEF HostsAreMeant
<1> DEFINE n == call[c].resource
           r == R(c)
<1>1. /\ call[c].host = HostOf(n, r) /\ ~NoHost(r) /\ setup \in Setups
      /\ endpoints \in ConfiguredEndpoints
  BY DEF HostInv, StartInv, Begun, Sent
<1> HIDE DEF r
<1>2. conf.endpoints = {} => Endpoint(n) = ""
  BY <1>1 DEF ConfiguredEndpoints, Endpoint
<1>3. conf.endpoints # {} =>
          \E b \in conf.endpoints :
             Endpoint(n) = IF Named(b, n) THEN b[n] ELSE ""
  <2>1. SUFFICES ASSUME conf.endpoints # {}
                 PROVE  \E b \in conf.endpoints :
                           Endpoint(n) = IF Named(b, n) THEN b[n] ELSE ""
    OBVIOUS
  <2>2. PICK b \in conf.endpoints :
           endpoints = [m \in ResourceNames |-> IF m \in DOMAIN b THEN b[m] ELSE ""]
    BY <1>1, <2>1 DEF ConfiguredEndpoints
  <2> QED BY <2>2 DEF Endpoint, Named
<1>4. \A b \in conf.endpoints : Named(b, n) => b[n] # ""
  BY <1>1, SetupsAssumption DEF Named
<1>5. EndpointObeyed(c)
  <2>1. \A b \in conf.endpoints :
            conf.endpoints = {b} /\ Named(b, n) => call[c].host = Host(b[n], "")
    BY <1>1, <1>3, <1>4 DEF HostOf
  <2>2. ASSUME call[c].host.name \notin DocumentHosts(r)
        PROVE  \E b \in conf.endpoints : Named(b, n) /\ call[c].host.name = b[n]
    <3>1. Endpoint(n) # ""
      <4>1. OwnHost(r).name = r.override
        BY HostFields DEF OwnHost
      <4>2. DefaultHost.name \in {doc.multi, doc.host, doc.served}
        <5>1. CASE MultiRegion
          BY <5>1, HostFields DEF DefaultHost
        <5>2. CASE ~MultiRegion
          BY <5>2, HostFields DEF DefaultHost
        <5> QED BY <5>1, <5>2
      <4> QED BY <1>1, <2>2, <4>1, <4>2 DEF HostOf, DocumentHosts
    <3>2. call[c].host.name = Endpoint(n)
      BY <1>1, <3>1, HostFields DEF HostOf
    <3> QED BY <1>2, <1>3, <3>1, <3>2
  <2>3. call[c].host.name \in
            (UNION {Range(b) : b \in conf.endpoints}) \ DocumentHosts(R(c)) =>
               \E b \in conf.endpoints : Named(b, n) /\ call[c].host.name = b[n]
    BY <2>2 DEF r
  <2> QED BY <2>1, <2>3 DEF EndpointObeyed
<1>6. RegionServed(c)
  <2>1. SUFFICES ASSUME call[c].host.region # ""
                 PROVE  IF r.override # "" THEN call[c].host.region = r.region
                        ELSE /\ call[c].host.region \in ToSet(doc.regions)
                             /\ Value("region") \in {"", call[c].host.region}
    BY DEF RegionServed, r
  <2>2. Endpoint(n) = ""
    <3>1. Host(Endpoint(n), "").region = ""
      BY HostFields
    <3>2. Endpoint(n) # "" => call[c].host = Host(Endpoint(n), "")
      BY <1>1 DEF HostOf
    <3> QED BY <2>1, <3>1, <3>2
  <2>3. CASE r.override # ""
    <3>1. call[c].host = OwnHost(r)
      BY <1>1, <2>2, <2>3 DEF HostOf
    <3>2. call[c].host.region = IF r.templated THEN r.region ELSE ""
      <4> DEFINE region == IF r.templated THEN r.region ELSE ""
      <4>1. OwnHost(r) = Host(r.override, region)
        BY DEF OwnHost
      <4> HIDE DEF region
      <4>2. OwnHost(r).region = region
        BY <4>1, HostFields
      <4> QED BY <3>1, <4>2 DEF region
    <3> QED BY <2>1, <2>3, <3>2
  <2>4. CASE r.override = ""
    <3>1. call[c].host = DefaultHost
      BY <1>1, <2>2, <2>4 DEF HostOf
    <3>2. MultiRegion /\ call[c].host.region = Region
      <4>1. ~MultiRegion => DefaultHost.region = ""
        BY HostFields DEF DefaultHost
      <4>2. MultiRegion => DefaultHost.region = Region
        BY HostFields DEF DefaultHost
      <4> QED BY <2>1, <3>1, <4>1, <4>2
    <3>3. RegionAllowed
      BY <1>1, <3>2 DEF NoHost
    <3> QED BY <2>4, <3>2, <3>3 DEF RegionAllowed, Region
  <2> QED BY <2>3, <2>4
<1> QED BY <1>5, <1>6

(***************************************************************************)
(* HostsAreMeant: whatever the document, the endpoints and the region, a   *)
(* request that is sent goes where they say (getResourceURL, getHost,      *)
(* configureEndpoints).                                                    *)
(***************************************************************************)
THEOREM RequestsGoWhereMeant == Spec => []HostsAreMeant
<1>1. HostInv => HostsAreMeant
  BY HostInvDecides
<1> QED BY <1>1, InitHostInv, NextHostInv, PTL DEF Spec
-----------------------------------------------------------------------------
(* What credentials they carry                                             *)

\* The definition that Terraform's name of a scheme leads to.
Stands(s) == auth[TerraformName[s]]

\* Contended, of an operation.
Clashes(operation, s) ==
    \/ \E t \in ApiKeys : /\ SamePlace(s, t)
                          /\ \E u \in Asked(operation) \ {s} :
                                TerraformName[t] = TerraformName[u]
    \/ \E h \in operation.headers : h.name = Place(s)
    \/ \E t \in ApiKeys \ {s} : TerraformName[t] = TerraformName[s]

\* What the request x has of the scheme s once prepareAuth has come to it.
Written(x, s) ==
    IF doc.defs[s].in = "query"
    THEN x.query = IF s \in x.todo THEN <<>>
                   ELSE <<<<Place(s), Text(TerraformName[s])>>>>
    ELSE s \notin x.todo =>
            IF doc.defs[s].kind = "refresh"
            THEN \/ x.pc = "refresh"
                 \/ Place(s) \in DOMAIN x.headers /\ x.headers[Place(s)].token > 0
            ELSE /\ Place(s) \in DOMAIN x.headers
                 /\ x.headers[Place(s)] = Text(TerraformName[s])

Places(operation) == {Place(Stands(s)) : s \in Chosen(operation)}
OwnNames(operation) == {h.name : h \in operation.headers}
Answers(operation) ==
    {<<Place(Stands(s)), Text(TerraformName[s])>> : s \in Chosen(operation)}

\* A request on its way: a call x of an operation.
RequestInv(operation, x) ==
    /\ x.todo \subseteq Chosen(operation)
    /\ \A s \in Chosen(operation) : TerraformName[s] \in DOMAIN auth
    /\ x.pc = "sent" => x.todo = {}
    /\ x.pc = "refresh" =>
          \E u \in Chosen(operation) : doc.defs[Stands(u)].kind = "refresh"
    /\ DOMAIN x.headers \subseteq Places(operation) \cup OwnNames(operation)
    /\ x.query \in Seq(Answers(operation))
    /\ \A s \in Asked(operation) :
          ~Clashes(operation, s) =>
              Written(x, s) /\ (s \in x.todo \/ ~Missing(s))
    /\ x.pc = "sent" =>
          \A h \in operation.headers : h.required => x.headers[h.name].text # ""

\* Every token is one call's: what two requests carry is no token, or differs.
TokenInv ==
    /\ issued \in Nat
    /\ \A c \in Callers : Begun(c) =>
          \A n \in DOMAIN call[c].headers :
              /\ call[c].headers[n].token \in 0..issued
              /\ \A d \in Callers \ {c} : Begun(d) =>
                    \A m \in DOMAIN call[d].headers :
                        call[c].headers[n].token = call[d].headers[m].token =>
                            call[c].headers[n].token = 0

CredentialInv ==
    /\ StartInv
    /\ \A c \in Callers : Begun(c) => RequestInv(Operation(c), call[c])
    /\ TokenInv

\* A definition is found by the name that it has for Terraform.
LEMMA StandsFor ==
    ASSUME auth \in Authenticators, NEW s, TerraformName[s] \in DOMAIN auth
    PROVE  Stands(s) \in ApiKeys /\ TerraformName[Stands(s)] = TerraformName[s]
<1>1. PICK ds \in LastMet :
         auth = [p \in {TerraformName[d] : d \in ApiKeys} |->
                    CHOOSE d \in ds : TerraformName[d] = p]
  BY DEF Authenticators
<1>2. PICK d \in ApiKeys : TerraformName[d] = TerraformName[s]
  BY <1>1
<1>3. Stands(s) = CHOOSE e \in ds : TerraformName[e] = TerraformName[s]
  BY <1>1, <1>2 DEF Stands
<1>4. ds \subseteq ApiKeys
  BY DEF LastMet
<1>5. \E e \in ds : TerraformName[e] = TerraformName[s]
  <2>1. PICK e \in ds : {x \in ds : TerraformName[x] = TerraformName[d]} = {e}
    BY <1>2 DEF LastMet
  <2>2. e \in {x \in ds : TerraformName[x] = TerraformName[d]}
    BY <2>1
  <2> QED BY <1>2, <2>2
<1> QED BY <1>3, <1>4, <1>5

\* Nothing else has the place or the name of a scheme that is not contended.
LEMMA Alone ==
    ASSUME StartInv, phase = "ready", NEW operation, NEW s \in Asked(operation),
           \A u \in Chosen(operation) : TerraformName[u] \in DOMAIN auth,
           ~Clashes(operation, s)
    PROVE  /\ s \in Chosen(operation) /\ Stands(s) = s /\ s \in ApiKeys
           /\ Place(s) \notin OwnNames(operation)
           /\ \A u \in Chosen(operation) \ {s} :
                 Stands(u) \in ApiKeys /\ ~SamePlace(s, Stands(u))
<1>1. auth \in Authenticators
  BY DEF StartInv
<1>2. Chosen(operation) = Asked(operation)
  BY DEF Chosen, Asked, FirstSchemes
<1>3. Stands(s) \in ApiKeys /\ TerraformName[Stands(s)] = TerraformName[s]
  BY <1>1, <1>2, StandsFor
<1>4. Stands(s) = s
  BY <1>3 DEF Clashes
<1>5. \A u \in Chosen(operation) \ {s} :
          Stands(u) \in ApiKeys /\ ~SamePlace(s, Stands(u))
  <2>1. SUFFICES ASSUME NEW u \in Chosen(operation) \ {s}
                 PROVE  Stands(u) \in ApiKeys /\ ~SamePlace(s, Stands(u))
    OBVIOUS
  <2>2. Stands(u) \in ApiKeys /\ TerraformName[Stands(u)] = TerraformName[u]
    BY <1>1, StandsFor
  <2> QED BY <1>2, <2>2 DEF Clashes
<1>6. Place(s) \notin OwnNames(operation)
  BY DEF Clashes, OwnNames
<1> QED BY <1>2, <1>3, <1>4, <1>5, <1>6

\* A credential goes into a header or into the query, a token into a header.
LEMMA InPlace ==
    ASSUME StartInv, phase = "ready", NEW d \in ApiKeys
    PROVE  /\ doc.defs[d].in \in {"header", "query"}
           /\ doc.defs[d].kind = "refresh" =>
                 doc.defs[d].in = "header" /\ Place(d) = Authorization
<1>1. doc.defs[d].in \in {"header", "query"} /\ setup \in Setups
  BY DEF StartInv, Complete, DefinitionsValid
<1>2. doc.defs[d].kind = "refresh" => doc.defs[d].in = "header"
  BY <1>1, SetupsAssumption DEF ApiKeys
<1> QED BY <1>1, <1>2 DEF Place

LEMMA BeginRequest ==
    ASSUME StartInv, phase = "ready", NEW operation, NEW x,
           x.pc = "auth", x.todo = Chosen(operation),
           \A s \in Chosen(operation) : TerraformName[s] \in DOMAIN auth,
           x.headers = <<>>, x.query = <<>>
    PROVE  RequestInv(operation, x)
<1>1. \A s \in Asked(operation) :
          ~Clashes(operation, s) => Written(x, s) /\ s \in x.todo
  <2>1. SUFFICES ASSUME NEW s \in Asked(operation), ~Clashes(operation, s)
                 PROVE  Written(x, s) /\ s \in x.todo
    OBVIOUS
  <2>2. s \in x.todo
    BY <2>1, Alone
  <2> QED BY <2>2 DEF Written
<1>2. DOMAIN x.headers = {} /\ x.query \in Seq(Answers(operation))
  OBVIOUS
<1> QED BY <1>1, <1>2 DEF RequestInv

LEMMA AuthenticateRequest ==
    ASSUME StartInv, phase = "ready", NEW operation, NEW x, NEW y, NEW s,
           RequestInv(operation, x), x.pc = "auth",
           s \in x.todo, ~Missing(Stands(s)), y.todo = x.todo \ {s},
           \/ /\ doc.defs[Stands(s)].kind = "refresh"
              /\ y.pc = "refresh" /\ y.headers = x.headers /\ y.query = x.query
           \/ /\ doc.defs[Stands(s)].kind # "refresh" /\ doc.defs[Stands(s)].in = "query"
              /\ y.pc = "auth" /\ y.headers = x.headers
              /\ y.query = Append(x.query, <<Place(Stands(s)), Text(TerraformName[s])>>)
           \/ /\ doc.defs[Stands(s)].kind # "refresh" /\ doc.defs[Stands(s)].in # "query"
              /\ y.pc = "auth" /\ y.query = x.query
              /\ y.headers = With(x.headers, Place(Stands(s)), Text(TerraformName[s]))
    PROVE  RequestInv(operation, y)
<1> DEFINE d == Stands(s)
           value == Text(TerraformName[s])
<1>1. /\ x.todo \subseteq Chosen(operation) /\ s \in Chosen(operation)
      /\ \A t \in Chosen(operation) : TerraformName[t] \in DOMAIN auth
      /\ DOMAIN x.headers \subseteq Places(operation) \cup OwnNames(operation)
      /\ x.query \in Seq(Answers(operation))
  BY DEF RequestInv
<1>2. d \in ApiKeys
  BY <1>1, StandsFor DEF StartInv
<1>3. /\ doc.defs[d].in \in {"header", "query"}
      /\ doc.defs[d].kind = "refresh" => doc.defs[d].in = "header" /\ Place(d) = Authorization
  BY <1>2, InPlace
<1>4. y.pc \in {"auth", "refresh"} /\ (y.pc = "refresh" => doc.defs[d].kind = "refresh")
  OBVIOUS
<1> DEFINE place == Place(d)
           with == With(x.headers, place, value)
<1>8. /\ DOMAIN with = DOMAIN x.headers \cup {place}
      /\ with[place] = value
      /\ \A n \in DOMAIN x.headers : n # place => with[n] = x.headers[n]
  <2> HIDE DEF place, value
  <2> QED BY DEF With
<1> HIDE DEF with
<1>9. \/ y.headers = x.headers
      \/ y.headers = with /\ doc.defs[d].in # "query"
  BY DEF with
<1>5. DOMAIN y.headers \subseteq Places(operation) \cup OwnNames(operation)
  <2>1. place \in Places(operation)
    BY <1>1 DEF Places
  <2> HIDE DEF place
  <2> QED BY <1>1, <1>8, <1>9, <2>1
<1>6. y.query \in Seq(Answers(operation))
  <2>1. <<Place(d), value>> \in Answers(operation)
    BY <1>1 DEF Answers
  <2> HIDE DEF d, value
  <2>2. Append(x.query, <<Place(d), value>>) \in Seq(Answers(operation))
    BY <1>1, <2>1
  <2> QED BY <1>1, <2>2 DEF d, value
<1>7. ASSUME NEW t \in Asked(operation), ~Clashes(operation, t)
      PROVE  Written(y, t) /\ (t \in y.todo \/ ~Missing(t))
  <2>1. /\ t \in Chosen(operation) /\ Stands(t) = t /\ t \in ApiKeys
        /\ s # t => ~SamePlace(t, d)
    BY <1>1, <1>7, Alone
  <2>2. Written(x, t) /\ (t \in x.todo \/ ~Missing(t))
    BY <1>7 DEF RequestInv
  <2>3. doc.defs[t].in \in {"header", "query"}
        /\ (doc.defs[t].kind = "refresh" => doc.defs[t].in = "header")
    BY <2>1, InPlace
  <2>4. CASE s # t
    <3>1. t \in y.todo \/ ~Missing(t)
      BY <2>2, <2>4
    <3>2. t \in y.todo <=> t \in x.todo
      BY <2>4
    <3>3. CASE doc.defs[t].in = "query"
      <4>1. doc.defs[d].in # "query"
        BY <2>1, <2>4, <3>3 DEF SamePlace
      <4>2. y.query = x.query
        BY <4>1
      <4> QED BY <2>2, <3>1, <3>2, <3>3, <4>2 DEF Written
    <3>4. CASE doc.defs[t].in = "header"
      <4>1. doc.defs[d].in = "header" => Place(t) # Place(d)
        BY <2>1, <2>4, <3>4 DEF SamePlace
      <4>2. ASSUME Place(t) \in DOMAIN x.headers
            PROVE  Place(t) \in DOMAIN y.headers /\ y.headers[Place(t)] = x.headers[Place(t)]
        BY <1>3, <1>8, <1>9, <4>1, <4>2
      <4> QED BY <2>2, <3>1, <3>2, <3>4, <4>2 DEF Written
    <3> QED BY <2>3, <3>3, <3>4
  <2>5. CASE s = t
    <3>1. d = t /\ t \notin y.todo /\ ~Missing(t) /\ t \in x.todo
      BY <2>1, <2>5
    <3>2. CASE doc.defs[t].kind = "refresh"
      BY <2>3, <3>1, <3>2 DEF Written
    <3>3. CASE doc.defs[t].kind # "refresh" /\ doc.defs[t].in = "query"
      <4>1. x.query = <<>>
        BY <2>2, <3>1, <3>3 DEF Written
      <4>2. y.query = Append(<<>>, <<Place(t), Text(TerraformName[t])>>)
        BY <2>5, <3>1, <3>3, <4>1
      <4>3. Append(<<>>, <<Place(t), Text(TerraformName[t])>>)
              = <<<<Place(t), Text(TerraformName[t])>>>>
        OBVIOUS
      <4> QED BY <3>1, <3>3, <4>2, <4>3 DEF Written
    <3>4. CASE doc.defs[t].kind # "refresh" /\ doc.defs[t].in # "query"
      <4>1. y.headers = With(x.headers, Place(t), Text(TerraformName[t]))
        BY <2>5, <3>1, <3>4
      <4>2. /\ Place(t) \in DOMAIN y.headers
            /\ y.headers[Place(t)] = Text(TerraformName[t])
        BY <2>5, <3>1, <4>1, <1>8 DEF with
      <4> QED BY <3>1, <3>4, <4>2 DEF Written
    <3> QED BY <3>2, <3>3, <3>4
  <2> QED BY <2>4, <2>5
<1> QED BY <1>1, <1>4, <1>5, <1>6, <1>7 DEF RequestInv

LEMMA TokenRequest ==
    ASSUME StartInv, phase = "ready", NEW operation, NEW x, NEW y, NEW n \in Nat,
           RequestInv(operation, x), x.pc = "refresh",
           y.pc = "auth", y.todo = x.todo, y.query = x.query,
           y.headers = With(x.headers, Authorization, Token(n + 1))
    PROVE  RequestInv(operation, y)
<1>1. /\ x.todo \subseteq Chosen(operation)
      /\ \A t \in Chosen(operation) : TerraformName[t] \in DOMAIN auth
      /\ DOMAIN x.headers \subseteq Places(operation) \cup OwnNames(operation)
      /\ x.query \in Seq(Answers(operation))
  BY DEF RequestInv
<1>2. PICK u \in Chosen(operation) : doc.defs[Stands(u)].kind = "refresh"
  BY DEF RequestInv
<1>3. Stands(u) \in ApiKeys
  BY <1>1, StandsFor DEF StartInv
<1>4. doc.defs[Stands(u)].in = "header" /\ Place(Stands(u)) = Authorization
  BY <1>2, <1>3, InPlace
<1>5. /\ DOMAIN y.headers = DOMAIN x.headers \cup {Authorization}
      /\ y.headers[Authorization] = Token(n + 1)
      /\ \A p \in DOMAIN x.headers : p # Authorization => y.headers[p] = x.headers[p]
  BY DEF With
<1>6. DOMAIN y.headers \subseteq Places(operation) \cup OwnNames(operation)
  BY <1>1, <1>2, <1>4, <1>5 DEF Places
<1>7. ASSUME NEW t \in Asked(operation), ~Clashes(operation, t)
      PROVE  Written(y, t) /\ (t \in y.todo \/ ~Missing(t))
  <2>1. /\ t \in Chosen(operation) /\ Stands(t) = t /\ t \in ApiKeys
        /\ u # t => ~SamePlace(t, Stands(u))
    BY <1>1, <1>7, Alone
  <2>2. Written(x, t) /\ (t \in x.todo \/ ~Missing(t))
    BY <1>7 DEF RequestInv
  <2>3. /\ doc.defs[t].in \in {"header", "query"}
        /\ doc.defs[t].kind = "refresh" =>
              doc.defs[t].in = "header" /\ Place(t) = Authorization
    BY <2>1, InPlace
  <2>4. CASE doc.defs[t].in = "query"
    BY <2>2, <2>4 DEF Written
  <2>5. CASE doc.defs[t].in = "header" /\ doc.defs[t].kind = "refresh"
    <3>1. Token(n + 1).token > 0
      <4>1. \A k : Token(k).token = k
        BY DEF Token
      <4>2. n + 1 > 0
        OBVIOUS
      <4> QED BY <4>1, <4>2
    <3> QED BY <1>5, <2>2, <2>3, <2>5, <3>1 DEF Written
  <2>6. CASE doc.defs[t].in = "header" /\ doc.defs[t].kind # "refresh"
    <3>1. Place(t) # Authorization
      BY <1>2, <1>4, <2>1, <2>6 DEF SamePlace
    <3> QED BY <1>5, <2>2, <2>6, <3>1 DEF Written
  <2> QED BY <2>3, <2>4, <2>5, <2>6
<1> QED BY <1>1, <1>6, <1>7 DEF RequestInv

\* What appendOperationHeaders makes of the headers that are there.
LEMMA OwnHeaders ==
    ASSUME NEW c
    PROVE  /\ DOMAIN Headers(c) = DOMAIN call[c].headers \cup OwnNames(Operation(c))
           /\ \A n \in DOMAIN call[c].headers :
                 n \notin OwnNames(Operation(c)) => Headers(c)[n] = call[c].headers[n]
           /\ \A n \in OwnNames(Operation(c)) :
                 \E h \in Operation(c).headers :
                    h.name = n /\ Headers(c)[n] = Text(h.property)
BY DEF Headers, OwnNames

LEMMA DispatchRequest ==
    ASSUME StartInv, phase = "ready", NEW c \in Callers, Begun(c), NEW y,
           RequestInv(Operation(c), call[c]), call[c].pc = "auth", call[c].todo = {},
           ~HeaderMissing(c), y.pc = "sent", y.todo = {}, y.query = call[c].query,
           y.headers = Headers(c)
    PROVE  RequestInv(Operation(c), y)
<1> DEFINE operation == Operation(c)
           x == call[c]
<1>1. /\ \A t \in Chosen(operation) : TerraformName[t] \in DOMAIN auth
      /\ DOMAIN x.headers \subseteq Places(operation) \cup OwnNames(operation)
      /\ x.query \in Seq(Answers(operation))
  BY DEF RequestInv
<1>2. /\ DOMAIN y.headers = DOMAIN x.headers \cup OwnNames(operation)
      /\ \A n \in DOMAIN x.headers :
            n \notin OwnNames(operation) => y.headers[n] = x.headers[n]
      /\ \A n \in OwnNames(operation) :
            \E h \in operation.headers : h.name = n /\ y.headers[n] = Text(h.property)
  BY OwnHeaders
<1> HIDE DEF operation, x
<1>3. ASSUME NEW t \in Asked(operation), ~Clashes(operation, t)
      PROVE  Written(y, t) /\ ~Missing(t)
  <2>1. Place(t) \notin OwnNames(operation)
    BY <1>1, <1>3, Alone
  <2>2. Written(x, t) /\ ~Missing(t)
    BY <1>3 DEF RequestInv, operation, x
  <2>3. Place(t) \in DOMAIN x.headers =>
           Place(t) \in DOMAIN y.headers /\ y.headers[Place(t)] = x.headers[Place(t)]
    BY <1>2, <2>1
  <2>4. x.todo = {} /\ x.pc = "auth" /\ y.query = x.query
    BY DEF x
  <2> QED BY <2>2, <2>3, <2>4 DEF Written
<1>4. ASSUME NEW h \in operation.headers, h.required
      PROVE  y.headers[h.name].text # ""
  <2>1. Value(h.property) # ""
    BY <1>4 DEF HeaderMissing, operation
  <2>2. PICK k \in operation.headers :
           k.name = h.name /\ y.headers[h.name] = Text(k.property)
    <3>1. h.name \in OwnNames(operation)
      BY DEF OwnNames
    <3> QED BY <1>2, <3>1
  <2>3. k = h
    <3>1. /\ setup \in Setups /\ call[c].resource \in DOMAIN doc.resources
          /\ call[c].method \in DOMAIN doc.resources[call[c].resource].calls
          /\ operation = doc.resources[call[c].resource].calls[call[c].method]
      BY DEF StartInv, Begun, Operation, R, operation
    <3>2. \A f, g \in doc.resources[call[c].resource].calls[call[c].method].headers :
             f.name = g.name => f = g
      BY <3>1, SetupsAssumption
    <3> QED BY <2>2, <3>1, <3>2
  <2>4. Text(k.property).text = Value(k.property)
    BY DEF Text
  <2> QED BY <2>1, <2>2, <2>3, <2>4
<1>5. DOMAIN y.headers \subseteq Places(operation) \cup OwnNames(operation)
  BY <1>1, <1>2
<1>6. y.query \in Seq(Answers(operation))
  BY <1>1 DEF x
<1> QED BY <1>1, <1>3, <1>4, <1>5, <1>6 DEF RequestInv, operation

\* Nothing of a request changes but by what its own call does.
LEMMA RequestStays ==
    ASSUME UNCHANGED <<setup, auth>>, NEW operation, NEW x
    PROVE  RequestInv(operation, x)' = RequestInv(operation, x)
<1>1. /\ Chosen(operation)' = Chosen(operation) /\ Asked(operation)' = Asked(operation)
      /\ ApiKeys' = ApiKeys
  BY DEF Chosen, Asked, FirstSchemes, ApiKeys
<1>2. \A s : Stands(s)' = Stands(s) /\ Place(s)' = Place(s)
             /\ Text(TerraformName[s])' = Text(TerraformName[s])
             /\ Missing(s)' = Missing(s)
  BY DEF Stands, Place, Text, Value, Missing
<1>3. \A s, t : SamePlace(s, t)' = SamePlace(s, t)
  BY <1>2 DEF SamePlace
<1>4. \A s : Clashes(operation, s)' = Clashes(operation, s)
             /\ Written(x, s)' = Written(x, s)
  BY <1>1, <1>2, <1>3 DEF Clashes, Written
<1>5. Places(operation)' = Places(operation) /\ OwnNames(operation)' = OwnNames(operation)
      /\ Answers(operation)' = Answers(operation)
  BY <1>1, <1>2 DEF Places, OwnNames, Answers
<1> QED BY <1>1, <1>2, <1>4, <1>5 DEF RequestInv

LEMMA InitCredentialInv == Init => CredentialInv
<1> SUFFICES ASSUME Init PROVE CredentialInv
  OBVIOUS
<1>1. StartInv
  BY InitStartInv
<1>2. \A c \in Callers : ~Begun(c)
  BY DEF Init, Begun, Idle
<1>3. issued \in Nat
  BY DEF Init
<1> QED BY <1>1, <1>2, <1>3 DEF CredentialInv, TokenInv

\* A call's step keeps to what its request is to carry.
LEMMA RequestSteps ==
    ASSUME CredentialInv, NEW c \in Callers, Acts(c), Begun(c)'
    PROVE  RequestInv(Operation(c), call[c])'
<1>1. StartInv /\ issued \in Nat /\ (Begun(c) => RequestInv(Operation(c), call[c]))
  BY DEF CredentialInv, TokenInv
<1>2. PICK y : y = call'[c]
  OBVIOUS
<1>3. PICK operation : operation = doc.resources[y.resource].calls[y.method]
  OBVIOUS
<1>4. UNCHANGED <<setup, auth>> /\ phase = "ready"
  <2>1. CASE Begin(c)
    BY <2>1 DEF Begin
  <2>2. CASE ~Begin(c)
    BY <1>1, <2>2, Authenticates, TokenTells, Dispatches DEF Acts, SameCall, StartInv
  <2> QED BY <2>1, <2>2
<1>5. SUFFICES RequestInv(operation, y)
  <2>1. RequestInv(operation, y)' = RequestInv(operation, y)
    BY <1>4, RequestStays
  <2>2. Operation(c)' = operation /\ call'[c] = y
    BY <1>2, <1>3, <1>4 DEF Operation, R
  <2> QED BY <1>5, <2>1, <2>2
<1>6. CASE Begin(c)
  <2>1. y.pc = "auth"
    BY <1>1, <1>2, <1>6, Begins DEF Begun
  <2>2. /\ y.todo = Chosen(operation)
        /\ \A s \in Chosen(operation) : TerraformName[s] \in DOMAIN auth
        /\ y.headers = <<>> /\ y.query = <<>>
    BY <1>1, <1>2, <1>3, <1>6, <2>1, Begins
  <2> QED BY <1>1, <1>4, <2>1, <2>2, BeginRequest
<1>7. CASE ~Begin(c)
  <2>1. SameCall(c) /\ Begun(c)
    BY <1>1, <1>7, Authenticates, TokenTells, Dispatches DEF Acts, Begun
  <2>2. operation = Operation(c) /\ RequestInv(operation, call[c])
    BY <1>1, <1>2, <1>3, <2>1 DEF SameCall, Operation, R
  <2>3. y.pc \in {"auth", "refresh", "sent"}
    BY <1>2 DEF Begun
  <2>4. CASE Authenticate(c)
    <3>1. call[c].pc = "auth" /\ \E s, d : Authenticated(c, s, d)
      BY <1>1, <1>2, <2>3, <2>4, Authenticates
    <3>2. PICK s, d : Authenticated(c, s, d)
      BY <3>1
    <3>3. PICK x : x = call[c]
      OBVIOUS
    <3>4. /\ s \in x.todo /\ d = Stands(s) /\ ~Missing(d) /\ y.todo = x.todo \ {s}
          /\ x.pc = "auth" /\ RequestInv(operation, x)
          /\ \/ /\ doc.defs[d].kind = "refresh"
                /\ y.pc = "refresh" /\ y.headers = x.headers /\ y.query = x.query
             \/ /\ doc.defs[d].kind # "refresh" /\ doc.defs[d].in = "query"
                /\ y.pc = "auth" /\ y.headers = x.headers
                /\ y.query = Append(x.query, <<Place(d), Text(TerraformName[s])>>)
             \/ /\ doc.defs[d].kind # "refresh" /\ doc.defs[d].in # "query"
                /\ y.pc = "auth" /\ y.query = x.query
                /\ y.headers = With(x.headers, Place(d), Text(TerraformName[s]))
      BY <1>2, <2>2, <3>1, <3>2, <3>3 DEF Authenticated, Stands
    <3> QED BY <1>1, <1>4, <3>4, AuthenticateRequest
  <2>5. CASE TokenAnswered(c)
    <3>1. /\ call[c].pc = "refresh" /\ y.pc = "auth" /\ issued' = issued + 1
          /\ y.todo = call[c].todo /\ y.query = call[c].query
          /\ y.headers = With(call[c].headers, Authorization, Token(issued'))
      BY <1>1, <1>2, <2>3, <2>5, TokenTells
    <3>2. PICK x, n : x = call[c] /\ n = issued
      OBVIOUS
    <3>3. /\ n \in Nat /\ RequestInv(operation, x) /\ x.pc = "refresh"
          /\ y.headers = With(x.headers, Authorization, Token(n + 1))
      BY <1>1, <2>2, <3>1, <3>2
    <3> QED BY <1>1, <1>4, <3>1, <3>2, <3>3, TokenRequest
  <2>6. CASE Dispatch(c)
    <3>1. /\ call[c].pc = "auth" /\ call[c].todo = {} /\ ~HeaderMissing(c)
          /\ y.pc = "sent" /\ y.todo = {} /\ y.query = call[c].query
          /\ y.headers = Headers(c)
      BY <1>1, <1>2, <2>3, <2>6, Dispatches
    <3> QED BY <1>1, <1>4, <2>1, <2>2, <3>1, DispatchRequest
  <2> QED BY <1>7, <2>4, <2>5, <2>6 DEF Acts
<1> QED BY <1>6, <1>7

\* Token numbers of a caller's request after its step.
LEMMA TokenSteps ==
    ASSUME CredentialInv, NEW c \in Callers, Acts(c), Begun(c)',
           NEW n \in DOMAIN call'[c].headers
    PROVE  \/ call'[c].headers[n].token = 0
           \/ /\ Begun(c) /\ n \in DOMAIN call[c].headers
              /\ call'[c].headers[n].token = call[c].headers[n].token
           \/ issued' = issued + 1 /\ call'[c].headers[n].token = issued + 1
<1>1. StartInv /\ issued \in Nat
  BY DEF CredentialInv, TokenInv
<1>2. \A p : Text(p).token = 0
  BY DEF Text
<1>3. \A k : Token(k).token = k
  BY DEF Token
<1>4. call'[c].pc \in {"auth", "refresh", "sent"}
  BY DEF Begun
<1>5. CASE Begin(c)
  <2>1. call'[c].headers = <<>>
    BY <1>1, <1>4, <1>5, Begins
  <2> QED BY <2>1
<1>6. CASE Authenticate(c)
  <2>1. Begun(c) /\ \E s, d : Authenticated(c, s, d)
    BY <1>1, <1>4, <1>6, Authenticates DEF Begun
  <2>2. PICK s, d : Authenticated(c, s, d)
    BY <2>1
  <2>3. \/ call'[c].headers = call[c].headers
        \/ call'[c].headers = With(call[c].headers, Place(d), Text(TerraformName[s]))
    BY <2>2 DEF Authenticated
  <2> QED BY <1>2, <2>1, <2>3 DEF With
<1>7. CASE TokenAnswered(c)
  <2>1. /\ Begun(c) /\ issued' = issued + 1
        /\ call'[c].headers = With(call[c].headers, Authorization, Token(issued'))
    BY <1>1, <1>4, <1>7, TokenTells DEF Begun
  <2> QED BY <1>3, <2>1 DEF With
<1>8. CASE Dispatch(c)
  <2>1. Begun(c) /\ call'[c].headers = Headers(c)
    BY <1>1, <1>4, <1>8, Dispatches DEF Begun
  <2>2. CASE n \in OwnNames(Operation(c))
    <3>1. \E h \in Operation(c).headers : Headers(c)[n] = Text(h.property)
      BY <2>2, OwnHeaders
    <3> QED BY <1>2, <2>1, <3>1
  <2>3. CASE n \notin OwnNames(Operation(c))
    <3>1. n \in DOMAIN call[c].headers
      <4>1. n \in DOMAIN Headers(c)
        BY <2>1
      <4> QED BY <2>3, <4>1, OwnHeaders
    <3>2. Headers(c)[n] = call[c].headers[n]
      BY <2>3, <3>1, OwnHeaders
    <3> QED BY <2>1, <3>1, <3>2
  <2> QED BY <2>2, <2>3
<1> QED BY <1>5, <1>6, <1>7, <1>8 DEF Acts

LEMMA CallTokenInv ==
    ASSUME CredentialInv, NEW c \in Callers, Acts(c)
    PROVE  TokenInv'
<1>1. StartInv /\ issued \in Nat
  BY DEF CredentialInv, TokenInv
<1>2. /\ \A d \in Callers : d # c => call'[d] = call[d]
      /\ issued' \in {issued, issued + 1}
  <2>1. CASE Begin(c)
    BY <1>1, <2>1, Begins, OtherCalls DEF Begin
  <2>2. CASE ~Begin(c)
    <3>1. \E x : call' = [call EXCEPT ![c] = x]
      BY <1>1, <2>2, Authenticates, TokenTells, Dispatches DEF Acts, SameCall
    <3>2. issued' \in {issued, issued + 1}
      BY <1>1, <2>2, Authenticates, TokenTells, Dispatches DEF Acts
    <3> QED BY <1>1, <3>1, <3>2, OtherCalls
  <2> QED BY <2>1, <2>2
<1> DEFINE token(d, n) == call[d].headers[n].token
\* What is carried now was carried before, or is new, or is no token.
<1>3. ASSUME NEW d \in Callers, Begun(d)', NEW n \in DOMAIN call'[d].headers
      PROVE  \/ call'[d].headers[n].token = 0
             \/ /\ Begun(d) /\ n \in DOMAIN call[d].headers
                /\ call'[d].headers[n].token = token(d, n)
             \/ /\ d = c /\ issued' = issued + 1
                /\ call'[d].headers[n].token = issued + 1
  <2>1. CASE d = c
    BY <1>3, <2>1, TokenSteps
  <2>2. CASE d # c
    BY <1>2, <1>3, <2>2 DEF Begun
  <2> QED BY <2>1, <2>2
<1>4. ASSUME NEW d \in Callers, Begun(d), NEW n \in DOMAIN call[d].headers
      PROVE  token(d, n) \in 0..issued
  BY <1>4 DEF CredentialInv, TokenInv
<1>5. ASSUME NEW d \in Callers, Begun(d)', NEW n \in DOMAIN call'[d].headers
      PROVE  call'[d].headers[n].token \in 0..issued'
  <2>1. CASE /\ Begun(d) /\ n \in DOMAIN call[d].headers
             /\ call'[d].headers[n].token = token(d, n)
    <3> HIDE DEF token
    <3>1. token(d, n) \in 0..issued
      BY <1>4, <2>1
    <3> QED BY <1>1, <1>2, <2>1, <3>1
  <2> QED BY <1>1, <1>2, <1>3, <1>5, <2>1
<1>6. ASSUME NEW d \in Callers, Begun(d)', NEW n \in DOMAIN call'[d].headers,
             NEW e \in Callers \ {d}, Begun(e)', NEW m \in DOMAIN call'[e].headers,
             call'[d].headers[n].token = call'[e].headers[m].token
      PROVE  call'[d].headers[n].token = 0
  <2>1. CASE /\ Begun(d) /\ n \in DOMAIN call[d].headers
             /\ call'[d].headers[n].token = token(d, n)
             /\ Begun(e) /\ m \in DOMAIN call[e].headers
             /\ call'[e].headers[m].token = token(e, m)
    BY <1>6, <2>1 DEF CredentialInv, TokenInv
  <2>2. CASE /\ Begun(d) /\ n \in DOMAIN call[d].headers
             /\ call'[d].headers[n].token = token(d, n)
             /\ call'[e].headers[m].token = issued + 1
    <3>1. token(d, n) \in 0..issued
      BY <1>4, <2>2
    <3>2. token(d, n) = issued + 1
      BY <1>6, <2>2
    <3> HIDE DEF token
    <3> QED BY <1>1, <3>1, <3>2
  <2>3. CASE /\ Begun(e) /\ m \in DOMAIN call[e].headers
             /\ call'[e].headers[m].token = token(e, m)
             /\ call'[d].headers[n].token = issued + 1
    <3>1. token(e, m) \in 0..issued
      BY <1>4, <2>3
    <3> HIDE DEF token
    <3> QED BY <1>1, <1>6, <2>3, <3>1
  <2>4. /\ \/ call'[d].headers[n].token = 0
           \/ /\ Begun(d) /\ n \in DOMAIN call[d].headers
              /\ call'[d].headers[n].token = token(d, n)
           \/ d = c /\ call'[d].headers[n].token = issued + 1
        /\ \/ call'[e].headers[m].token = 0
           \/ /\ Begun(e) /\ m \in DOMAIN call[e].headers
              /\ call'[e].headers[m].token = token(e, m)
           \/ e = c /\ call'[e].headers[m].token = issued + 1
    BY <1>3, <1>6
  <2> HIDE DEF token
  <2> QED BY <1>6, <2>1, <2>2, <2>3, <2>4
<1>7. issued' \in Nat
  BY <1>1, <1>2
<1> QED BY <1>5, <1>6, <1>7 DEF TokenInv

LEMMA NextCredentialInv == CredentialInv /\ [Next]_vars => CredentialInv'
<1> SUFFICES ASSUME CredentialInv, [Next]_vars PROVE CredentialInv'
  OBVIOUS
<1>1. StartInv /\ StartInv'
  BY NextStartInv DEF CredentialInv
<1>2. CASE CreateProvider \/ ConfigureProvider
  <2>1. \A c \in Callers : ~Begun(c)'
    BY <1>1, <1>2 DEF CreateProvider, ConfigureProvider, StartInv, Begun
  <2>2. issued' \in Nat
    BY <1>2 DEF CreateProvider, ConfigureProvider, CredentialInv, TokenInv
  <2> QED BY <1>1, <2>1, <2>2 DEF CredentialInv, TokenInv
<1>3. ASSUME NEW c \in Callers, Acts(c) PROVE CredentialInv'
  <2>1. TokenInv'
    BY <1>3, CallTokenInv
  <2>2. ASSUME NEW d \in Callers, Begun(d)'
        PROVE  RequestInv(Operation(d), call[d])'
    <3>1. CASE d = c
      BY <1>3, <2>2, <3>1, RequestSteps
    <3>2. CASE d # c
      <4>1. UNCHANGED <<setup, auth>> /\ call'[d] = call[d]
        <5>1. CASE Begin(c)
          BY <1>1, <3>2, <5>1, Begins, OtherCalls DEF Begin
        <5>2. CASE ~Begin(c)
          <6>1. SameCall(c)
            BY <1>1, <1>3, <5>2, Authenticates, TokenTells, Dispatches DEF Acts
          <6> QED BY <1>1, <3>2, <6>1, OtherCalls DEF SameCall
        <5> QED BY <5>1, <5>2
      <4>2. RequestInv(Operation(d), call[d])
        BY <2>2, <4>1 DEF CredentialInv, Begun
      <4>3. PICK operation, x : operation = Operation(d) /\ x = call[d]
        OBVIOUS
      <4>4. RequestInv(operation, x)' = RequestInv(operation, x)
        BY <4>1, RequestStays
      <4>5. Operation(d)' = operation /\ call'[d] = x
        BY <4>1, <4>3 DEF Operation, R
      <4> QED BY <4>2, <4>3, <4>4, <4>5
    <3> QED BY <3>1, <3>2
  <2> QED BY <1>1, <2>1, <2>2 DEF CredentialInv
<1>4. CASE UNCHANGED vars
  <2>1. UNCHANGED <<setup, auth, call, issued>>
    BY <1>4 DEF vars
  <2>2. ASSUME NEW d \in Callers, Begun(d)'
        PROVE  RequestInv(Operation(d), call[d])'
    <3>1. RequestInv(Operation(d), call[d])
      BY <2>1, <2>2 DEF CredentialInv, Begun
    <3>2. PICK operation, x : operation = Operation(d) /\ x = call[d]
      OBVIOUS
    <3>3. RequestInv(operation, x)' = RequestInv(operation, x)
      BY <2>1, RequestStays
    <3>4. Operation(d)' = operation /\ call'[d] = x
      BY <2>1, <3>2 DEF Operation, R
    <3> QED BY <3>1, <3>2, <3>3, <3>4
  <2>3. TokenInv'
    BY <2>1 DEF CredentialInv, TokenInv, Begun
  <2> QED BY <1>1, <2>2, <2>3 DEF CredentialInv
<1> QED BY <1>2, <1>3, <1>4 DEF Next, Acts

LEMMA CredentialInvDecides ==
    ASSUME CredentialInv
    PROVE  CredentialsAreMeant
<1> SUFFICES ASSUME NEW c \in Callers, Sent(c)
             PROVE  CredentialsComplete(c) /\ OthersOverridden(c)
  BY DEF CredentialsAreMeant
<1> DEFINE operation == Operation(c)
           x == call[c]
<1>1. /\ StartInv /\ phase = "ready" /\ Begun(c) /\ x.pc = "sent" /\ x.todo = {}
      /\ RequestInv(operation, x)
  BY DEF CredentialInv, StartInv, Begun, Sent, RequestInv
<1>2. \A t \in Chosen(operation) : TerraformName[t] \in DOMAIN auth
  BY <1>1 DEF RequestInv
<1>3. ASSUME NEW s \in Asked(operation), ~Contended(c, s)
      PROVE  /\ Carries(c, s)
             /\ Value(TerraformName[s]) # ""
                   \/ (doc.defs[s].kind = "bearer" /\ doc.defs[s].in = "header")
  <2>1. ~Clashes(operation, s)
    BY <1>3 DEF Clashes, Contended
  <2>2. Written(x, s) /\ ~Missing(s)
    BY <1>1, <1>3, <2>1 DEF RequestInv
  <2>3. CASE doc.defs[s].in = "query"
    <3>1. x.query = <<<<Place(s), Text(TerraformName[s])>>>>
      BY <1>1, <2>2, <2>3 DEF Written
    <3>2. Read(x.query) = {<<Place(s), Text(TerraformName[s])>>}
      BY <3>1 DEF Read
    <3> QED BY <2>2, <2>3, <3>2 DEF Carries, Missing
  <2>4. CASE doc.defs[s].in # "query" /\ doc.defs[s].kind = "refresh"
    <3>1. Place(s) \in DOMAIN x.headers /\ x.headers[Place(s)].token > 0
      BY <1>1, <2>2, <2>4 DEF Written
    <3>2. \A d \in Callers \ {c} : Sent(d) =>
             \A n \in DOMAIN call[d].headers :
                call[d].headers[n].token # x.headers[Place(s)].token
      BY <1>1, <3>1 DEF CredentialInv, TokenInv, Begun, Sent
    <3> QED BY <2>2, <2>4, <3>1, <3>2 DEF Carries, Missing
  <2>5. CASE doc.defs[s].in # "query" /\ doc.defs[s].kind # "refresh"
    BY <1>1, <2>2, <2>5 DEF Written, Carries, Missing
  <2> QED BY <2>3, <2>4, <2>5
<1>4. CredentialsComplete(c)
  BY <1>1, <1>3 DEF CredentialsComplete, RequestInv
<1>5. ASSUME FirstSchemes(operation.security) # {}
      PROVE  LET own == {Place(d) : d \in {e \in ApiKeys :
                           \E s \in FirstSchemes(operation.security) :
                              TerraformName[e] = TerraformName[s]}}
             IN /\ DOMAIN x.headers \subseteq own \cup OwnNames(operation)
                /\ {x.query[i][1] : i \in DOMAIN x.query} \subseteq own
  <2> DEFINE own == {Place(d) : d \in {e \in ApiKeys :
                       \E s \in FirstSchemes(operation.security) :
                          TerraformName[e] = TerraformName[s]}}
  <2>1. Chosen(operation) = FirstSchemes(operation.security)
    BY <1>5 DEF Chosen
  <2>2. ASSUME NEW s \in Chosen(operation)
        PROVE  Place(Stands(s)) \in own
    <3>1. Stands(s) \in ApiKeys /\ TerraformName[Stands(s)] = TerraformName[s]
      BY <1>1, <1>2, StandsFor DEF StartInv
    <3> QED BY <2>1, <3>1
  <2>3. Places(operation) \subseteq own
    BY <2>2 DEF Places
  <2>4. ASSUME NEW i \in DOMAIN x.query
        PROVE  x.query[i][1] \in own
    <3>1. x.query \in Seq(Answers(operation))
      BY <1>1 DEF RequestInv
    <3>2. x.query[i] \in Answers(operation)
      BY <3>1
    <3>3. PICK s \in Chosen(operation) :
             x.query[i] = <<Place(Stands(s)), Text(TerraformName[s])>>
      BY <3>2 DEF Answers
    <3>4. x.query[i][1] = Place(Stands(s))
      BY <3>3
    <3> QED BY <2>2, <3>4
  <2>5. DOMAIN x.headers \subseteq Places(operation) \cup OwnNames(operation)
    BY <1>1 DEF RequestInv
  <2> HIDE DEF own
  <2>6. {x.query[i][1] : i \in DOMAIN x.query} \subseteq own
    BY <2>4
  <2> QED BY <2>3, <2>5, <2>6 DEF own
<1>6. OthersOverridden(c)
  BY <1>5 DEF OthersOverridden, OwnNames
<1> QED BY <1>4, <1>6

(***************************************************************************)
(* CredentialsAreMeant: whatever the security sections and however many    *)
(* calls are under way, a request carries its operation's credentials,     *)
(* valued or fetched for it alone, and no others (prepareAuth,             *)
(* appendOperationHeaders).                                                *)
(***************************************************************************)
THEOREM RequestsCarryWhatIsMeant == Spec => []CredentialsAreMeant
<1>1. CredentialInv => CredentialsAreMeant
  BY CredentialInvDecides
<1> QED BY <1>1, InitCredentialInv, NextCredentialInv, PTL DEF Spec

-----------------------------------------------------------------------------
(* Which objects they are about                                            *)

\* The parameters of a path stand between its words.
Plain(path) ==
    \A i \in 1..Len(path) :
        path[i] \in Params => i + 1 \in 1..Len(path) /\ path[i + 1] \notin Params
ParamsAt(path) == {i \in 1..Len(path) : path[i] \in Params}

\* The expression misses no parameter of such a path.
LEMMA MatchesAll ==
    ASSUME NEW path, Len(path) \in Nat, Plain(path)
    PROVE  Matches(path) = Ascending(ParamsAt(path))
<1> DEFINE F(g) == [i \in 0..Len(path) |->
                       /\ i > 0
                       /\ path[i] \in Params
                       /\ i < Len(path)
                       /\ ~g[i - 1]]
           w == [i \in 0..Len(path) |-> i > 0 /\ path[i] \in Params]
           match == CHOOSE g : g = F(g)
<1>1. \A i \in 0..Len(path) : i > 0 /\ path[i] \in Params =>
         i < Len(path) /\ i - 1 \in 0..Len(path) /\ (i - 1 > 0 => path[i - 1] \notin Params)
  <2> SUFFICES ASSUME NEW i \in 0..Len(path), i > 0, path[i] \in Params
               PROVE  i < Len(path) /\ i - 1 \in 0..Len(path)
                      /\ (i - 1 > 0 => path[i - 1] \notin Params)
    OBVIOUS
  <2>1. i + 1 \in 1..Len(path)
    BY DEF Plain
  <2>2. i - 1 > 0 /\ path[i - 1] \in Params => path[(i - 1) + 1] \notin Params
    BY DEF Plain
  <2>3. (i - 1) + 1 = i
    OBVIOUS
  <2> QED BY <2>1, <2>2, <2>3
<1>2. w = F(w)
  <2>1. \A i \in 0..Len(path) :
           (i > 0 /\ path[i] \in Params)
              <=> (i > 0 /\ path[i] \in Params /\ i < Len(path) /\ ~w[i - 1])
    <3> TAKE i \in 0..Len(path)
    <3>1. CASE i > 0 /\ path[i] \in Params
      <4>1. i < Len(path) /\ i - 1 \in 0..Len(path)
            /\ (i - 1 > 0 => path[i - 1] \notin Params)
        BY <1>1, <3>1
      <4>2. ~w[i - 1]
        BY <4>1
      <4> QED BY <3>1, <4>1, <4>2
    <3> QED BY <3>1
  <2> QED BY <2>1, Zenon
<1>3. match = F(match)
  <2> HIDE DEF F, w
  <2> QED BY <1>2
<1> HIDE DEF match
<1>4. \A i \in 0..Len(path) :
         match[i] <=> /\ i > 0 /\ path[i] \in Params
                      /\ i < Len(path) /\ ~match[i - 1]
  <2> TAKE i \in 0..Len(path)
  <2>1. match[i] = F(match)[i]
    BY <1>3
  <2> QED BY <2>1
<1>5. {i \in 1..Len(path) : match[i]} = ParamsAt(path)
  <2>1. \A i \in 1..Len(path) : match[i] <=> path[i] \in Params
    <3> TAKE i \in 1..Len(path)
    <3>1. i \in 0..Len(path) /\ i > 0
      OBVIOUS
    <3>2. CASE path[i] \in Params
      <4>1. i < Len(path) /\ i - 1 \in 0..Len(path)
            /\ (i - 1 > 0 => path[i - 1] \notin Params)
        BY <1>1, <3>1, <3>2
      <4>2. ~match[i - 1]
        BY <1>4, <4>1
      <4> QED BY <1>4, <3>1, <3>2, <4>1, <4>2
    <3>3. CASE path[i] \notin Params
      BY <1>4, <3>1, <3>3
    <3> QED BY <3>2, <3>3
  <2> QED BY <2>1, Zenon DEF ParamsAt
<1>6. Matches(path) = Ascending({i \in 1..Len(path) : match[i]})
  BY DEF Matches, match
<1> QED BY <1>5, <1>6

\* Step by step, each parameter gives way to its own identifier, since those before
\* it have gone: the first that is left is the one that is meant.
LEMMA ReplacesInPlace ==
    ASSUME NEW W, NEW path \in Seq(W), Plain(path),
           NEW ids, \A k \in 1..Cardinality(ParamsAt(path)) : ids[k] \notin Params
    PROVE  /\ Replaced(path, ids) = [i \in 1..Len(path) |-> Replaced(path, ids)[i]]
           /\ \A k \in 1..Cardinality(ParamsAt(path)) :
                 Replaced(path, ids)[Ascending(ParamsAt(path))[k]] = ids[k]
           /\ \A i \in 1..Len(path) :
                 path[i] \notin Params => Replaced(path, ids)[i] = path[i]
<1> DEFINE at == Ascending(ParamsAt(path))
           n == Cardinality(ParamsAt(path))
           turn(i) == CHOOSE j \in 1..n : at[j] = i
           done(k) == [i \in 1..Len(path) |->
                         IF \E j \in 1..k : at[j] = i THEN ids[turn(i)] ELSE path[i]]
<1>1. /\ n \in Nat /\ at \in [1..n -> ParamsAt(path)] /\ Matches(path) = at
      /\ \A i \in ParamsAt(path) : \E k \in 1..n : at[k] = i
      /\ \A j, k \in 1..n : j < k => at[j] < at[k]
  <2>1. ParamsAt(path) \in SUBSET (1..Len(path)) /\ IsFiniteSet(1..Len(path))
    BY FS_Interval DEF ParamsAt
  <2>2. IsFiniteSet(ParamsAt(path)) /\ ParamsAt(path) \in SUBSET Nat
    BY <2>1, FS_Subset
  <2> QED BY <2>2, Ascends, MatchesAll
<1>2. Len(at) = n
  BY <1>1
<1>0. \A k \in 1..n : ids[k] \notin Params
  OBVIOUS
<1> HIDE DEF at, n
<1>3. \A k \in 1..n : at[k] \in 1..Len(path) /\ path[at[k]] \in Params
  BY <1>1 DEF ParamsAt
<1>4. \A i \in 1..Len(path) : path[i] \in Params => \E k \in 1..n : at[k] = i
  BY <1>1 DEF ParamsAt
<1>5. \A j \in 1..n : turn(at[j]) = j
  <2> SUFFICES ASSUME NEW j \in 1..n PROVE turn(at[j]) = j
    OBVIOUS
  <2>1. \A k \in 1..n : at[k] = at[j] => k = j
    <3> SUFFICES ASSUME NEW k \in 1..n, at[k] = at[j], k # j PROVE FALSE
      OBVIOUS
    <3>1. k < j \/ j < k
      BY <1>1
    <3>2. at[k] \in Nat /\ at[j] \in Nat
      BY <1>3
    <3> QED BY <1>1, <3>1, <3>2
  <2> QED BY <2>1
<1> HIDE DEF turn
\* One replacement.
<1>6. \A k \in 1..n : WithFirst(done(k - 1), path[at[k]], ids[k]) = done(k)
  <2> SUFFICES ASSUME NEW k \in 1..n
               PROVE  WithFirst(done(k - 1), path[at[k]], ids[k]) = done(k)
    OBVIOUS
  <2>0. k - 1 \in 0..n /\ k \in Nat /\ n \in Nat
    BY <1>1
  <2>1. \A i \in 1..Len(path) :
           i = at[k] <=> /\ done(k - 1)[i] = path[at[k]]
                         /\ \A j \in 1..(i - 1) : done(k - 1)[j] # path[at[k]]
    <3>1. done(k - 1)[at[k]] = path[at[k]]
      <4>1. \A j \in 1..(k - 1) : at[j] # at[k]
        <5> TAKE j \in 1..(k - 1)
        <5>1. j \in 1..n /\ j # k
          BY <2>0
        <5> QED BY <1>5, <5>1
      <4> QED BY <1>3, <4>1
    <3>2. \A j \in 1..Len(path) : j < at[k] => done(k - 1)[j] # path[at[k]]
      <4> SUFFICES ASSUME NEW j \in 1..Len(path), j < at[k]
                   PROVE  done(k - 1)[j] # path[at[k]]
        OBVIOUS
      <4>1. CASE \E l \in 1..(k - 1) : at[l] = j
        <5>1. PICK l \in 1..(k - 1) : at[l] = j
          BY <4>1
        <5>2. l \in 1..n
          BY <2>0
        <5>3. done(k - 1)[j] = ids[l]
          BY <1>5, <5>1, <5>2, <4>1
        <5> QED BY <1>0, <1>3, <5>2, <5>3
      <4>2. CASE ~ \E l \in 1..(k - 1) : at[l] = j
        <5>1. path[j] \notin Params
          <6> SUFFICES ASSUME path[j] \in Params PROVE FALSE
            OBVIOUS
          <6>1. PICK l \in 1..n : at[l] = j
            BY <1>4
          <6>2. ~(l \in 1..(k - 1))
            BY <4>2, <6>1
          <6>3. k = l \/ k < l
            BY <2>0, <6>2
          <6>4. at[k] \in Nat /\ at[l] \in Nat
            BY <1>3, <6>1
          <6>5. k < l => at[k] < at[l]
            BY <1>1
          <6> QED BY <6>1, <6>3, <6>4, <6>5
        <5>2. done(k - 1)[j] = path[j]
          BY <4>2
        <5> QED BY <1>3, <5>1, <5>2
      <4> QED BY <4>1, <4>2
    <3> HIDE DEF done
    <3> TAKE i \in 1..Len(path)
    <3>3. at[k] \in 1..Len(path)
      BY <1>3
    <3>4. CASE i = at[k]
      <4>1. \A j \in 1..(i - 1) : j \in 1..Len(path) /\ j < at[k]
        BY <3>3, <3>4
      <4> QED BY <3>1, <3>2, <3>4, <4>1
    <3>5. CASE i < at[k]
      BY <3>2, <3>3, <3>5
    <3>6. CASE at[k] < i
      <4>1. at[k] \in 1..(i - 1) /\ i # at[k]
        BY <3>3, <3>6
      <4> QED BY <3>1, <4>1
    <3> QED BY <3>3, <3>4, <3>5, <3>6
  <2>2. \A i \in 1..Len(path) :
           done(k)[i] = IF i = at[k] THEN ids[k] ELSE done(k - 1)[i]
    <3> TAKE i \in 1..Len(path)
    <3>1. (\E j \in 1..k : at[j] = i) <=> (i = at[k] \/ \E j \in 1..(k - 1) : at[j] = i)
      <4>1. \A j : j \in 1..k <=> j = k \/ j \in 1..(k - 1)
        BY <2>0
      <4> QED BY <4>1
    <3>2. CASE i = at[k]
      <4>1. turn(i) = k
        BY <1>5, <3>2
      <4>2. done(k)[i] = ids[turn(i)]
        BY <3>1, <3>2
      <4> QED BY <3>2, <4>1, <4>2
    <3>3. CASE i # at[k]
      BY <3>1, <3>3
    <3> QED BY <3>2, <3>3
  <2>3. DOMAIN done(k - 1) = 1..Len(path) /\ done(k) = [i \in 1..Len(path) |-> done(k)[i]]
    OBVIOUS
  <2> HIDE DEF done
  <2> QED BY <2>1, <2>2, <2>3 DEF WithFirst
<1> DEFINE F(g) == [k \in 0..n |->
                       IF k = 0 THEN path ELSE WithFirst(g[k - 1], path[at[k]], ids[k])]
           w == [k \in 0..n |-> done(k)]
           after == CHOOSE g : g = F(g)
<1>7. done(0) = path
  <2>1. ~ \E j \in 1..0 : TRUE
    OBVIOUS
  <2> QED BY <2>1
<1> HIDE DEF done
<1>8. after = F(after)
  <2>1. \A k \in 0..n :
           w[k] = IF k = 0 THEN path ELSE WithFirst(w[k - 1], path[at[k]], ids[k])
    <3> TAKE k \in 0..n
    <3>1. CASE k = 0
      BY <1>7, <3>1
    <3>2. CASE k # 0
      <4>1. k \in 1..n /\ k - 1 \in 0..n
        BY <1>1, <3>2
      <4>2. w[k - 1] = done(k - 1) /\ w[k] = done(k)
        BY <4>1
      <4> HIDE DEF w
      <4> QED BY <1>6, <3>2, <4>1, <4>2
    <3> QED BY <3>1, <3>2
  <2>2. w = [k \in 0..n |-> w[k]]
    OBVIOUS
  <2> HIDE DEF w
  <2>3. w = F(w)
    BY <2>1, <2>2
  <2> HIDE DEF F
  <2> QED BY <2>3
<1> HIDE DEF after, w
<1>9. \A k \in 0..n :
         after[k] = IF k = 0 THEN path ELSE WithFirst(after[k - 1], path[at[k]], ids[k])
  <2> TAKE k \in 0..n
  <2>1. after[k] = F(after)[k]
    BY <1>8
  <2> QED BY <2>1
<1> HIDE DEF F
<1>10. \A k \in 0..n : after[k] = done(k)
  <2> DEFINE Bad == {k \in 0..n : after[k] # done(k)}
  <2>1. SUFFICES ASSUME Bad # {} PROVE FALSE
    OBVIOUS
  <2>2. PICK k \in Bad : \A j \in Bad : k <= j
    <3>1. Bad \in SUBSET Nat
      OBVIOUS
    <3> HIDE DEF Bad
    <3> QED BY <2>1, <3>1, LeastIsThere
  <2>3. k \in 0..n /\ after[k] # done(k)
    OBVIOUS
  <2>4. k # 0
    BY <1>7, <1>9, <2>3
  <2>5. k \in 1..n /\ k - 1 \in 0..n /\ ~(k <= k - 1)
    BY <1>1, <2>3, <2>4
  <2>6. k - 1 \notin Bad
    BY <2>2, <2>5
  <2>7. after[k - 1] = done(k - 1)
    BY <2>5, <2>6
  <2> QED BY <1>6, <1>9, <2>3, <2>4, <2>5, <2>7
<1>11. Replaced(path, ids) = done(n)
  <2>1. Replaced(path, ids) = after[n]
    BY <1>1, <1>2 DEF Replaced, after, F
  <2>2. n \in 0..n
    BY <1>1
  <2> QED BY <1>10, <2>1, <2>2
<1>12. \A k \in 1..n : done(n)[at[k]] = ids[k]
  BY <1>3, <1>5 DEF done
<1>13. \A i \in 1..Len(path) : path[i] \notin Params => done(n)[i] = path[i]
  BY <1>3 DEF done
<1>14. done(n) = [i \in 1..Len(path) |-> done(n)[i]]
  BY DEF done
<1> QED BY <1>11, <1>12, <1>13, <1>14 DEF at, n

\* The path of a request that has been begun is that of its resource, with the
\* identifiers the call was made with.
PathInv ==
    /\ StartInv
    /\ \A c \in Callers : Begun(c) => Addressed(call[c], R(c))

LEMMA InitPathInv == Init => PathInv
<1> SUFFICES ASSUME Init PROVE PathInv
  OBVIOUS
<1>1. StartInv
  BY InitStartInv
<1> QED BY <1>1 DEF Init, PathInv, Begun, Idle

LEMMA NextPathInv == PathInv /\ [Next]_vars => PathInv'
<1> SUFFICES ASSUME PathInv, [Next]_vars PROVE PathInv'
  OBVIOUS
<1>1. StartInv /\ StartInv'
  BY NextStartInv DEF PathInv
<1>2. CASE UNCHANGED <<setup, call>>
  <2>1. \A d \in Callers : Begun(d)' => Begun(d) /\ R(d)' = R(d) /\ call'[d] = call[d]
    BY <1>2 DEF Begun, R
  <2>2. \A d \in Callers : Begun(d)' => Addressed(call[d], R(d))'
    <3> SUFFICES ASSUME NEW d \in Callers, Begun(d)' PROVE Addressed(call[d], R(d))'
      OBVIOUS
    <3>1. Addressed(call[d], R(d)) /\ UNCHANGED setup
      BY <1>2, <2>1 DEF PathInv
    <3> QED BY <1>2, <2>1, <3>1 DEF Addressed, Path
  <2> QED BY <1>1, <2>2 DEF PathInv
<1>3. ASSUME NEW c \in Callers, Acts(c) PROVE PathInv'
  <2>1. /\ UNCHANGED setup
        /\ \E x : call' = [call EXCEPT ![c] = x]
    BY <1>1, <1>3, Begins, Authenticates, TokenTells, Dispatches
       DEF Acts, Begin, SameCall
  <2>2. \A d \in Callers : d # c => call'[d] = call[d]
    BY <1>1, <2>1, OtherCalls
  <2>3. \A d \in Callers : d # c /\ Begun(d)' => Addressed(call[d], R(d))'
    <3> SUFFICES ASSUME NEW d \in Callers, d # c, Begun(d)' PROVE Addressed(call[d], R(d))'
      OBVIOUS
    <3>1. Begun(d) /\ R(d)' = R(d) /\ call'[d] = call[d]
      BY <2>1, <2>2 DEF Begun, R
    <3>2. Addressed(call[d], R(d))
      BY <3>1 DEF PathInv
    <3> QED BY <2>1, <3>1, <3>2 DEF Addressed, Path
  <2>4. Begun(c)' => Addressed(call[c], R(c))'
    <3> SUFFICES ASSUME Begun(c)' PROVE Addressed(call[c], R(c))'
      OBVIOUS
    <3>1. CASE Begin(c)
      <4>1. Addressed(call'[c], doc.resources[call'[c].resource])
        BY <1>1, <3>1, Begins DEF Begun
      <4> QED BY <2>1, <4>1 DEF R, Addressed, Path
    <3>2. CASE Authenticate(c) \/ TokenAnswered(c) \/ Dispatch(c)
      <4>1. SameCall(c) /\ Begun(c)
        BY <1>1, <3>2, Authenticates, TokenTells, Dispatches DEF Begun
      <4>2. Addressed(call[c], R(c)) /\ R(c)' = R(c)
        BY <4>1 DEF PathInv, SameCall, R
      <4> QED BY <4>1, <4>2 DEF SameCall, Addressed, Path
    <3> QED BY <1>3, <3>1, <3>2 DEF Acts
  <2> QED BY <1>1, <2>3, <2>4 DEF PathInv
<1>4. CreateProvider \/ ConfigureProvider => UNCHANGED <<setup, call>>
  BY DEF CreateProvider, ConfigureProvider
<1>5. UNCHANGED vars => UNCHANGED <<setup, call>>
  BY DEF vars
<1> QED BY <1>2, <1>3, <1>4, <1>5 DEF Next, Acts

LEMMA PathInvPlaces ==
    ASSUME PathInv, PlainPaths
    PROVE  ParentsInPlace
<1> SUFFICES ASSUME NEW c \in Callers, Sent(c)
             PROVE
        LET at == Ascending({i \in DOMAIN R(c).path : R(c).path[i] \in Params})
        IN /\ ToSet(call[c].path) \cap (Params \cup Slashed) = {}
           /\ \A k \in DOMAIN at :
                 call[c].path[Len(doc.base) + at[k]] =
                     call[c].parents[R(c).parents[k]]
           /\ call[c].method \notin Collective =>
                 Last(call[c].path) = call[c].id /\ call[c].id # ""
  BY DEF ParentsInPlace
<1> DEFINE r == R(c)
           path == r.path
           base == doc.base
           n == Cardinality(ParamsAt(path))
           at == Ascending(ParamsAt(path))
           ids == ParentIds(r, call[c].parents)
           replaced == Replaced(path, ids)
           tail == IF call[c].method \in Collective THEN <<>> ELSE <<call[c].id>>
<1>1. /\ Addressed(call[c], r) /\ setup \in Setups /\ r = doc.resources[call[c].resource]
      /\ call[c].resource \in DOMAIN doc.resources
  BY DEF PathInv, StartInv, Begun, Sent, R
<1>2. /\ IsPath(base) /\ IsPath(path) /\ r.parents \in Seq(ToSet(r.parents))
      /\ ToSet(base) \cap Params = {} /\ Params \cap Ids = {}
      /\ \A i \in DOMAIN path :
            path[i] \in Params => i + 1 \in DOMAIN path /\ path[i + 1] \notin Params
  BY <1>1, SetupsAssumption DEF PlainPaths
<1>3. /\ path \in Seq(ToSet(path)) /\ base \in Seq(ToSet(base))
      /\ ToSet(base) \cap (Params \cup Slashed) = {} /\ ToSet(path) \cap Slashed = {}
  BY <1>2 DEF IsPath
<1> HIDE DEF r, path, base
<1>4. Plain(path) /\ DOMAIN path = 1..Len(path)
  <2>1. DOMAIN path = 1..Len(path)
    BY <1>3
  <2> QED BY <1>2, <2>1 DEF Plain
<1>5. /\ n \in Nat /\ at \in [1..n -> ParamsAt(path)] /\ Matches(path) = at
      /\ \A i \in ParamsAt(path) : \E k \in 1..n : at[k] = i
  <2>1. ParamsAt(path) \in SUBSET (1..Len(path)) /\ IsFiniteSet(1..Len(path))
    BY <1>3, FS_Interval DEF ParamsAt
  <2>2. IsFiniteSet(ParamsAt(path)) /\ ParamsAt(path) \in SUBSET Nat
    BY <2>1, FS_Subset
  <2> QED BY <1>3, <1>4, <2>2, Ascends, MatchesAll
<1>6. at = Ascending({i \in DOMAIN path : path[i] \in Params})
  BY <1>4 DEF ParamsAt
<1>7. /\ ids = [k \in 1..Len(r.parents) |-> call[c].parents[r.parents[k]]]
      /\ \A k \in 1..Len(r.parents) : ids[k] \in Ids
      /\ Len(ids) = Len(r.parents) /\ Len(r.parents) \in Nat
  <2>1. DOMAIN r.parents = 1..Len(r.parents) /\ Len(r.parents) \in Nat
    BY <1>2
  <2>2. ids = [k \in 1..Len(r.parents) |-> call[c].parents[r.parents[k]]]
    BY <2>1 DEF ParentIds
  <2>3. \A k \in 1..Len(r.parents) : r.parents[k] \in ToSet(r.parents)
    BY <2>1 DEF ToSet
  <2>4. call[c].parents \in [ToSet(r.parents) -> Ids]
    BY <1>1 DEF Addressed
  <2> HIDE DEF ids
  <2> QED BY <2>1, <2>2, <2>3, <2>4
<1>8. /\ ~IdsMisfit(path, ids)
      /\ call[c].method \notin Collective =>
            call[c].id \in Ids /\ call[c].id \notin Slashed \cup {""}
      /\ call[c].path = base \o replaced \o tail
  BY <1>1 DEF Addressed, Path, path, base
<1> HIDE DEF ids
<1>9. \A k \in 1..n : k \in 1..Len(r.parents) /\ ids[k] \notin Params \cup Slashed
  <2> SUFFICES ASSUME NEW k \in 1..n
               PROVE  k \in 1..Len(r.parents) /\ ids[k] \notin Params \cup Slashed
    OBVIOUS
  <2>1. at # <<>> /\ Len(at) = n
    BY <1>5
  <2>2. Len(ids) = n /\ ToSet(ids) \cap Slashed = {}
    BY <1>5, <1>8, <2>1 DEF IdsMisfit
  <2>3. k \in 1..Len(r.parents) /\ k \in DOMAIN ids
    BY <1>7, <2>2
  <2>4. ids[k] \in ToSet(ids) /\ ids[k] \in Ids
    BY <1>7, <2>3 DEF ToSet
  <2> QED BY <1>2, <2>2, <2>3, <2>4
<1>10. /\ replaced = [i \in 1..Len(path) |-> replaced[i]]
       /\ \A k \in 1..n : replaced[at[k]] = ids[k]
       /\ \A i \in 1..Len(path) : path[i] \notin Params => replaced[i] = path[i]
  BY <1>3, <1>4, <1>9, ReplacesInPlace
<1> HIDE DEF n, at, replaced
<1>11. \A i \in 1..Len(path) : replaced[i] \notin Params \cup Slashed
  <2> SUFFICES ASSUME NEW i \in 1..Len(path) PROVE replaced[i] \notin Params \cup Slashed
    OBVIOUS
  <2>1. CASE path[i] \in Params
    <3>1. PICK k \in 1..n : at[k] = i
      BY <1>5, <2>1 DEF ParamsAt
    <3> QED BY <1>9, <1>10, <3>1
  <2>2. CASE path[i] \notin Params
    <3>1. path[i] \in ToSet(path)
      BY <1>4 DEF ToSet
    <3> QED BY <1>3, <1>10, <2>2, <3>1
  <2> QED BY <2>1, <2>2
<1> DEFINE kept == (ToSet(base) \cup {replaced[i] : i \in 1..Len(path)}
                     \cup {call[c].id})
<1>12. /\ base \in Seq(kept) /\ replaced \in Seq(kept) /\ tail \in Seq(kept)
       /\ Len(base) \in Nat /\ Len(replaced) = Len(path) /\ Len(path) \in Nat
       /\ DOMAIN base = 1..Len(base)
  <2>1. Len(path) \in Nat /\ Len(base) \in Nat /\ DOMAIN base = 1..Len(base)
    BY <1>3
  <2>2. \A i \in 1..Len(base) : base[i] \in kept
    BY <2>1 DEF ToSet
  <2>3. \A i \in 1..Len(path) : replaced[i] \in kept
    OBVIOUS
  <2>4. call[c].id \in kept
    OBVIOUS
  <2> HIDE DEF kept
  <2>5. base \in Seq(kept)
    BY <1>3, <2>1, <2>2
  <2>6. replaced \in Seq(kept) /\ Len(replaced) = Len(path)
    BY <1>10, <2>1, <2>3
  <2>7. tail \in Seq(kept)
    BY <2>4
  <2> QED BY <2>1, <2>5, <2>6, <2>7
<1>13. \A i \in 1..Len(base) : base[i] \notin Params \cup Slashed
  BY <1>3, <1>12 DEF ToSet
<1>14. \A i \in 1..Len(tail) : tail[i] \notin Params \cup Slashed
  <2>1. CASE call[c].method \in Collective
    <3>1. Len(tail) = 0
      BY <2>1
    <3> HIDE DEF tail
    <3> QED BY <3>1
  <2>2. CASE call[c].method \notin Collective
    <3>1. Len(tail) = 1 /\ tail[1] = call[c].id
      BY <2>2
    <3>2. call[c].id \notin Params \cup Slashed
      BY <1>2, <1>8, <2>2
    <3> HIDE DEF tail
    <3> QED BY <3>1, <3>2
  <2> QED BY <2>1, <2>2
<1> HIDE DEF kept
<1>15. /\ call[c].path \in Seq(kept)
       /\ Len(call[c].path) = Len(base) + Len(path) + Len(tail)
       /\ \A i \in 1..Len(call[c].path) : call[c].path[i] =
             IF i <= Len(base) THEN base[i]
             ELSE IF i <= Len(base) + Len(path) THEN replaced[i - Len(base)]
             ELSE tail[i - (Len(base) + Len(path))]
  <2> HIDE DEF tail
  <2> DEFINE front == base \o replaced
  <2>0. base \in Seq(kept) /\ replaced \in Seq(kept) /\ tail \in Seq(kept)
    BY <1>12
  <2>1. /\ front \in Seq(kept)
        /\ Len(front) = Len(base) + Len(replaced)
        /\ \A i \in 1 .. Len(base) + Len(replaced) : front[i] =
              IF i <= Len(base) THEN base[i] ELSE replaced[i - Len(base)]
    BY ONLY <2>0, ConcatProperties
  <2> HIDE DEF front
  <2>6. front \in Seq(kept)
    BY <2>1
  <2>2. /\ front \o tail \in Seq(kept)
        /\ Len(front \o tail) = Len(front) + Len(tail)
        /\ \A i \in 1 .. Len(front) + Len(tail) : (front \o tail)[i] =
              IF i <= Len(front) THEN front[i] ELSE tail[i - Len(front)]
    BY ONLY <2>0, <2>6, ConcatProperties
  <2>3. call[c].path = front \o tail
    BY <1>8, Zenon DEF front, tail
  <2>4. /\ Len(front) = Len(base) + Len(path)
        /\ \A i \in 1..(Len(base) + Len(path)) : front[i] =
              IF i <= Len(base) THEN base[i] ELSE replaced[i - Len(base)]
    BY <1>12, <2>1
  <2>5. Len(tail) \in Nat
    BY <1>12
  <2> QED BY <1>12, <2>2, <2>3, <2>4, <2>5
<1>16. Len(tail) \in Nat
  BY <1>12
<1>17. ToSet(call[c].path) \cap (Params \cup Slashed) = {}
  <2>1. DOMAIN call[c].path = 1..Len(call[c].path)
    BY <1>15
  <2>2. ASSUME NEW i \in 1..Len(call[c].path)
        PROVE  call[c].path[i] \notin Params \cup Slashed
    <3> HIDE DEF tail
    <3>0. /\ Len(base) \in Nat /\ Len(path) \in Nat /\ Len(tail) \in Nat
          /\ i \in 1..(Len(base) + Len(path) + Len(tail))
      BY <1>12, <1>15, <1>16
    <3>1. CASE i <= Len(base)
      <4>1. i \in 1..Len(base)
        BY <3>0, <3>1
      <4> QED BY <1>13, <1>15, <3>1, <4>1
    <3>2. CASE ~(i <= Len(base)) /\ i <= Len(base) + Len(path)
      <4>1. i - Len(base) \in 1..Len(path)
        BY <3>0, <3>2
      <4> QED BY <1>11, <1>15, <3>2, <4>1
    <3>3. CASE ~(i <= Len(base)) /\ ~(i <= Len(base) + Len(path))
      <4>1. i - (Len(base) + Len(path)) \in 1..Len(tail)
        BY <3>0, <3>3
      <4> QED BY <1>14, <1>15, <3>3, <4>1
    <3> QED BY <3>1, <3>2, <3>3
  <2> QED BY <2>1, <2>2 DEF ToSet
<1>18. \A k \in 1..n : call[c].path[Len(base) + at[k]] = call[c].parents[r.parents[k]]
  <2> SUFFICES ASSUME NEW k \in 1..n
               PROVE  call[c].path[Len(base) + at[k]] = call[c].parents[r.parents[k]]
    OBVIOUS
  <2>1. at[k] \in 1..Len(path)
    BY <1>5 DEF ParamsAt
  <2>2. /\ Len(base) + at[k] \in 1..Len(call[c].path)
        /\ ~(Len(base) + at[k] <= Len(base)) /\ Len(base) + at[k] <= Len(base) + Len(path)
        /\ (Len(base) + at[k]) - Len(base) = at[k]
    <3> HIDE DEF tail
    <3> QED BY <1>12, <1>15, <1>16, <2>1
  <2>3. call[c].path[Len(base) + at[k]] = replaced[at[k]]
    BY <1>15, <2>2
  <2> QED BY <1>7, <1>9, <1>10, <2>3
<1>19. call[c].method \notin Collective =>
          Last(call[c].path) = call[c].id /\ call[c].id # ""
  <2> SUFFICES ASSUME call[c].method \notin Collective
               PROVE  Last(call[c].path) = call[c].id /\ call[c].id # ""
    OBVIOUS
  <2>1. Len(tail) = 1 /\ tail[1] = call[c].id
    OBVIOUS
  <2> HIDE DEF tail
  <2> DEFINE l == Len(call[c].path)
  <2>2. l = Len(base) + Len(path) + 1
    BY <1>15, <2>1
  <2>3. /\ l \in 1..Len(call[c].path) /\ ~(l <= Len(base)) /\ ~(l <= Len(base) + Len(path))
        /\ l - (Len(base) + Len(path)) = 1
    BY <1>12, <2>2
  <2> HIDE DEF l
  <2>4. call[c].path[l] = tail[1]
    BY <1>15, <2>3
  <2> QED BY <1>8, <2>1, <2>4 DEF Last, l
<1>20. DOMAIN at = 1..n
  BY <1>5
<1> QED BY <1>6, <1>17, <1>18, <1>19, <1>20 DEF r, path, base

(***************************************************************************)
(* ParentsInPlace: whatever the document, as long as its paths are those   *)
(* that PlainPaths describes, and however many calls run at once, each     *)
(* identifier of a parent takes the place of its own parameter in the path *)
(* of every request that is sent (getResourcePath, getResourceIDURL).      *)
(***************************************************************************)
THEOREM RequestsAreAboutTheirObjects ==
    ASSUME PlainPaths
    PROVE  Spec => []ParentsInPlace
<1>1. PathInv => ParentsInPlace
  BY PathInvPlaces
<1> QED BY <1>1, InitPathInv, NextPathInv, PTL DEF Spec
=============================================================================
