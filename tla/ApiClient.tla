------------------------------- MODULE ApiClient -------------------------------
(***************************************************************************)
(* The provider's start-up, as far as its client is concerned, and the     *)
(* client that turns a resource operation into one HTTP request            *)
(* (openapi/openapi_client.go): the URL, with the host the document and    *)
(* the user choose and the parents' identifiers in the path; the           *)
(* credentials of the operation's security schemes                         *)
(* (openapi/openapi_spec_authenticator_api.go), some of which are fetched  *)
(* from a token service before every request; and its headers.  Terraform  *)
(* runs operations concurrently; each is a goroutine (a caller).           *)
(*                                                                         *)
(* A URL is a host and the segments of its path.  A host has a region, ""  *)
(* if its name is not a template.  What a header or a query parameter      *)
(* carries is the text the user configured or a token; the word Bearer in  *)
(* front of it is left out.                                                *)
(***************************************************************************)
EXTENDS Naturals, FiniteSets, Sequences, SequencesExt, SortedSets

CONSTANTS
    Null,
    Callers,       \* goroutines that run one operation each
    Setups,        \* documents, each with a configuration of the provider
    Ids,           \* identifiers of objects
    Slashed,       \* those with a slash in them
    Params,        \* path segments of the form {\w+}
    TerraformName  \* [security definition -> its property of the provider]

ASSUME SlashedAssumption == Slashed \subseteq Ids

\* A segment of a path has no slash.
IsPath(path) == path \in Seq(ToSet(path)) /\ ToSet(path) \cap Slashed = {}

\* Only the definition of a header can have a token service; an endpoint that
\* the user gives has been validated as a host; and an operation has at most
\* one header parameter of a name.
ASSUME SetupsAssumption ==
    \A s \in Setups :
        /\ \A d \in DOMAIN s.doc.defs :
              s.doc.defs[d].kind = "refresh" => s.doc.defs[d].in = "header"
        /\ \A b \in s.conf.endpoints : \A n \in DOMAIN b : b[n] # ""
        /\ IsPath(s.doc.base)
        /\ \A n \in DOMAIN s.doc.resources :
              LET r == s.doc.resources[n]
                  calls == r.calls
              IN /\ IsPath(r.path) /\ r.parents \in Seq(ToSet(r.parents))
                 /\ \A m \in DOMAIN calls : \A h, k \in calls[m].headers :
                       h.name = k.name => h = k

VARIABLES
    setup,      \* the document, and what the user configured
    phase,      \* of the start-up
    auth,       \* providerConfiguration.SecuritySchemaDefinitions
    endpoints,  \* providerConfiguration.Endpoints
    call,       \* what each caller is doing, and its request so far
    issued      \* how many tokens the token service has handed out

vars == <<setup, phase, auth, endpoints, call, issued>>

doc == setup.doc
conf == setup.conf

Authorization == "Authorization"

-----------------------------------------------------------------------------
(* The document                                                            *)

ApiKeys == {d \in DOMAIN doc.defs : doc.defs[d].type = "apiKey"}
DefinitionsValid == \A d \in ApiKeys : doc.defs[d].in \in {"header", "query"}

\* createSecuritySchemes: the first set; its order is a map's.
FirstSchemes(security) ==
    IF security \in {Null, <<>>} THEN {} ELSE Head(security)

Operations(r) == {r.calls[m] : m \in DOMAIN r.calls}
HeaderProperties ==
    UNION {{h.property : h \in operation.headers} : operation \in
              UNION {Operations(doc.resources[n]) : n \in DOMAIN doc.resources}}

MultiRegion == doc.multi # Null

-----------------------------------------------------------------------------
(* Start-up                                                                *)

\* What createTerraformProviderSchema refuses a document for.
Complete ==
    /\ MultiRegion => doc.multi # "malformed" /\ doc.regions # <<>>
    /\ DefinitionsValid
    /\ FirstSchemes(doc.global) \subseteq ApiKeys

CreateProvider ==
    /\ phase = "starting"
    /\ phase' = IF Complete THEN "created" ELSE "failed"
    /\ UNCHANGED <<setup, auth, endpoints, call, issued>>

\* A header takes the place of a property of the same name, and is optional.
Required ==
    {TerraformName[s] : s \in FirstSchemes(doc.global)} \ HeaderProperties

\* The SDK asks for the required properties, and for one of the regions.
Accepted ==
    /\ \A p \in Required : conf.values[p] # Null
    /\ MultiRegion /\ "region" \notin HeaderProperties =>
          conf.values["region"] \in ToSet(doc.regions) \cup {Null}

Value(property) ==
    IF conf.values[property] = Null THEN "" ELSE conf.values[property]

\* Of two definitions with one name the last one met stays.
LastMet ==
    {ds \in SUBSET ApiKeys :
        \A d \in ApiKeys : \E e \in ds :
            {x \in ds : TerraformName[x] = TerraformName[d]} = {e}}

\* getAuthenticator looks them up by their names for Terraform.
Authenticators ==
    {[p \in {TerraformName[d] : d \in ApiKeys} |->
         CHOOSE d \in ds : TerraformName[d] = p] : ds \in LastMet}

ResourceNames ==
    {n \in DOMAIN doc.resources : "POST" \in DOMAIN doc.resources[n].calls}

\* configureEndpoints: each block of the set overwrites what the ones before
\* it said of every resource.
ConfiguredEndpoints ==
    IF conf.endpoints = {} THEN {[n \in ResourceNames |-> ""]}
    ELSE {[n \in ResourceNames |-> IF n \in DOMAIN b THEN b[n] ELSE ""] :
             b \in conf.endpoints}

ConfigureProvider ==
    /\ phase = "created"
    /\ Accepted
    /\ phase' = "ready"
    /\ auth' \in Authenticators
    /\ endpoints' \in ConfiguredEndpoints
    /\ UNCHANGED <<setup, call, issued>>

-----------------------------------------------------------------------------
(* The URL                                                                 *)

Host(name, region) == [name |-> name, region |-> region]

Region == IF Value("region") = "" THEN Head(doc.regions) ELSE Value("region")
RegionUnchecked == TRUE \* mutant: getHostByRegion does not validate
RegionAllowed == Region \in ToSet(doc.regions)

DefaultHost ==
    IF MultiRegion THEN Host(doc.multi, Region)
    ELSE Host(IF doc.host = "" THEN doc.served ELSE doc.host, "")

Endpoint(n) == IF n \in DOMAIN endpoints THEN endpoints[n] ELSE ""

OwnHost(r) == Host(r.override, IF r.templated THEN r.region ELSE "")

HostOf(n, r) ==
    IF Endpoint(n) # "" THEN Host(Endpoint(n), "")
    ELSE IF r.override # "" THEN OwnHost(r)
    ELSE DefaultHost

\* The host of the document is asked for even if it is overridden.
NoHost(r) ==
    \/ IF MultiRegion THEN ~RegionAllowed ELSE DefaultHost.name = ""
    \/ r.templated /\ r.region = ""

\* The expression takes the slash after a parameter, so that it misses one
\* that follows at once.
Matches(path) ==
    LET match[i \in 0..Len(path)] ==
            /\ i > 0
            /\ path[i] \in Params
            /\ i < Len(path)
            /\ ~match[i - 1]
    IN Ascending({i \in 1..Len(path) : match[i]})

\* strings.Replace, of one occurrence or, as a mutant has it, of all.
WithFirst(path, old, new) ==
    [i \in DOMAIN path |->
        IF path[i] = old /\ \A j \in 1..(i - 1) : path[j] # old THEN new ELSE path[i]]
WithEvery(path, old, new) ==
    [i \in DOMAIN path |-> IF path[i] = old THEN new ELSE path[i]]

\* Mutant: every occurrence of a parameter is replaced.
ReplacedEverywhere(path, ids) ==
    LET at == Matches(path)
        after[k \in 0..Len(at)] ==
            IF k = 0 THEN path ELSE WithEvery(after[k - 1], path[at[k]], ids[k])
    IN after[Len(at)]

Replaced(path, ids) ==
    LET at == Matches(path)
        after[k \in 0..Len(at)] ==
            IF k = 0 THEN path ELSE WithFirst(after[k - 1], path[at[k]], ids[k])
    IN after[Len(at)]

\* getResourcePath refuses identifiers that do not fit the path; a path
\* without parameters takes any.
IdsMisfit(path, ids) ==
    /\ Matches(path) # <<>>
    /\ Len(ids) # Len(Matches(path)) \/ ToSet(ids) \cap Slashed # {}

ParentIds(r, parents) == [k \in DOMAIN r.parents |-> parents[r.parents[k]]]

Collective == {"POST", "LIST"}

Path(r, m, ids, id) ==
    doc.base \o Replaced(r.path, ids) \o (IF m \in Collective THEN <<>> ELSE <<id>>)

Unbuildable(r, m, ids, id) ==
    \/ NoHost(r)
    \/ IdsMisfit(r.path, ids)
    \/ doc.schemes \cap {"http", "https"} = {}
    \/ m \notin Collective /\ id \in Slashed \cup {""}

-----------------------------------------------------------------------------
(* The request                                                             *)

\* authRequired: an operation that lists no scheme has the global ones.
Chosen(operation) ==
    IF FirstSchemes(operation.security) # {} THEN FirstSchemes(operation.security)
    ELSE FirstSchemes(doc.global)

Text(property) == [text |-> Value(property), token |-> 0]
Token(n) == [text |-> "", token |-> n]
With(f, k, v) == [x \in DOMAIN f \cup {k} |-> IF x = k THEN v ELSE f[x]]

Idle == [pc |-> "idle", resource |-> Null, method |-> Null, parents |-> Null,
         id |-> Null, host |-> Null, path |-> <<>>, headers |-> <<>>,
         query |-> <<>>, todo |-> {}]

R(c) == doc.resources[call[c].resource]
Operation(c) == R(c).calls[call[c].method]
Refuse(c) == call' = [call EXCEPT ![c].pc = "refused"]

\* Post, Put, Get, List and Delete up to fetchRequiredAuthenticators.
Begin(c) ==
    /\ phase = "ready"
    /\ call[c].pc = "idle"
    /\ \E n \in DOMAIN doc.resources :
       \E m \in DOMAIN doc.resources[n].calls,
          parents \in [ToSet(doc.resources[n].parents) -> Ids] :
       \E id \in IF m \in Collective THEN {Null} ELSE Ids :
          LET r == doc.resources[n]
              ids == ParentIds(r, parents)
              schemes == Chosen(r.calls[m])
              asked == [Idle EXCEPT !.resource = n, !.method = m,
                                    !.parents = parents, !.id = id]
          IN call' = [call EXCEPT ![c] =
                IF \/ Unbuildable(r, m, ids, id)
                   \/ \E s \in schemes : TerraformName[s] \notin DOMAIN auth
                THEN [asked EXCEPT !.pc = "refused"]
                ELSE [asked EXCEPT !.pc = "auth", !.todo = schemes,
                                   !.host = HostOf(n, r),
                                   !.path = Path(r, m, ids, id)]]
    /\ UNCHANGED <<setup, phase, auth, endpoints, issued>>

\* The parameter or header that carries the credential of a definition.
Place(d) ==
    IF doc.defs[d].kind = "plain" THEN doc.defs[d].param
    ELSE IF doc.defs[d].in = "query" THEN "access_token" ELSE Authorization

NeverMissing(d) == FALSE \* mutant: values are not validated

\* The header of a bearer definition says "Bearer ", which is a value.
Missing(d) ==
    /\ Value(TerraformName[d]) = ""
    /\ ~(doc.defs[d].kind = "bearer" /\ doc.defs[d].in = "header")

\* prepareAuth, one authenticator after the other.
Authenticate(c) ==
    /\ call[c].pc = "auth"
    /\ \E s \in call[c].todo :
          LET d == auth[TerraformName[s]]
              value == Text(TerraformName[s])
              left == [call[c] EXCEPT !.todo = @ \ {s}]
          IN IF Missing(d) THEN Refuse(c)
             ELSE call' = [call EXCEPT ![c] =
                IF doc.defs[d].kind = "refresh"
                THEN [left EXCEPT !.pc = "refresh"]
                ELSE IF doc.defs[d].in = "query"
                THEN [left EXCEPT !.query = Append(@, <<Place(d), value>>)]
                ELSE [left EXCEPT !.headers = With(@, Place(d), value)]]
    /\ UNCHANGED <<setup, phase, auth, endpoints, issued>>

\* Mutant: without a token the request goes ahead.
TokenOptional(c) ==
    /\ call[c].pc = "refresh"
    /\ \/ /\ issued' = issued + 1
          /\ call' = [call EXCEPT ![c].pc = "auth",
                      ![c].headers = With(@, Authorization, Token(issued'))]
       \/ /\ issued' = issued
          /\ call' = [call EXCEPT ![c].pc = "auth"]
    /\ UNCHANGED <<setup, phase, auth, endpoints>>

\* The token service's answer has a token, or no request is sent.
TokenAnswered(c) ==
    /\ call[c].pc = "refresh"
    /\ \/ /\ issued' = issued + 1
          /\ call' = [call EXCEPT ![c].pc = "auth",
                      ![c].headers = With(@, Authorization, Token(issued'))]
       \/ /\ issued' = issued
          /\ Refuse(c)
    /\ UNCHANGED <<setup, phase, auth, endpoints>>

\* appendOperationHeaders: a header the operation has goes over what is there
\* already, with a value or without.
Headers(c) ==
    LET own == Operation(c).headers
    IN [n \in DOMAIN call[c].headers \cup {h.name : h \in own} |->
           IF \E h \in own : h.name = n
           THEN Text((CHOOSE h \in own : h.name = n).property)
           ELSE call[c].headers[n]]

HeaderMissing(c) ==
    \E h \in Operation(c).headers : h.required /\ Value(h.property) = ""

\* Mutant: the call waits until it has its required headers.
DispatchWaits(c) ==
    /\ call[c].pc = "auth"
    /\ call[c].todo = {}
    /\ ~HeaderMissing(c)
    /\ call' = [call EXCEPT ![c].pc = "sent", ![c].headers = Headers(c)]
    /\ UNCHANGED <<setup, phase, auth, endpoints, issued>>

\* The rest of performRequest.
Dispatch(c) ==
    /\ call[c].pc = "auth"
    /\ call[c].todo = {}
    /\ IF HeaderMissing(c) THEN Refuse(c)
       ELSE call' = [call EXCEPT ![c].pc = "sent", ![c].headers = Headers(c)]
    /\ UNCHANGED <<setup, phase, auth, endpoints, issued>>

-----------------------------------------------------------------------------
Init ==
    /\ setup \in Setups
    /\ phase = "starting"
    /\ auth = <<>>
    /\ endpoints = <<>>
    /\ call = [c \in Callers |-> Idle]
    /\ issued = 0

Next ==
    \/ CreateProvider
    \/ ConfigureProvider
    \/ \E c \in Callers :
          Begin(c) \/ Authenticate(c) \/ TokenAnswered(c) \/ Dispatch(c)

Spec == Init /\ [][Next]_vars

\* Neither the HTTP client nor the operation has a timeout: that a call ends
\* takes a token service that answers.
Fairness ==
    \A c \in Callers :
        WF_vars(Authenticate(c) \/ TokenAnswered(c) \/ Dispatch(c))

FairSpec == Spec /\ Fairness
=============================================================================
