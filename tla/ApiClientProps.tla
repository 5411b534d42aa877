---------------------------- MODULE ApiClientProps ----------------------------
(***************************************************************************)
(* What the requests that leave the provider promise.                      *)
(***************************************************************************)
EXTENDS ApiClient

Sent(c) == call[c].pc = "sent"

\* The parameters of a path stand between words of it, as those of a
\* subresource do (docs/how_to_subresources.md); the base path, which Swagger does not
\* template, has none; and no identifier has the form of one.
PlainPaths ==
    /\ Params \cap Ids = {}
    /\ \A s \in Setups :
          /\ ToSet(s.doc.base) \cap Params = {}
          /\ \A n \in DOMAIN s.doc.resources :
                LET path == s.doc.resources[n].path
                IN \A i \in DOMAIN path :
                      path[i] \in Params =>
                          i + 1 \in DOMAIN path /\ path[i + 1] \notin Params

(***************************************************************************)
(* The path of a request (getResourcePath, getResourceIDURL).  Every path  *)
(* parameter, even one whose name occurs before, has given way to the      *)
(* identifier of its own parent, and no identifier adds a segment: the     *)
(* request is about the object that the configuration names.               *)
(***************************************************************************)
ParentsInPlace ==
    \A c \in {x \in Callers : Sent(x)} :
        LET at == Ascending({i \in DOMAIN R(c).path : R(c).path[i] \in Params})
        IN /\ ToSet(call[c].path) \cap (Params \cup Slashed) = {}
           /\ \A k \in DOMAIN at :
                 call[c].path[Len(doc.base) + at[k]] =
                     call[c].parents[R(c).parents[k]]
           /\ call[c].method \notin Collective =>
                 Last(call[c].path) = call[c].id /\ call[c].id # ""

Named(b, n) == n \in ResourceNames \cap DOMAIN b

\* The hosts that the document has for a resource.
DocumentHosts(r) == {r.override, doc.multi, doc.host, doc.served}

\* `endpoints` (docs/using_openapi_provider.md): "API calls will be made against
\* the value for this property".  With one block they are; with several, which
\* overwrite one another, a resource may keep its own host but never gets a host
\* meant for another resource.
EndpointObeyed(c) ==
    /\ \A b \in conf.endpoints :
          conf.endpoints = {b} /\ Named(b, call[c].resource) =>
              call[c].host = Host(b[call[c].resource], "")
    /\ call[c].host.name \in
          (UNION {Range(b) : b \in conf.endpoints}) \ DocumentHosts(R(c)) =>
          \E b \in conf.endpoints :
              /\ Named(b, call[c].resource)
              /\ call[c].host.name = b[call[c].resource]

\* A regional host is that of a region the document lists and, if the user chose
\* one, of the user's; a resource of a region stays there (docs/how_to.md,
\* "Multi-region").
RegionServed(c) ==
    call[c].host.region # "" =>
        IF R(c).override # "" THEN call[c].host.region = R(c).region
        ELSE /\ call[c].host.region \in ToSet(doc.regions)
             /\ Value("region") \in {"", call[c].host.region}

(***************************************************************************)
(* A request goes to the host that the user's endpoints, the resource and  *)
(* the document decide on, in this order, and to no other (getResourceURL).*)
(* Start-up checks the user's region, unless a header parameter called     *)
(* region takes the property over; what is sent must be for a region of    *)
(* the document all the same.                                              *)
(***************************************************************************)
HostsAreMeant ==
    \A c \in {x \in Callers : Sent(x)} : EndpointObeyed(c) /\ RegionServed(c)

-----------------------------------------------------------------------------
(* Credentials                                                             *)

\* What an API finds in a query: it ends a value at "&", never at "?".
Read(query) == IF Len(query) = 1 THEN {query[1]} ELSE {}

\* What the operation asks for: its own first alternative or, if it has no
\* security section, that of the document.
Asked(operation) ==
    FirstSchemes(IF operation.security = Null THEN doc.global
                                             ELSE operation.security)

Carries(c, s) ==
    IF doc.defs[s].in = "query"
    THEN <<Place(s), Text(TerraformName[s])>> \in Read(call[c].query)
    ELSE /\ Place(s) \in DOMAIN call[c].headers
         /\ LET v == call[c].headers[Place(s)]
            IN IF doc.defs[s].kind = "refresh"
               THEN /\ v.token > 0
                    /\ \A d \in Callers \ {c} : Sent(d) =>
                          \A n \in DOMAIN call[d].headers :
                              call[d].headers[n].token # v.token
               ELSE v = Text(TerraformName[s])

SamePlace(s, t) ==
    IF doc.defs[s].in = "query" THEN doc.defs[t].in = "query"
    ELSE doc.defs[t].in = "header" /\ Place(s) = Place(t)

\* Something else is written where the credential goes, by a definition that has
\* the same name for Terraform as another scheme or by the operation, or another
\* definition has this scheme's name for Terraform.
Contended(c, s) ==
    \/ \E t \in ApiKeys : /\ SamePlace(s, t)
                          /\ \E u \in Asked(Operation(c)) \ {s} :
                                TerraformName[t] = TerraformName[u]
    \/ \E h \in Operation(c).headers : h.name = Place(s)
    \/ \E t \in ApiKeys \ {s} : TerraformName[t] = TerraformName[s]

\* What is written to one place twice is excepted; so is the value of a bearer
\* header, which may be empty since its validation sees the word Bearer.
CredentialsComplete(c) ==
    /\ \A s \in Asked(Operation(c)) :
          ~Contended(c, s) =>
              /\ Carries(c, s)
              /\ Value(TerraformName[s]) # ""
                    \/ (doc.defs[s].kind = "bearer" /\ doc.defs[s].in = "header")
    /\ \A h \in Operation(c).headers :
          h.required => call[c].headers[h.name].text # ""

\* Schemes that have the same name for Terraform are the same to it.
OthersOverridden(c) ==
    LET listed == FirstSchemes(Operation(c).security)
        own == {Place(d) : d \in {x \in ApiKeys :
                   \E s \in listed : TerraformName[x] = TerraformName[s]}}
    IN listed # {} =>
          /\ DOMAIN call[c].headers \subseteq
                own \cup {h.name : h \in Operation(c).headers}
          /\ {call[c].query[i][1] : i \in DOMAIN call[c].query} \subseteq own

(***************************************************************************)
(* No request leaves without the credential of every scheme its operation  *)
(* asks for, in the place where the definition puts it, with the value the *)
(* user configured or with a token fetched for this very request, nor      *)
(* without a value for a required header; and an operation that lists      *)
(* schemes overrides the document's, so that its requests carry the        *)
(* credentials of no others (authRequired).                                *)
(***************************************************************************)
CredentialsAreMeant ==
    \A c \in {x \in Callers : Sent(x)} :
        CredentialsComplete(c) /\ OthersOverridden(c)

(***************************************************************************)
(* A call that has begun ends: with a request or with an error.  Neither a *)
(* missing value nor a refused token leaves it waiting.                    *)
(***************************************************************************)
CallsEnd ==
    \A c \in Callers :
        call[c].pc # "idle" ~> call[c].pc \in {"sent", "refused"}
=============================================================================
