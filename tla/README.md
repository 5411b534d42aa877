# Verification of the OpenAPI Terraform provider

terraform-provider-openapi builds a Terraform provider at run time from an
OpenAPI document: it finds the resources and data sources the document
describes, registers them under Terraform names, and gives Terraform handlers
that create, read, update, delete and import their instances over HTTP. This
directory models that program in TLA+, checks the models with TLC and proves
the central theorems with TLAPS. Paths below are relative to `src/`.

## 1. Inventory

| Component | State | Operations | Hard part | What makes it correct |
|---|---|---|---|---|
| Resource lifecycle (`openapi/resource_factory.go`, `common.go`) | the `ResourceData` of one operation; between operations only Terraform's state file | create, read, update, delete, importer; `handlePollingIfConfigured`, `checkImmutableFields` | several HTTP calls per handler, each may fail, be lost or be overtaken by other clients; crash between two; asynchronous APIs | no object is lost, immutable properties are never written, the state says what the API has, what is reported as done is done, repeated runs converge |
| Conversion (`resource_factory.go`, `common.go`, `openapi_spec_resource_schema_definition_property.go`) | none; it connects configuration, state and API | `populatePayload`, `convertPayloadToLocalStateDataValue`, `processIgnoreOrderIfEnabled`, `validateImmutableProperty` | four Go types for one number; lists in any order; maps of strings | what is applied is what the API has and what the state says, refresh after refresh |
| Specification analyser (`openapi_v2_spec_analyser.go`) | the parsed document | `GetTerraformCompliantResources`, `GetTerraformCompliantDataSources` | walks Go maps in random order | the outcome does not depend on the order |
| Names, paths, parents (`openapi_v2_resource.go`) | a cached name | `buildResourceName`, `GetParentResourceInfo`, `getResourcePath` | regular expressions over paths | names are unambiguous; each path parameter is one parent |
| Registration (`provider_factory.go`) | resource map, data source maps | `createProvider` and the loops it calls | collisions, in random order | a name stands for one resource, or for none; only what is refused stops the start |
| API client (`openapi_client.go`) | none | Post, Put, Get, List, Delete | URL, headers, authentication | a request goes where the document says |
| Provider configuration, authentication (`provider_configuration.go`, `openapi_spec_authenticator*.go`) | headers, security values | `configureProvider`, `prepareAuth` | tokens refreshed per request | every request carries its credentials |
| Endpoints, host, regions (`provider_configuration_endpoints.go`, `openapi_v2_backend_configuration.go`) | none | host lookups | overrides of overrides | one host per resource and region |
| Plugin configuration (`plugin_config*.go`) | the plugin configuration file, external configuration files | `getServiceConfiguration`, `ExecuteCommand`, `GetDefaultValue` | environment against file; commands that write files, race a deadline and leave processes behind | one source is in use and nothing of the others leaks into it; a default is what its command wrote or nothing |
| Provider construction (`provider.go`, `main.go`) | the provider built, the process' HTTP transport | `main`, `CreateSchemaProvider` | panics and refusals on the way | it serves what was configured, or says that it cannot |
| Schema definitions (`openapi_v2_resource.go`, `openapi_spec_resource_schema_definition*.go`) | none | `GetResourceSchema`, `ConvertToDataSourceSpecSchemaDefinition`, `terraformSchema`, `getResourceIdentifier`, `getStatusIdentifier` | recursion over definitions that may contain themselves; names that meet; lists out of Go maps | Terraform's schema says what the document says, at every depth; identifier and status are the same property every time |
| Data sources (`data_source_factory.go`, `data_source_instance_factory.go`) | none | `read`, `validateInput`, `filterMatch`, `setStateID` | JSON types against text; the schema read anew for every item | exactly one match or an error; an identifier that leads back to its object |
| Telemetry (`plugin_config_telemetry*.go`) | one goroutine and channel per metric | `submitMetric` | goroutine against timer, next to concurrent operations | it never stops or delays the provider beyond its timeout, counts once |
| Documentation generator (`pkg/terraformdocsgenerator`) | none | renders HTML | none | layout |

How they interact: `main.go` reads the plugin configuration and constructs the
provider; its factory asks the analyser for resources, registers one
`resourceFactory` per resource, and runs the configured commands for the
defaults of the provider's own properties; Terraform configures the provider (which counts the run) and then calls the
handlers, several resources at a time but one operation per instance at a time.
A handler calls telemetry first, then the API client one or more times, and
copies the answer into the `ResourceData`, which Terraform writes to the state
file when the handler returns. Terraform, its SDK and the HTTP library are not
in the repository; what the models take from them is marked external.

Everything in this code that is hard to test is listed, line by line, in
`PROJECT.json` under `hazards`, with the properties that would catch it.

## 2. Modules

```
RemoteApi ── ResourceCrud ── ResourceCrudProps ─┬─ MCResourceCrud
                 ResourceHandle (refined by) ───┤
                                                └─ ResourceCrudProofs ── ResourceValuesProofs
PropertyValues ── PropertyLifecycle ── PropertyLifecycleProps ─┬─ MCPropertyLifecycle
                                                               └─ PropertyLifecycleProofs
SortedSets ── OpenApiDocument ── ProviderFactory ── ProviderFactoryProps ─┬─ MCProviderFactory
    │                                                                     └─ ProviderFactoryProofs
    ├──────── ApiClient ── ApiClientProps ─┬─ MCApiClient
    │                                      └─ ApiClientProofs
    └──────── SortedSetsProofs (for all *Proofs but the lifecycle's)
ResourceSchema ── DataSources ── DataSourcesProps ─┬─ MCDataSources
                                                   └─ DataSourcesProofs
Telemetry ── PluginStartup ── PluginStartupProps ─┬─ MCPluginStartup
    └─────── (refined by) ────────────────────────┘└─ PluginStartupProofs
```

### Resource lifecycle: RemoteApi, ResourceCrud, ResourceHandle

`RemoteApi` is the external API as the code uses it: a collection of objects,
one request or answer in flight (`net`), jobs that run on after a 202, and every
mishap the code must survive. A mishap (a rejected or lost request, a lost
answer, an answer without identifier, a body that does not convert, an
unexpected success code, a job that fails, an edit or a removal by another
client, a crash, an early timeout, a new configuration) is paid for from
`budget`; `Faults` says which are on.

`ResourceCrud` is `resource_factory.go`. Each handler is a program whose steps
are separated by its HTTP calls; `pc` names the answer it waits for:

| Code | Action |
|---|---|
| `create` | `StartCreate` (up to the POST), `CreateAnswered` |
| `read`, `readWithOptions`, `readRemote` | `StartRead`, `ReadAnswered` |
| `importer` | `StartImport`, then `ReadAnswered` |
| `update`, `checkImmutableFields` | `StartUpdate`, `CheckAnswered`, `UpdateAnswered` |
| `delete` | `StartDelete`, `DeleteAnswered` |
| `handlePollingIfConfigured`, `resourceStateRefreshFunc` | `PollRefreshes`, `PollAnswered`, `PollTimesOut` |
| Terraform | `entry` (the state file), `KeepAfterError`, `MustUpdate`, `MustDelete`, `MustReplace`, `Configure`, `Crash` |

`data` is the `ResourceData`, `entry` the instance in the state file, `result`
how the last operation ended. `owned` and `drift` are history, read by
properties only. `updateStateWithPayloadData` copies properties in the random
order of a map, so a payload that does not convert leaves any subset copied
(`SavedBy`).

`ResourceHandle` is what managing an instance promises, with all of that left
out: one handle at most, on an object that was created, let go of only when the
object is gone, and never moved from one object to another. `ImplementsHandle`
says the handlers refine it (`born` and `dead` read off the API's objects,
`handle` is the identifier in the state file).

### Conversion: PropertyValues, PropertyLifecycle

`PropertyValues` holds the pure functions: payload out (`Populate`), JSON and
back (`Json`), payload in (`Convert`), order of lists (`ProcessIgnoreOrder`,
`EqualItems`), immutability (`ImmutableViolated`). A value carries its Go type,
because Go's comparison of interface values does: `int`, `int64`, `float64`,
text and bool are different values, and a nil or a failed assertion panics.
Numbers are counted in thousandths; text is the text of a number or boolean, or
a word. `PropertyLifecycle` passes a property through create, read and update,
with edits of the configuration and by other clients between them; here every
handler is one step, since what happens between its calls is `ResourceCrud`'s
matter. The second property `other` lets the resource be updated while the first
one stays as it is. The reference in `PropertyLifecycleProps` is `Meant`: the
JSON that a value of Terraform's stands for under the type of its property,
defined without reference to the functions of the code. `Frozen` is the part of
it that no update may change: of an object, what the document describes. What
other clients put into an object beside that is replaced by every PUT, be the
object immutable or not.

### Registration: OpenApiDocument, ProviderFactory

`OpenApiDocument` holds names, versions, parents and compliance as functions of
the document. A path is its segments and a flag for a trailing slash; a
Terraform name is the sequence of parts that `_` joins, so that two paths
collide exactly when their names are the same text. A root that ends in a
parameter and a slash has an own name that is empty: its one part is the empty
text. `ProviderFactory` is
`createProvider`: two walks over the document, each in any order, and the
registration loop between them, which takes both entries out when it meets a
name again. Where the code finds places in a path with a regular expression, here
and in the API client, `SortedSets` puts the set of those places in order.

### Start-up and telemetry: PluginStartup, Telemetry

`Telemetry` has two goroutines per operation: the caller, which waits for the
channel or for the timer, and the sender, which calls the telemetry service and
then offers its error on the unbuffered channel. After a timeout nobody takes
the offer and the sender is blocked until the process ends.

`PluginStartup` extends it: it is the process from `main` on, up to the provider
that is served, which then takes `Telemetry`'s steps under the section of the
configuration that was found. The environment, the files and the document are
an element of `Startups`; a provider that cannot be served ends as `failed`
(`log.Fatalf`) or `panicked`.

| Code | Definition |
|---|---|
| `getProviderName`, `NewPluginConfiguration`, `getServiceConfiguration`, `Validate` | `ConfigurationVerdict` and its parts, `EffectiveService`; `ReadConfiguration` |
| `CreateSpecAnalyser`, `newProviderFactory` | `LoadDocument` |
| `createProvider`'s data sources, refused after the schema is made | `RefuseDataSources` |
| `createTerraformProviderSchema`, `configureProviderPropertyFromPluginConfig` | `Due`, `MakeProperty`, `Made` |
| `ExecuteCommand`, `exec` | the stage `command`: `MakeProperty` starts it, `DeadlinePasses` is its context, `RunReturns` is `cmd.Run` and what follows |
| `GetDefaultValue`, `getFileParser`, `getValue` | `Unreadable`, `LookupPanics`, `DefaultValue` |
| `envDefaultFunc` | `WithEnvironment` |
| `plugin.Serve` | `Serve` |
| the command and what it starts (external) | `CommandWrites`, `CommandEnds`, `OutputReleased` |

A command writes its file half and then whole, ends well or not, and may leave a
process behind that holds its output. `cmd.Run` returns when the command has
ended and nobody holds its output any more, since the code captures it in
buffers. `Telemetry` is also what a start promises: `ImplementsTelemetry` says
that whatever is found on the way, and whether or not it comes to serving, the
plugin behaves like `Telemetry` under the section of the configuration in use.

### Schemas and data sources: ResourceSchema, DataSources

`ResourceSchema` has the pure part, from a document's definition to Terraform's
schema. The code builds nested definitions recursively; here a definition is the
flat set of its properties, each at its path of names, and what the recursion
does to every level is done to every path. Go hands out the properties of a
definition in any order: where the order decides, the operator is the set of
what may come out (`Kept`, `ResourceIdentifiers`, `StatusIdentifiers`).
`StackDepth` stands for the size of a goroutine's stack: a definition that
contains itself is read until it is full (`Outcomes` contains `overflow`), unless
a contradiction is found before.

| Code | Definition |
|---|---|
| `getSchemaDefinitionWithOptions`, `createSchemaDefinitionProperty` and what they call | `Level`, `Refused`, `Outcomes`, `CreateProperty`, `GetResourceSchema` |
| `ConvertToDataSourceSpecSchemaDefinition` | `ConvertToDataSource` |
| `getResourceIdentifier`, `getStatusIdentifier` | `ResourceIdentifiers`, `StatusIdentifiers` |
| `terraformSchema`, `createResourceSchemaIgnoreID` | `Attribute`, `Kept`, `CreateResourceSchema` |
| `createTerraformResource`, `createTerraformDataSource`, `createTerraformInstanceDataSource` | `CreateProvider` |
| `dataSourceFactory.read`, `validateInput`, `filterMatch` | `StartSearch`, `ValidateInput`, `SearchAnswered`, `FilterMatch` |
| `dataSourceInstanceFactory.read` | `StartInstanceRead`, `InstanceAnswered` |
| `setStateID`, `dataSourceUpdateStateWithPayloadData` | `StateID`, `States`, `Finish` |
| `convertPayloadToLocalStateDataValue`, `setResourceDataProperty`, their errors and panics | `ConvertPart`, `Fits`, `Stops`, `Unsaved` |

`DataSources` is one collection with its two data sources over time: the
provider is built, searched, read from and restarted, while another client
changes the collection. `found` is history: the last object that a search
returned and the identifier that it left in the state, which a user passes on to
the other data source. A JSON number is the text that the API wrote;
`FloatText` and `IntegerText` say what Go's formatting makes of its float64.

A value that is a list or an object has what it holds beside it, as the flat set
of its parts at every depth (`Parts`). Before a read succeeds, each value of the
object must convert (`ConvertPart`: a list where there is none in the document
and a name that the document does not have are errors, an object under a property
without a definition is a nil pointer) and then be set in the `ResourceData`
(`Fits`: the type of the attribute, at each depth; a map takes texts). `Unsaved`
is what may come of it, for the values are taken in any order.

### API client: ApiClient

`ApiClient` follows a document and the user's configuration through start-up
(`CreateProvider`, which refuses documents; `ConfigureProvider`, before which
the SDK refuses configurations) and then every operation of every resource to
the request it sends. Each caller is one operation of Terraform's; the
credentials of an operation are put together one after the other, in any order,
since they come out of a map, and a token is fetched from a service that
answers, refuses or answers without one (`TokenAnswered`). A URL is a host and
the segments of its path, a path parameter is a segment, and the regular
expression that finds parameters takes the slash after one with it (`Matches`).
The value in a header or query is the configured text or a token; the word
`Bearer` and the constant `User-Agent` header are left out.

| Code | Definition |
|---|---|
| `createTerraformProviderSchema`, `configureProvider`, `newProviderConfiguration` | `Complete`, `Required`, `Accepted`; `Authenticators`, `ConfiguredEndpoints` |
| `getResourceURL`, `getResourceIDURL`, `getHost`, `getHostByRegion` | `HostOf`, `NoHost`, `Path`, `Unbuildable` |
| `getResourcePath`, `getParentIDs` | `Matches`, `WithFirst`, `Replaced`, `IdsMisfit`, `ParentIds` |
| `authRequired`, `createSecuritySchemes` | `Chosen`, `FirstSchemes` |
| `Post`, `Put`, `Get`, `List`, `Delete` up to the credentials | `Begin` |
| `prepareAuth` of each authenticator | `Authenticate`, `TokenAnswered` |
| `appendOperationHeaders`, the rest of `performRequest` | `Headers`, `Dispatch` |

The properties refer to the document and the configuration alone: what a path's
parameters are, what a scheme's place is, what an operation asks for.

## 3. Runs

| Run | States | Shows |
|---|---|---|
| `crud_safety` | 47,875 | Types, the two inductive invariants (`IInv`, `ValuesHold`), `NoLeak`, `StateMirrorsObject`, `AbortRollsBack`, `SuccessMeansDone`, `ImmutableKept`, `PollEndsForAReason` and the refinement of `ResourceHandle`, whatever two mishaps happen |
| `crud_liveness` | 226,955 | Every operation ends; running Terraform again and again converges, by updates and by replacements, though a failed job is given up at the timeout only |
| `crud_subresource_polling` | violation | Polling a subresource fails at its first refresh |
| `registration` | 55,622 | Names do not depend on the order of the walk, pairs exclude each other, data sources follow their resources, parents exist and match the path's parameters; the provider starts unless something in the document has no name or an unusable schema, and passes none of that over |
| `registration_three_collide` | violation | Of three resources with one name the last one met is registered |
| `property_lifecycle` | 152,100 | Configuration, state and API agree for every kind of property, but for the exceptions the properties name; items of a list whose order means nothing are kept in the user's order and as often as the user has them |
| `property_refused` | violation | An immutable integer in a list or object makes every update fail |
| `api_client` | 64,587 | Requests name every parent in its place, go to the host that document and user chose, carry what their operation asks for and nothing of others, and every call ends |
| `startup` | 81,110 | The source that takes precedence is the only one in use; defaults are what finished commands wrote; operations are counted once at most, under an unambiguous section, and finish however silent the service is; a start refines `Telemetry` |
| `startup_command_hang` | violation | A command that leaves a process behind holds the start for ever |
| `data_sources` | 20,788 | Terraform's schemas say what the document says at every depth; identifier and status are stable; a search finds the one object it means, unless one of its values is not as documented, and the identifier it leaves leads back to it |
| `data_source_integer_filter` | violation | A filter on an integer property panics |

Bounds, and why they are enough:

* **crud**: two identifiers for safety (an object and the one that follows it
  when the first was lost or replaced) and three for liveness, so that two
  mishaps that each cost an object still leave one. Two properties, one of them
  immutable, two values each: a plan may ask for a change of one, of the other
  or of both, and a partial save can mix them. `Budget = 2`: every pair of
  mishaps, in every order and at every point between two calls, the budget being
  the only bound on how long a behaviour is interesting. One status of each kind.
  The safety run lists the pending statuses, the liveness run lists none; in
  the former every change is an update, in the latter one property replaces.
* **registration**: `Colliding` has three collections that can get one another's
  names through a preferred name or a version, of which one may have a schema
  that cannot be built; `Nested` two levels below a
  parent that is ignored, renamed, regional, or written with a slash, with
  matching and mismatching parameter names; `Sources` resources without a body,
  with several success responses, and data sources that clash with the name of
  a resource's instances; `Bare` paths that end in a parameter and a slash or
  begin with a parameter, at the top and below another collection, with and
  without a preferred name and regions. Three is the least number at which exclusion by pairs
  differs from exclusion.
* **startup**: 824 starts: every telemetry section (each of two providers
  absent, invalid or valid) with every kind of property it may name; every
  source of a configuration with at most two of seven things out of the
  ordinary (a third has no effect of its own: the first that is met ends the
  start); files of every kind and content type, commands that write the file
  their property reads, the one another property reads, or none, two entries of
  one name, and a property that is a security definition and a header. The
  plugin run and two concurrent operations, which share nothing but the process.
* **data_sources**: 1,773 documents with collections. For the schemas: every
  combination of required, readOnly, default, computed, sensitive and forceNew
  at the top and inside an object or a list of objects; definitions that contain
  themselves, are missing, or were kept as references, next to unsupported ones;
  names that meet those of siblings, parents, `id` and `filter`; every way for
  two properties to claim to be the identifier or the status. `StackDepth = 3`
  is one more than the deepest definition that ends. For the searches: three
  objects, of which the first two, the last two or all match, filters on every
  kind of property, alone and in pairs, in either order, with and without a
  value; objects that lack a property or have a null; and identifiers that are
  text, whole numbers, decimals, above 2^53, null or booleans. For what is saved
  (`ValueSetups`): a property of each type, alone or with one that takes its name
  in Terraform, and values of every kind for it, by themselves, in a list, in an
  object, in an object of a list, and two levels down, documented or not.
* **property_lifecycle**: every primitive, list, list
  of objects and object that the schema translation yields, with
  and without immutability and ignored order, with a renamed child, and with two
  children of which one has the other's name in Terraform, or both have one name;
  lists absent, empty and up to two items long with repetitions, three words or two numbers, and texts that
  are not of their type. Numbers include one whose text has three decimals, one
  that "%.2f" pads, and 0. A string may look like a number. Objects that other
  clients make have a property that nobody described, and otherwise what is
  configured.
* **api_client**: 1,021 documents with configurations, chosen so that what can
  meet does: every security scheme alone and in pairs, asked for by the operation
  or the document, with and without a value, next to headers that are required
  or take the credential's place; two definitions with one Terraform name; two
  blocks of endpoints; regions with and without a choice of the user's, a
  document that lists none, and a header called `region`; subresources two
  levels deep whose parameters have the same name, with identifiers that are
  empty or contain a slash. The paths are plain (`PlainPaths`): a parameter stands
  between words. Two concurrent calls: calls share the configuration,
  which does not change, and the token service.

`CHECK_DEADLOCK FALSE` is set where the system may stop: nothing configured and
nothing tracked, a provider put together, a process that has ended.

Fairness. In `crud_liveness`: handlers take their steps and
the SDK's polling loop fires its timeout (weak); the API answers requests and
finishes its jobs (weak), which asynchronous APIs promise and polling relies on; and
Terraform is run again and again (strong for the start of each operation,
because an operation under way, or a change of plan, disables the others in
between). No fairness on mishaps, on other clients or on the user. In
`startup`: the plugin takes its steps, goroutines are scheduled, and timers and
deadlines pass (weak); nothing at all is assumed of the telemetry service, of a
command or of what it leaves behind, which may never answer or end. In `api_client`: a call takes
its steps and the token service answers or refuses (weak); the HTTP client has no
timeout, so without that answer a call would wait for ever. The other runs check
safety only.

Every property of a passing run has a mutant in `PROJECT.json`: a plausible bug
in a mapped definition that makes it fail under the run's own cfg.

## 4. Proofs

Each theorem holds for every value of the constants. Its property is one that a
run checks, the invariants that carry it were run through TLC before they were
proved, and there is one lemma per action, or per group of actions that a fact
cannot tell apart.

### Assumptions and hypotheses

Constants are constrained by named assumptions only, which TLC evaluates for the
values of every run:

| Assumption | Says | Justified by |
|---|---|---|
| `RemoteApi`, `ResourceCrud` | what is reserved is reserved; subsets are subsets | the modelling of absence by `Null` |
| `DocumentsAssumption`, `PartsAssumption` | a document has finitely many paths, made of texts; what is excluded has a POST; no text that is split at its underscores ends in one | a document is a file; a name such as `abc_` is left out; `x-terraform-exclude-resource` is an extension of the POST (`openapi_v2_resource.go:275`) |
| `StartupsAssumption` | files are of the kinds listed, and what the configuration names is one of them | `Unreadable` and `missing` are among the kinds |
| `PluginRunAssumption`, `PropertiesAssumption` | the plugin run is no operation; kinds of properties | modelling |
| `SlashedAssumption`, `ApiClient!SetupsAssumption` | token services are headers'; endpoints are not empty; segments of a path have no slash; parents come in an order; an operation has one header parameter of a name | `openapi_v2_security.go` creates refresh tokens for headers only; `provider_configuration_endpoints.go:38` validates; a path is split at its slashes; `GetParentResourceInfo` makes a slice; OpenAPI 2.0 has parameters unique by name and place |
| `DataSources!SetupsAssumption`, `NumbersAssumption`, `ConformingAssumption` | what the API holds is finite, is JSON of the document's types or null, and identifiers differ; formatting a formatted number changes nothing; no parent's property is called `id` or `filter`; what a list or an object holds is a part of it | API (external) and Go's `strconv`; `openapi_spec_subresource_info.go:19` appends `_id` to a parent's name |
| `DataSources!BlocksAssumption` | no value for an object that is a block, none for a list called `filter` | left out, section 6 |
| `StackDepthAssumption` | there is a stack | - |
| `SchemasAssumption`, `ConfigAssumption`, `RemoteAssumption` | a definition's properties are in some order and their names differ; Terraform admits what the schema says; the API keeps to its document, but for what it adds | definitions are maps; `terraformType`; API (external) |

Four theorems have a hypothesis of their own, which is the promise of the
document that the property is about:

* `HandlersImplementHandle` assumes `DeletesAreWatched`: the document makes the
  provider wait for asynchronous deletes, and the API does not use the reserved
  status `destroyed`. Without polling a 202 to DELETE is taken for the end of the
  object, by design.
* `SuccessIsDone` assumes `StatusesTell`: a status that means work is not one
  that an object at rest has.
* `PollingEndsForAReason` assumes `PollingIsListed`: the statuses of work are no
  targets and are listed as pending, and the resource has no parents (finding 1
  is what happens if it has).
* `RequestsAreAboutTheirObjects` assumes `PlainPaths`: in a path of the document
  every parameter is followed by a word, the base path has none, and no
  identifier has the form of a parameter. The code looks for `{x}/` over and
  over in a text it has already changed, so an identifier `{id}` would be
  replaced in its turn; and its expression, which takes the slash with it, does
  not see a parameter at the end of a path.

TLC evaluates the last one for the values of its run as well
(`PathsAssumption`), whose property is about such documents.

### Resource lifecycle

`ResourceCrudProofs`: `Invariance` (`Spec => []IInv`), `TypeCorrect`,
`NothingLeaks`, `ImmutableNeverWritten`, and the refinement
`HandlersImplementHandle`.

None of these is inductive. Whether a handler may let go of an identifier depends
on what an answer in flight says; whether that is still true when it is read
depends on what the API and others may do meanwhile. `IInv` says so: the message
in flight and the `ResourceData` belong to the operation under way
(`CallMatches`, `DataMatches`); identifiers held are identifiers of created
objects (`HeldIdsExist`); an answer still holds of its object when it is read,
because objects do not come back and immutable properties do not change
(`AnswerHolds`); a PUT under way does not touch an immutable property
(`PutKeepsImmutable`); and nothing has been dropped (`NothingDropped`, which pins
the identifier of an unfinished operation to a create, where `NoLeak` leaves it
open). The handlers return, fail, poll and call in the same few ways, which are
lemmas (`ReturnStep`, `FailStep`, `PollStep`, `CallStep`); the moves of the API are
reduced to the one fact that the objects evolve (`EvolvesFacts`).

`ResourceValuesProofs`: `ValuesAreTold`, `StateIsTrue` (`StateMirrorsObject`),
`AbortsRollBack`, `SuccessIsDone` and `PollingEndsForAReason`. The second
invariant, `ValuesHold`, is about what is in the objects rather than which there
are. What a request carries is the plan (`RequestCarriesPlan`); what the answer
to a write or a read says of values and status is so, unless others interfered
(`WriteAnswerTells`, `ReadAnswerTells`, for which the objects' own status and job
must agree, `ObjectsTell`); and so what a handler saves is true. It is inductive
only next to `IInv`. Copying properties in any order is harmless because what is
copied is the plan's or the object's value either way (`SoundSaved`).

### Conversion

`PropertyLifecycleProofs`: `FrozenStaysFrozen` (`UpdatesKeepFrozen`),
`RefusalsAreAttempts` (`ComparableAttempts`), `PlansAreEmpty`
(`NoDiffAfterApply`), `RefreshesKeepOrder` (`RefreshKeepsOrder`) and
`StatesAreTrue` (`StateTellsTheTruth`), for properties of any kind, lists of any
length and whatever another client writes. The invariants are short; the
weight is on the lemmas about the conversions.

* Updates and refusals. What the API has conforms to the document (`RemoteInv`),
  and a refusal is of what is configured and of what the API has, in some order
  (`RefusalInv`). What is sent conforms (`SentConforms`), is what the
  configuration means (`MeantIsSent`), and has the immutable part of what was
  read if the comparison let it pass (`FrozenIsKept`); a list whose order means
  nothing is compared in the order it came back in, which is a bijection away
  from the API's (`ItemsAreRearranged`).
* Empty plans. That the state is the configuration says nothing about the next
  refresh, so `PlanInv` adds where it comes from: as long as nobody else writes,
  the API has what the configuration was sent as (`InApi`), also when a handler
  failed after its request. Then it remains that sending and reading back are
  inverse to each other, for a single value, a map of texts and a list
  (`BackAsSent`), and that a list in any order is put back in the order that it
  was configured in (`BackInOrder`): nothing is added, nothing is dropped, and
  the comparison does not panic.
* Order. `ShapeInv` says that configuration and state hold lists of what
  Terraform calls the properties, so that a refresh compares like with like. What is
  left of a list is what the code picks from it, in its order (`PickedOf`,
  `KnownIsPlain`); what follows was not in the state before (`AddedIsNew`), so of
  two items that the state had and has neither can come from there
  (`LeftIsKnown`, `KeptInOrder`).
* Truth. `TruthInv` is `ShapeInv` and the property. Whatever a handler saves
  means what the API had: a value (`LeafTold`), a map (`MapTold`), a list
  (`ListTold`), picked together from both sides or not (`StoredIsTold`), and an
  answer that does not convert leaves what was there and is no success
  (`SaveTells`). Of a list whose order means nothing that is which items there
  are: items are matched by value, so an item that the user has twice and the API
  once is in the state twice. How often an item is there is `RepeatsAreKept`'s,
  which is model-checked only.

The proof attempts corrected the model and the properties. `Frozen` used to be a
whole object: the code keeps only what is described, and the property held merely
because no object with an undescribed property met a configuration that was equal
otherwise. `Meant` read a string that looks like a number as the number. And the
names of two properties of an object may meet: if one has the name in Terraform
that another has for the API (`Crossed`), items of a list are compared by the
wrong property; if both have one name (`Shared`), one of them is lost. The run has
such objects, and the properties except them (section 5).

### Registration

`ProviderFactoryProofs`: `NamesAreUnambiguous` (`PairsExcluded`). For every set of
documents and every order of the walk, as long as no three resources share a
name, a name is registered exactly when one resource has it and for that
resource. `RegInv` says what the map holds of the resources met so far:
`OnlyOffers` (an entry is the only offer of its name) and `EveryOffer` (an only
offer is an entry); a resource met again needs the premise that there is no third.

`InstancesFollow` (`InstancesFollowResources`) and `WalksLeaveNoTrace` (`WalkOrderIsInvisible`) are
about what the walks leave behind. Instances follow because
`NameOf(r)_instance` tells resources apart, which needs
that the names are sequences (`FollowInv`). That the order of the walk leaves no
trace is proved by counting: as many resources have been found under a name as
the paths walked stand for (`CountInv`), a name is in the map while an odd number
of them has been offered (`OddInv`, for the code toggles), and the data sources
are a set of their own (`SourcesInv`); the number depends on the document alone.

`NothingIsPassedOver` (`StartsUnlessRefused`) is about what stops the start.
Everything that was found stands in the document and the other way round
(`FoundInv`), and a resource that the loop has gone past was not refused, unless
it was taken out as the duplicate of an earlier one (`LookedAtInv`). For that last
case the count is needed again: a name that was offered is the name of as many
resources of the document, so there is another one with it.

`ParentsAreThere` (`ParametersAreParents`) is about the resources registered.
`LawfulInv` is what the analysis lets a resource be: it has a path of the document
that names it, and its parents' paths are in the document and not excluded,
unless it is of a region (`OutcomesAreLawful`; the regions' copies are not looked
at again). If the parameters of its path follow words (`ParametersFollowWords`, the
condition in the property: `/{tenant}/things` has a parameter that is nobody's
identifier, and no parent for it), they are counted against the places where the
regular expression finds a parent: each follows a word, so each ends the path of one
parent's instance, and there is one parent for each (`InstancesAreFilled`,
`ParentForEach`, `LawfulHasParents`).

### API client

`ApiClientProofs`: `RequestsGoWhereMeant` (`HostsAreMeant`),
`RequestsCarryWhatIsMeant` (`CredentialsAreMeant`) and
`RequestsAreAboutTheirObjects` (`ParentsInPlace`), for any number of concurrent
calls. `StartInv` is what the start-up leaves behind when calls are made.
`HostInv` keeps a request's host equal to the one that document and
configuration decide. `CredentialInv` follows a request while it is put together:
what it carries is what was asked for or the operation's own (`RequestInv`), each
credential asked for is in its place or still to come, and every token belongs to
one call (`TokenInv`), though the token service may answer in any order.

`PathInv` says that a request under way has the path that its call's identifiers
were put into (`Addressed`). That these are in their places is about the code's
loop, which replaces the first text equal to the parameter, wherever that is:
two levels may have parameters of one name. The matches are found in their order
(`MatchesAll`, from `Ascends`), and when the k-th is replaced those before have
become identifiers, which are no parameters, so the first occurrence left is the
one that is meant (`ReplacesInPlace`, by least counterexample over k). The base path
in front moves all places by its length, and the instance's identifier comes after
them (`PathInvPlaces`).

### Data sources

`DataSourcesProofs`: `MatchesAreUnique` (`MatchIsUnique`), `HitsGetFound`
(`HitsAreFound`) and `IdentifiersLeadBack` (`IdsRoundTrip`), for every document,
collection and filters, in whatever order the filters come. `ReadInv` is what a
read is at and what it reads; `SearchInv` adds the two properties of a search, and
`IdInv` what an identifier that was found is of (`FoundInv`) and what was read by
one (`ReadBack`), both up to the choice of the identifier property, which is the
code's to make anew each time. That a search fails only for the reasons listed
needs the schemas as well (below): a part of an object that is as documented has
an attribute that takes it (`ClearAttribute`, `AttributeTakes`, `HolderTakes`,
`DocumentedIsSaved`), and so has a primitive under a name that all its owners
give the same kind (`PrimitiveIsSaved`); what stops the save is therefore a value
that the property excepts (`UnsavedIsUnkeepable`).

`RolesDoNotChange` (`RolesAreStable`) and `SchemasAreTheDocuments`
(`SchemasFollowDocument`) are about definitions of any depth. A recursive function
like `Level` tells the prover nothing until it is shown that some function
satisfies its equation; `LevelIs` does that by a least counterexample
(`LeastIsThere` of `SortedSetsProofs`, from the well-foundedness of `<`), which
stands in for induction in all of these modules: a property's path has as many names as its level (`PathsAreNamed`), no
two properties have one path (`OnePath`), and all that a property is nested in is
a property too (`LineageIs`). For the roles it then suffices that what stands
beside a property is the same whichever property one asks from (`OneStatus`). For
the schemas, `SchemaInv` says that Terraform knows what was made of some choice
among namesakes, of a document that is right. Resource and data sources have the
document's properties and the parents' (`Reflects`); a clear property's name tells
it from all that stand beside it (`NameTells`), so it is kept with all it is nested
in (`ClearIsKept`) and alone has its path in Terraform's names (`ClearPath`), be it
however many levels down. What is left is one property at a time: what
`terraformSchema` makes of it (`ResourceAttribute`), which needs that none
contradicts itself (`NothingContradicts`).

The proof attempt showed that names excepted one case too few: `Clear` did not
mind a parent whose name in Terraform differs from the document's. Looking for
what the code does with such a parent showed that it does not find it (section 5).

### Start-up and telemetry

`PluginStartupProofs`: `StartedCountsAreHonest` (`CountsAreHonest`),
`StartImplementsTelemetry` (the refinement), `ConfigurationIsEffective`
(`EffectiveConfiguration`) and `DefaultsStayHonest` (`DefaultsAreHonest`).

`CountInv` is about counting alone, and every step of `Telemetry` keeps it: a
sender that has not called has not been counted (`CountedOnce`), and what is
submitted was dispatched, under a provider, after the plugin run
(`SubmittedInOrder`). `StartInv` connects the two machines: as long as the plugin
does not serve it has dispatched nothing, and when it serves its section is that
of the configuration in use. The steps of a start are stutters of `Telemetry` for
that reason, and `Serve` is one because the section it puts in use is the one
that the refinement mapping has meant all along.

`SourceInv` says what each stage leaves behind of the source that takes
precedence, and that nothing of the other one is left. `HonestInv` adds the files:
a file that no command writes stays as it was found, and a command that ended well
has left its file as it meant to (`FilesInv`).

### Only model-checked, and why

* Liveness (`OperationEnds`, `Converges`, `RunsEnd`, `CallsEnd`): needs ENABLED.
* The findings: a property that a run violates is no theorem.

* `RepeatsAreKept`: its proof needs counting along the list that the code picks
  together, which `PropertyLifecycleProofs` has no lemmas for yet.

Every other invariant and action property of a passing run is a theorem.

## 5. Where the code and its documentation disagree

With a run that shows it (`findings` in `PROJECT.json`):

1. Polling a subresource always fails: the refresh function reads without the
   parents' identifiers (`resource_factory.go:387`, `docs/how_to.md:443`).
2. Three resources with one name: one is registered (`provider_factory.go:237`,
   `docs/how_to.md:1541`).
3. Integers inside immutable lists and objects never compare equal
   (`resource_factory.go:444`, `:481`, `docs/how_to.md:1030`).
4. A filter on an integer property panics (`data_source_factory.go:139`,
   `docs/how_to.md:394`).
5. A command that leaves a process behind holds the start beyond its deadline
   (`plugin_config_services_schema_property_configuration.go:107`, comment at
   `:71`).

Met while modelling, without a run of their own:

* A telemetry section naming the provider property `endpoints` panics
  (`plugin_config_telemetry_provider_httpendpoint.go:100`), for every property is
  asserted to be a string: `SubmitPanics`, excepted by `RunsEnd`.
* A property that does not convert is logged and left out of the payload, and
  the operation succeeds without it (`resource_factory.go:516`); the comment at
  `:501` says that the payload always contains the desired state.
* Of two security schemes that belong in the query the API finds neither: each is
  appended after a question mark of its own
  (`openapi_spec_authenticator_apikey_query.go:34`, `docs/how_to.md:117`).
* The environment's URL replaces the whole configuration of the file, its
  telemetry and defaults included (`plugin_config.go:98`), where the comment at
  `:31` says that it overrides the URL; and the file must be openable even so.
* A service of the configuration file without content panics: the nil pointer
  is in an interface that is not nil (`plugin_config_schema.go:67`). An external
  JSON value that is not a text panics as well
  (`plugin_config_services_schema_property_configuration.go:171`), where
  `docs/plugin_configuration_schema.md:87` says that errors are logged.
* The default is looked up even if the command failed: what a killed command has
  left of its file becomes the default (`provider_factory.go:158`). A command
  that ends just as its deadline passes is reported as timed out.
* A readOnly property is optional as well as computed in Terraform
  (`openapi_spec_resource_schema_definition_property.go:285`), where the comment
  at `openapi_v2_resource.go:454` says that it is not exposed to the user.
* A subresource whose parent's name is not in snake case (`/cdnItems`) cannot be
  operated on: its parent's identifier is looked for as `cdnItems_id`, and
  Terraform has it as `cdn_items_id` (`common.go:71`,
  `openapi_spec_resource_schema_definition_property.go:80`,
  `docs/how_to_subresources.md:104`). `data_sources` has such documents, and
  `SchemasFollowDocument` finds the property where Terraform has it; a property
  `<<n>> \in DOMAIN schemas.resource` of the parents' names `n` fails there.
* Of two properties with one Terraform name the last one met wins; if one is the
  parent's, its requirement may be lost
  (`openapi_spec_resource_schema_definition.go:78`). A property called `filter`
  is replaced by the search's own attribute, and every search that meets a value
  of it fails (`data_source_factory.go:52`). `SchemasFollowDocument` and
  `HitsAreFound` except them.
* An answer with a value of another type than the document says, or with a nested
  name that it does not have, fails the whole read (`common.go:119`, `:124`),
  where an undescribed name at the top is only logged (`:106`); an object under a
  property that has no definition panics (`:187`). `HitsAreFound` excepts
  exactly these (`Unkeepable`).
* A root path that ends in a parameter and a slash has an empty name of its own
  (`openapi_v2_resource.go:21`): `/{id}/` stops the provider with an error about
  an empty name (`provider_factory.go:317`), `/things/{id}/` is registered as
  `things_`. `/{tenant}/things` is registered, but no parent is found for its
  parameter (`openapi_v2_resource.go:286`), so its URL cannot be built and no
  operation reaches the API, where `docs/how_to_subresources.md` counts every
  path with a parameter as a subresource. `ParametersAreParents` excepts these.
* Whether the provider starts at all hangs on the order of a map when a resource
  whose schema cannot be built shares its name with another: met second, it is
  taken out before its schema is looked at (`provider_factory.go:237`, `:245`).
  `StartsUnlessRefused` excepts exactly these.
* With `x-terraform-ignore-order`, repetitions that others add or remove are not
  seen (`common.go:148`): `[a, a]` stays `[a, a]` when the API has `[a]`, and `[a]`
  stays `[a]` when it has `[a, a]`. `RepeatsAreKept` says so,
  `StateTellsTheTruth` is about which items there are.
* A null in the property that is filtered by panics, in whatever object of the
  collection (`data_source_factory.go:150`), a filter with an empty list of
  values too (`:182`); and numbers have to be written as Go formats them, 6.0 and
  1.2345675e+06 (`:143`): `Defeated` in `DataSourcesProps`.
* Polling is on when the response enables it, whether statuses are listed or not
  (`resource_factory.go:335`); `docs/how_to.md:584` says that the operation is
  synchronous if the requirements are not met. `crud_liveness` runs with no
  pending status listed.
* The order of a list of integers is not ignored: `equalItems` asks for an int
  on both sides and the API's is a float64
  (`openapi_spec_resource_schema_definition_property.go:329`,
  `docs/how_to.md:1036`). `NoDiffAfterApply` and `RefreshKeepsOrder` except
  such lists.
* Objects are compared by the names of the API on both sides, and the state has
  Terraform's (`openapi_spec_resource_schema_definition_property.go:371`). If one
  property's name in Terraform is another's in the API, the order of a list of such
  objects is not ignored; of two with one name in Terraform one is lost:
  `Crossed` and `Shared`, excepted by the properties of `PropertyLifecycleProps`.
* An operation with an empty `security` list is sent with the document's schemes
  (`openapi_spec_authenticator_api.go:26`); `docs/how_to.md:102` says that a
  document may ask for no authentication at all. `FirstSchemes` models it and
  `CredentialsAreMeant`, which is about what is asked for, allows it.
* A bearer header without a value is sent as `Bearer `, for the validation sees
  the word (`openapi_spec_authenticator_apikey_header.go:38`); an operation's
  header goes over a credential of the same name even if it is empty
  (`openapi_client.go:156`). `CredentialsAreMeant` excepts both.
* Of several `endpoints` blocks the one whose hash comes last decides for every
  resource, those it does not mention included
  (`provider_configuration_endpoints.go:69`): `HostsAreMeant` is exact for one.
* The data source of a multi-region resource cannot list: its region is empty
  and its templated host cannot be built (`openapi_v2_resource.go:248`). A
  document whose schemes are neither http nor https passes start-up, and every
  request fails. An empty parent identifier is not refused.
* A subresource needs its parents' paths in the document, not that they are
  Terraform compliant (`openapi_v2_spec_analyser.go:134`,
  `docs/how_to_subresources.md:16`).
* A path whose parent has a dash is not a subresource
  (`openapi_v2_resource.go:47`, `docs/how_to_subresources.md:74`), and the
  version of a name with a dash is not found in its path, since it is looked up
  with underscores (`openapi_v2_resource.go:191`, `docs/how_to.md:444`).
  `ParametersAreParents` excepts the first; `VersionOf` models the second.
* An update takes away from an object what the document does not describe, from an
  immutable one too: the comparison goes through the properties that are
  described (`resource_factory.go:462`), and the PUT replaces the whole object.
* A read that gets a 404 keeps the identifier in the state
  (`resource_factory.go:150`): if the state has all of the configuration and is
  not tainted, the plan is empty and the object is never created again.
  `Converges` excepts that case (`Vanished`) and no other: a tainted entry, or a
  plan with a difference, of an object that is gone does come to an end.
* Updating anything in a resource with an object that is not configured panics
  (`resource_factory.go:463`), and so does refreshing a list of objects whose
  order is ignored and whose property has another Terraform name
  (`openapi_spec_resource_schema_definition_property.go:388`). Both are outcomes
  (`panic`) in `PropertyLifecycle`.
* A number in an object is cut or padded to two decimals (`common.go:253`):
  `NoDiffAfterApply` excepts those that do not come back as they went.

## 6. What is not modelled

* Objects in objects, the legacy block form and read-only children: the SDK's
  own conversions, which are not in the repository, decide what becomes of them.
* In `DataSources`, values of objects that are blocks and a list under a property
  called `filter` (`BlocksAssumption`), for the same reason.
* Fetching, parsing and expanding the document: the go-openapi libraries'. A
  document is taken as they leave it, or cannot be had.
* `CreateSchemaProviderFromServiceConfiguration` called by another program, with
  a configuration of its own.
* Telemetry's requests themselves (their paths, headers and text), and the length
  of timeouts.
* Parents' names in `ApiClient`: a parent's identifier is found under them there
  (section 5 tells when it is not).
* The API's answers in `ApiClient`, and URLs, hosts and credentials in
  `RemoteApi`: a request that is refused before it is sent is the outcome "no
  answer" there.
* Operations that the document does not offer (no PUT) are in `ResourceCrud`;
  the runs have PUT and DELETE.
* The documentation generator, examples, stubs, text helpers: functions or tables
  without state, with no behaviour over time.
* Several resource instances at once: handlers share no state but the API
  client and telemetry; the interleaving that matters, with other clients of the
  API, is in `RemoteApi`.

## 7. Plan

Done: 1. the lifecycle with its refinement and proofs, and the proofs of what the
state says; 2. telemetry; 3. registration with its proofs; 4. the property
lifecycle with its proofs; 5. the API client, with hosts, credentials and paths;
6. schemas and data sources, with their proofs; 7. the start of the plugin, with
the proof that it implements telemetry.

Left, in this order:

1. The proof of `RepeatsAreKept`, with lemmas on how often an item is picked.
2. The parents of `OpenApiDocument` composed with the paths of `ApiClient`, and
   regions of subresources.
3. The outcomes of `ResourceSchema` in `ProviderFactory`, in the place of a schema
   that is usable or not.
4. The hazards without a property: the lost answer to a POST, which is beyond
   what the provider can know, and the definition that contains itself, of which
   the repository promises nothing, are listed as they are.
