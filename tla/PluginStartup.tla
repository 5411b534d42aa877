----------------------------- MODULE PluginStartup -----------------------------
(***************************************************************************)
(* How the plugin starts (main.go, openapi/provider.go) and where its      *)
(* configuration comes from (openapi/plugin_config*.go): the environment   *)
(* or the configuration file, for each property of the provider's schema   *)
(* perhaps a command to run and a file to read.  A provider that is served *)
(* goes on as Telemetry says, under the configuration that was found.      *)
(***************************************************************************)
EXTENDS Telemetry, Sequences

CONSTANT Startups   \* environments, configuration files and documents

\* What a file contains: text that is JSON, with a string or not at the key it
\* is asked for, text that is not, or nothing that can be read.
FileContent ==
    [kind : {"text", "json", "number", "absent"}, text : STRING, value : STRING]

\* An entry of schema_configuration; `writes` is the file its command replaces,
\* and `final` what it leaves in it, `forks` whether it starts another process.
SchemaEntry ==
    [name : STRING, default : STRING, file : STRING, content : STRING,
     command : [given : BOOLEAN, writes : STRING, final : FileContent,
                forks : BOOLEAN]]

\* What is read of a configuration file is of its kind, and `files` tells of
\* every file that it names.
ASSUME StartupsAssumption ==
    \A s \in Startups :
        /\ s.file.state \in
              {"unlocatable", "unopenable", "missing", "garbled", "plain"}
        /\ s.file.service.plugin \in {"", "same", "other"}
        /\ s.file.service.telemetry \in Config
        /\ s.file.service.schema \in Seq(SchemaEntry)
        /\ s.partial \in FileContent
        /\ s.files \in [DOMAIN s.files -> FileContent]
        /\ \A i \in DOMAIN s.file.service.schema :
              LET c == s.file.service.schema[i]
              IN {c.file, c.command.writes} \ {""} \subseteq DOMAIN s.files

VARIABLES
    setup,     \* what the process finds when it starts
    stage,     \* how far the start has come
    service,   \* the service configuration in use
    insecure,  \* the process verifies no server's certificate any more
    todo,      \* properties of the provider's schema still to be made
    command,   \* the command run for one of them
    files,     \* external configuration files
    defaults,  \* [property -> its default value, once it is made]
    ran        \* [property -> how the plugin saw its command end]

startVars == <<setup, stage, service, insecure, todo, command, files, defaults, ran>>
allVars == <<vars, startVars>>

NoTelemetry == [graphite |-> "absent", http |-> "absent", names |-> {}]
NoService == [url |-> "", plugin |-> "", insecure |-> FALSE,
              telemetry |-> NoTelemetry, schema |-> <<>>]
NoCommand == [property |-> "", state |-> "none", ok |-> FALSE, late |-> FALSE,
              piped |-> FALSE]

StartInit ==
    /\ setup \in Startups
    /\ stage = "main"
    /\ service = NoService
    /\ insecure = FALSE
    /\ todo = <<>>
    /\ command = NoCommand
    /\ files = setup.files
    /\ defaults = <<>>
    /\ ran = <<>>
    /\ config = NoTelemetry
    /\ caller = [c \in Callers |-> "idle"]
    /\ sender = [c \in Callers |-> "none"]
    /\ counted = [c \in Callers |-> 0]
    /\ process = "starting"

\* log.Fatalf, or a panic: nothing else changes.
Stops(how) ==
    /\ process' = how
    /\ UNCHANGED <<startVars, config, caller, sender, counted>>

-----------------------------------------------------------------------------
(* The service configuration                                               *)

\* Mutant: the environment's URL takes the place of the file's, as the comment
\* on PluginConfiguration has it.
EnvironmentOverrides ==
    IF setup.url = "" THEN setup.file.service
    ELSE IF setup.file.state = "plain" THEN [setup.file.service EXCEPT !.url = setup.url]
    ELSE [NoService EXCEPT !.url = setup.url]

\* getServiceConfiguration: a URL in the environment, and nothing but the URL,
\* or what the file says.
EffectiveService ==
    IF setup.url = "" THEN setup.file.service
    ELSE [NoService EXCEPT !.url = setup.url, !.insecure = setup.skipVerify]

\* NewPluginConfiguration opens the file whether it will be read or not.
Unopenable ==
    setup.file.state \in {"unlocatable", "unopenable"}

FileRefused ==
    \/ setup.file.state \in {"missing", "garbled"}
    \/ setup.file.version # "1"
    \/ setup.file.entry = "absent"

\* An entry without content is a nil pointer in an interface that is not nil.
FilePanics == ~FileRefused /\ setup.file.entry = "null"

\* ServiceConfigV1.Validate, and the check for an empty URL before it.
Invalid(s) == s.url \in {"", "invalid"} \/ s.plugin = "other"

\* main's getProviderName, then getServiceConfiguration.
ConfigurationVerdict ==
    CASE setup.binary = "unnamed" \/ Unopenable -> "failed"
      [] setup.url = "" /\ FileRefused -> "failed"
      [] setup.url = "" /\ FilePanics -> "panicked"
      [] Invalid(EffectiveService) -> "failed"
      [] OTHER -> "configured"

ReadConfiguration ==
    /\ stage = "main" /\ process = "starting"
    /\ \/ /\ ConfigurationVerdict # "configured"
          /\ Stops(ConfigurationVerdict)
       \/ /\ ConfigurationVerdict = "configured"
          /\ service' = EffectiveService
          /\ insecure' = EffectiveService.insecure
          /\ stage' = "document"
          /\ UNCHANGED <<vars, setup, todo, command, files, defaults, ran>>

\* CreateSpecAnalyser fetches the document, newProviderFactory wants a name that
\* is its own Terraform name, and createProvider registers the resources before
\* the schema; a URL of `nowhere` has no document, or one whose resources are
\* refused.
LoadDocument ==
    /\ stage = "document" /\ process = "starting"
    /\ \/ /\ service.url = "nowhere" \/ setup.binary = "uncompliant"
          /\ Stops("failed")
       \/ /\ service.url # "nowhere" /\ setup.binary # "uncompliant"
          /\ stage' = "schema"
          /\ todo' = <<setup.securities, setup.headers>>
          /\ UNCHANGED <<vars, setup, service, insecure, command, files, defaults, ran>>

-----------------------------------------------------------------------------
(* The provider's schema                                                   *)

\* GetSchemaPropertyConfiguration: the first of that name, if there is one.
ConfigurationsOf(n) == {i \in DOMAIN service.schema : service.schema[i].name = n}
Configuration(n) ==
    service.schema[CHOOSE i \in ConfigurationsOf(n) :
                       \A j \in ConfigurationsOf(n) : i <= j]

\* GetDefaultValue, of the files as they are; errors are only logged.
Unreadable(c, content) ==
    \/ content.kind = "absent"
    \/ c.content \notin {"raw", "json"}
    \/ c.content = "json" /\ content.kind = "text"
LookupPanics(c) ==
    c.file # "" /\ c.content = "json" /\ files[c.file].kind = "number"
DefaultValue(c, content) ==
    IF c.file = "" THEN c.default
    ELSE IF Unreadable(c, content) THEN ""
    ELSE IF c.content = "raw" THEN content.text ELSE content.value
Content(c) == IF c.file = "" THEN <<>> ELSE files[c.file]

\* The property is in the schema, its default found.
Made(n, value) ==
    /\ defaults' = [p \in DOMAIN defaults \cup {n} |->
                        IF p = n THEN value ELSE defaults[p]]
    /\ todo' = IF n \in todo[1] THEN <<todo[1] \ {n}, todo[2]>>
               ELSE <<todo[1], todo[2] \ {n}>>

\* Security definitions come first, either kind in any order.
Due == IF todo[1] # {} THEN todo[1] ELSE todo[2]

\* configureProviderPropertyFromPluginConfig, but for its command.
MakeProperty(n) ==
    /\ stage = "schema" /\ process = "starting" /\ n \in Due
    /\ \/ /\ ConfigurationsOf(n) = {}
          /\ Made(n, "")
          /\ UNCHANGED <<vars, setup, stage, service, insecure, command, files, ran>>
       \/ /\ ConfigurationsOf(n) # {}
          /\ LET c == Configuration(n)
             IN \/ /\ ~c.command.given /\ LookupPanics(c)
                   /\ Stops("panicked")
                \/ /\ ~c.command.given /\ ~LookupPanics(c)
                   /\ Made(n, DefaultValue(c, Content(c)))
                   /\ UNCHANGED <<vars, setup, stage, service, insecure, command,
                                  files, ran>>
                \/ /\ c.command.given
                   /\ stage' = "command"
                   /\ command' = [property |-> n, state |-> "running", ok |-> FALSE,
                                  late |-> FALSE, piped |-> TRUE]
                   /\ UNCHANGED <<vars, setup, service, insecure, todo, files,
                                  defaults, ran>>

Commanded == Configuration(command.property)

\* The command (external) replaces its file, and ends when it likes, well or
\* not; a process that it has left behind may hold on to its output.
CommandWrites ==
    /\ command.state = "running" /\ Commanded.command.writes # ""
    /\ files' = [files EXCEPT ![Commanded.command.writes] = setup.partial]
    /\ UNCHANGED <<vars, setup, stage, service, insecure, todo, command, defaults, ran>>

CommandEnds ==
    /\ command.state = "running"
    /\ \E ok \in BOOLEAN, piped \in {FALSE, Commanded.command.forks} :
          /\ command' = [command EXCEPT !.state = "ended", !.ok = ok, !.piped = piped]
          /\ files' = IF ok /\ Commanded.command.writes # ""
                      THEN [files EXCEPT ![Commanded.command.writes] =
                               Commanded.command.final]
                      ELSE files
    /\ UNCHANGED <<vars, setup, stage, service, insecure, todo, defaults, ran>>

OutputReleased ==
    /\ command.state \in {"ended", "killed"} /\ command.piped
    /\ command' = [command EXCEPT !.piped = FALSE]
    /\ UNCHANGED <<vars, setup, stage, service, insecure, todo, files, defaults, ran>>

\* The context's deadline kills the command, not what it has left behind.
DeadlinePasses ==
    /\ stage = "command" /\ ~command.late
    /\ \E piped \in {FALSE, Commanded.command.forks} :
          command' = IF command.state = "running"
                     THEN [command EXCEPT !.late = TRUE, !.state = "killed",
                                          !.piped = piped]
                     ELSE [command EXCEPT !.late = TRUE]
    /\ UNCHANGED <<vars, setup, stage, service, insecure, todo, files, defaults, ran>>

Reported(how) ==
    [p \in DOMAIN ran \cup {command.property} |->
        IF p = command.property THEN how ELSE ran[p]]

\* Mutant: the context is not asked whether the deadline has passed, and a
\* command that was killed counts as done.
RunReturnsAnyhow ==
    /\ stage = "command" /\ command.state \in {"ended", "killed"} /\ ~command.piped
    /\ ran' = Reported(IF command.ok \/ command.late THEN "ok" ELSE "failed")
    /\ stage' = "schema"
    /\ command' = NoCommand
    /\ ~LookupPanics(Commanded)
    /\ Made(command.property, DefaultValue(Commanded, Content(Commanded)))
    /\ UNCHANGED <<vars, setup, service, insecure, files>>

\* cmd.Run waits for the process and for the end of its output.  Then the
\* deadline decides first, and the default value is looked up in any case.
RunReturns ==
    /\ stage = "command" /\ command.state \in {"ended", "killed"} /\ ~command.piped
    /\ \/ /\ LookupPanics(Commanded)
          /\ Stops("panicked")
       \/ /\ ~LookupPanics(Commanded)
          /\ ran' = Reported(IF command.ok /\ ~command.late THEN "ok" ELSE "failed")
          /\ stage' = "schema"
          /\ command' = NoCommand
          /\ Made(command.property, DefaultValue(Commanded, Content(Commanded)))
          /\ UNCHANGED <<vars, setup, service, insecure, files>>

-----------------------------------------------------------------------------
(* Service                                                                 *)

\* createTerraformProviderDataSourceMap comes last, after every command has run;
\* `refused` has a document with a data source without a name or a schema.
RefuseDataSources ==
    /\ stage = "schema" /\ process = "starting" /\ Due = {}
    /\ service.url = "refused"
    /\ Stops("failed")

\* envDefaultFunc: the environment's value, if any, goes before the default.
WithEnvironment(n) ==
    IF n \in DOMAIN setup.environment THEN setup.environment[n] ELSE defaults[n]

\* Mutant: the file's telemetry section is used in any case.
ServeFile ==
    /\ stage = "schema" /\ process = "starting" /\ Due = {}
    /\ service.url # "refused"
    /\ stage' = "served"
    /\ process' = "running"
    /\ config' = setup.file.service.telemetry
    /\ defaults' = [n \in DOMAIN defaults |-> WithEnvironment(n)]
    /\ UNCHANGED <<caller, sender, counted, setup, service, insecure, todo,
                   command, files, ran>>

Serve ==
    /\ stage = "schema" /\ process = "starting" /\ Due = {}
    /\ service.url # "refused"
    /\ stage' = "served"
    /\ process' = "running"
    /\ config' = service.telemetry
    /\ defaults' = [n \in DOMAIN defaults |-> WithEnvironment(n)]
    /\ UNCHANGED <<caller, sender, counted, setup, service, insecure, todo,
                   command, files, ran>>

Starts ==
    \/ ReadConfiguration \/ LoadDocument \/ RunReturns \/ RefuseDataSources \/ Serve
    \/ \E n \in setup.securities \cup setup.headers : MakeProperty(n)

StartNext ==
    \/ Starts
    \/ CommandWrites \/ CommandEnds \/ OutputReleased \/ DeadlinePasses
    \/ Next /\ UNCHANGED startVars

\* The plugin takes its steps and its deadlines pass.  A command owes it
\* nothing, neither to end nor to take what it has started along.
StartFairness == WF_allVars(Starts) /\ WF_allVars(DeadlinePasses) /\ Fairness

StartSpec == StartInit /\ [][StartNext]_allVars
FairStartSpec == StartSpec /\ StartFairness
=============================================================================
