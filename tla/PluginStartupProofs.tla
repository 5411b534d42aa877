-------------------------- MODULE PluginStartupProofs --------------------------
(***************************************************************************)
(* For every set of startups and of operations: a plugin that is started   *)
(* counts its runs honestly, and its start implements Telemetry.           *)
(***************************************************************************)
EXTENDS PluginStartupProps, SortedSetsProofs

\* Each caller and its sender keep to their states.
CountTypes ==
    /\ caller \in [Callers -> {"idle", "waiting", "working", "finished"}]
    /\ sender \in [Callers -> {"none", "calling", "called", "offering", "ended"}]
    /\ counted \in [Callers -> Nat]

\* Only a submission is counted, and when it is, it is not on its way any more.
CountedOnce ==
    \A c \in Callers :
        /\ counted[c] <= 1
        /\ sender[c] \in {"none", "calling"} => counted[c] = 0

\* Only what is dispatched is submitted, under a provider, after the plugin run.
SubmittedInOrder ==
    \A c \in Callers :
        /\ sender[c] # "none" =>
              caller[c] # "idle" /\ Provider # "none" /\ sender[PluginRun] # "none"
        /\ c = PluginRun /\ caller[c] # "idle" /\ Provider # "none" =>
              sender[c] # "none"

CountInv == CountTypes /\ CountedOnce /\ SubmittedInOrder

\* A plugin that does not serve has dispatched nothing; one that serves does so
\* under the section that the configuration in use has.
StartInv ==
    /\ setup \in Startups
    /\ stage \in {"document", "schema", "command"} => service = EffectiveService
    /\ ~Serving =>
          /\ process # "running"
          /\ caller = [c \in Callers |-> "idle"]
          /\ sender = [c \in Callers |-> "none"]
          /\ counted = [c \in Callers |-> 0]
    /\ Serving => config = UsedSection /\ process # "starting"
-----------------------------------------------------------------------------
(* Counting                                                                *)

\* The plugin run is a caller.
LEMMA PluginRunCalls == PluginRun \in Callers
BY DEF Callers

\* Nothing is counted before anything is dispatched.
LEMMA IdleCountInv ==
    ASSUME caller = [c \in Callers |-> "idle"],
           sender = [c \in Callers |-> "none"],
           counted = [c \in Callers |-> 0]
    PROVE  CountInv
BY DEF CountInv, CountTypes, CountedOnce, SubmittedInOrder

\* What the counting depends on, unchanged.
LEMMA StutterCountInv ==
    ASSUME CountInv, UNCHANGED vars
    PROVE  CountInv'
BY DEF CountInv, CountTypes, CountedOnce, SubmittedInOrder, vars, Provider

\* Every step of Telemetry keeps the invariant.
LEMMA NextCountInv ==
    ASSUME CountInv, Next
    PROVE  CountInv'
<1> USE PluginRunCalls DEF CountInv, CountTypes
<1>1. ASSUME NEW c \in Callers, Submit(c)  PROVE CountInv'
  <2>1. CountTypes'
    BY <1>1 DEF Submit
  <2>2. CountedOnce'
    BY <1>1 DEF Submit, Dispatched, CountedOnce, SubmittedInOrder
  <2>3. SubmittedInOrder'
    BY <1>1 DEF Submit, SubmittedInOrder, Dispatched, Provider
  <2> QED BY <2>1, <2>2, <2>3
<1>2. ASSUME NEW c \in Callers, SubmitNothing(c)  PROVE CountInv'
  <2>1. CountTypes'
    BY <1>2 DEF SubmitNothing
  <2>2. CountedOnce'
    BY <1>2 DEF SubmitNothing, CountedOnce
  <2>3. SubmittedInOrder'
    BY <1>2 DEF SubmitNothing, SubmittedInOrder, Provider
  <2> QED BY <2>1, <2>2, <2>3
<1>3. ASSUME NEW c \in Callers, Done(c)  PROVE CountInv'
  <2>1. CountTypes'
    BY <1>3 DEF Done
  <2>2. CountedOnce'
    BY <1>3 DEF Done, CountedOnce
  <2>3. SubmittedInOrder'
    BY <1>3 DEF Done, SubmittedInOrder, Provider
  <2> QED BY <2>1, <2>2, <2>3
<1>4. ASSUME NEW c \in Callers, TimesOut(c) \/ Works(c)  PROVE CountInv'
  <2>1. CountTypes'
    BY <1>4 DEF TimesOut, Works
  <2>2. CountedOnce'
    BY <1>4 DEF TimesOut, Works, CountedOnce
  <2>3. SubmittedInOrder'
    BY <1>4 DEF TimesOut, Works, SubmittedInOrder, Provider
  <2> QED BY <2>1, <2>2, <2>3
<1>5. ASSUME NEW c \in Callers, Counts(c)  PROVE CountInv'
  <2>1. CountTypes'
    BY <1>5 DEF Counts
  <2>2. CountedOnce'
    BY <1>5 DEF Counts, CountedOnce
  <2>3. SubmittedInOrder'
    BY <1>5 DEF Counts, SubmittedInOrder, Provider
  <2> QED BY <2>1, <2>2, <2>3
<1>6. ASSUME NEW c \in Callers, Returns(c)  PROVE CountInv'
  <2>1. CountTypes'
    BY <1>6 DEF Returns
  <2>2. CountedOnce'
    BY <1>6 DEF Returns, CountedOnce
  <2>3. SubmittedInOrder'
    BY <1>6 DEF Returns, SubmittedInOrder, Provider
  <2> QED BY <2>1, <2>2, <2>3
<1>7. ASSUME NEW c \in Callers, SubmitPanics(c)  PROVE CountInv'
  BY <1>7 DEF SubmitPanics, CountedOnce, SubmittedInOrder, Provider
<1>8. CASE Exit
  BY <1>8 DEF Exit, CountedOnce, SubmittedInOrder, Provider
<1> QED
  BY <1>1, <1>2, <1>3, <1>4, <1>5, <1>6, <1>7, <1>8 DEF Next, Caller
-----------------------------------------------------------------------------
(* Starting                                                                *)

\* An absent section is a section, and so is the one in use.
LEMMA UsedSectionIsOne ==
    ASSUME setup \in Startups
    PROVE  UsedSection \in Config
BY StartupsAssumption DEF UsedSection, NoTelemetry, Config, Section

\* The configuration in use has the section in use.
LEMMA EffectiveSection == EffectiveService.telemetry = UsedSection
BY DEF EffectiveService, UsedSection, NoService

\* The steps of a start that serve nothing.
Preparing ==
    \/ ReadConfiguration \/ LoadDocument \/ RunReturns \/ RefuseDataSources
    \/ \E n \in setup.securities \cup setup.headers : MakeProperty(n)
    \/ CommandWrites \/ CommandEnds \/ OutputReleased \/ DeadlinePasses

\* Every step of a start is one that prepares, or Serve, or one of Telemetry's.
LEMMA StartSteps ==
    StartNext <=> Preparing \/ Serve \/ (Next /\ UNCHANGED startVars)
BY DEF StartNext, Starts, Preparing

\* What a step that prepares leaves alone, and how it may end the process.
LEMMA PreparingSteps ==
    ASSUME StartInv, Preparing
    PROVE  /\ UNCHANGED <<setup, config, caller, sender, counted>>
           /\ Serving' = Serving
           /\ Serving => UNCHANGED process
           /\ process' # process => process' \in {"failed", "panicked"}
           /\ stage' \in {"document", "schema", "command"} => service' = EffectiveService
<1> USE DEF StartInv, Serving, vars, startVars
<1>1. CASE ReadConfiguration
  BY <1>1 DEF ReadConfiguration, Stops, ConfigurationVerdict
<1>2. CASE LoadDocument \/ RefuseDataSources
  BY <1>2 DEF LoadDocument, RefuseDataSources, Stops
<1>3. CASE RunReturns
  BY <1>3 DEF RunReturns, Stops
<1>4. ASSUME NEW n \in setup.securities \cup setup.headers, MakeProperty(n)
      PROVE  /\ UNCHANGED <<setup, config, caller, sender, counted>>
             /\ Serving' = Serving
             /\ Serving => UNCHANGED process
             /\ process' # process => process' \in {"failed", "panicked"}
             /\ stage' \in {"document", "schema", "command"} => service' = EffectiveService
  BY <1>4 DEF MakeProperty, Stops
<1>5. CASE CommandWrites \/ CommandEnds \/ OutputReleased \/ DeadlinePasses
  BY <1>5 DEF CommandWrites, CommandEnds, OutputReleased, DeadlinePasses
<1> QED
  BY <1>1, <1>2, <1>3, <1>4, <1>5 DEF Preparing

\* StartInv holds when the process starts.
LEMMA InitStartInv == StartInit => StartInv
BY DEF StartInit, StartInv, Serving

\* Telemetry's steps are taken by a plugin that serves, and change its process
\* to nothing but a stopped one.
LEMMA NextServes ==
    ASSUME StartInv, Next, UNCHANGED startVars
    PROVE  Serving /\ process = "running" /\ UNCHANGED config /\ process' # "starting"
BY DEF StartInv, Next, Caller, Submit, SubmitNothing, SubmitPanics, Done, TimesOut,
       Works, Exit, Counts, Returns, Dispatched

\* The configuration in use depends on what the process finds, and on no more.
LEMMA SetupDecides ==
    ASSUME UNCHANGED setup
    PROVE  EffectiveService' = EffectiveService /\ UsedSection' = UsedSection
BY DEF EffectiveService, UsedSection

\* Every step keeps StartInv.
LEMMA StepStartInv ==
    ASSUME StartInv, [StartNext]_allVars
    PROVE  StartInv'
<1>1. CASE Preparing
  <2>1. /\ UNCHANGED <<setup, config, caller, sender, counted>>
        /\ Serving' = Serving
        /\ Serving => UNCHANGED process
        /\ process' # process => process' \in {"failed", "panicked"}
        /\ stage' \in {"document", "schema", "command"} => service' = EffectiveService
    BY <1>1, PreparingSteps
  <2> QED BY <2>1, SetupDecides DEF StartInv
<1>2. CASE Serve
  <2>1. /\ UNCHANGED <<setup, service>> /\ stage = "schema"
        /\ config' = service.telemetry /\ stage' = "served" /\ process' = "running"
    BY <1>2 DEF Serve
  <2> QED BY <2>1, SetupDecides, EffectiveSection DEF StartInv, Serving
<1>3. CASE Next /\ UNCHANGED startVars
  BY <1>3, NextServes, SetupDecides DEF StartInv, startVars, Serving
<1>4. CASE UNCHANGED allVars
  BY <1>4, SetupDecides DEF StartInv, allVars, vars, startVars, Serving
<1> QED BY <1>1, <1>2, <1>3, <1>4, StartSteps

\* Every step keeps CountInv: Serve, which brings the configuration, finds
\* nothing dispatched.
LEMMA StepCountInv ==
    ASSUME StartInv, CountInv, [StartNext]_allVars
    PROVE  CountInv'
<1>1. CASE Preparing
  <2>1. UNCHANGED <<config, caller, sender, counted>>
    BY <1>1, PreparingSteps
  <2> QED BY <2>1 DEF CountInv, CountTypes, CountedOnce, SubmittedInOrder, Provider
<1>2. CASE Serve
  <2>1. /\ caller = [c \in Callers |-> "idle"]
        /\ sender = [c \in Callers |-> "none"]
        /\ counted = [c \in Callers |-> 0]
        /\ UNCHANGED <<caller, sender, counted>>
    BY <1>2 DEF Serve, StartInv, Serving
  <2> QED BY <2>1 DEF CountInv, CountTypes, CountedOnce, SubmittedInOrder
<1>3. CASE Next /\ UNCHANGED startVars
  BY <1>3, NextCountInv
<1>4. CASE UNCHANGED allVars
  BY <1>4, StutterCountInv DEF allVars
<1> QED BY <1>1, <1>2, <1>3, <1>4, StartSteps

\* The invariant says what CountsAreHonest asks.
LEMMA CountInvIsHonest ==
    ASSUME CountInv
    PROVE  CountsAreHonest
<1> SUFFICES ASSUME NEW c \in Callers
             PROVE  /\ counted[c] <= 1
                    /\ counted[c] = 1 =>
                          /\ {config.graphite, config.http} = {"absent", "valid"}
                          /\ caller[c] # "idle"
                          /\ sender[PluginRun] # "none"
  BY DEF CountsAreHonest
<1>1. Provider # "none" => {config.graphite, config.http} = {"absent", "valid"}
  BY DEF Provider
<1>2. counted[c] = 1 => sender[c] # "none"
  BY DEF CountInv, CountedOnce
<1> QED BY <1>1, <1>2 DEF CountInv, CountedOnce, SubmittedInOrder
-----------------------------------------------------------------------------
(* Theorems                                                                *)

\* Whatever the configuration, the commands and the interleaving of operations,
\* submissions and answers of the telemetry service: CountsAreHonest.
THEOREM StartedCountsAreHonest == StartSpec => []CountsAreHonest
<1>1. StartInit => StartInv /\ CountInv
  BY InitStartInv, IdleCountInv DEF StartInit
<1>2. StartInv /\ CountInv /\ [StartNext]_allVars => (StartInv /\ CountInv)'
  BY StepStartInv, StepCountInv
<1>3. CountInv => CountsAreHonest
  BY CountInvIsHonest
<1> QED BY <1>1, <1>2, <1>3, PTL DEF StartSpec

\* A start begins where Telemetry begins.
LEMMA InitRefines == StartInit => T!Init
BY UsedSectionIsOne DEF StartInit, T!Init, T!Config, T!Section, T!Callers, Config,
   Section, Callers, Serving

\* Every step of a start, or after it, is one of Telemetry's or none to it.
LEMMA StepRefines ==
    ASSUME StartInv, [StartNext]_allVars
    PROVE  [T!Next]_T!vars
<1>1. CASE Preparing
  <2>1. /\ UNCHANGED <<setup, caller, sender, counted>>
        /\ Serving' = Serving
        /\ Serving => UNCHANGED process
    BY <1>1, PreparingSteps
  <2> QED BY <2>1, SetupDecides DEF T!vars
<1>2. CASE Serve
  BY <1>2, SetupDecides DEF Serve, T!vars, Serving
<1>3. CASE Next /\ UNCHANGED startVars
  <2>1. /\ Serving /\ Serving' /\ config = UsedSection /\ UsedSection' = UsedSection
        /\ process = "running"
    BY <1>3, NextServes, SetupDecides DEF StartInv, Serving, startVars
  <2>2. T!Provider = Provider /\ T!HeadersPanic = HeadersPanic /\ T!Callers = Callers
    BY <2>1 DEF T!Provider, Provider, T!HeadersPanic, HeadersPanic, T!Callers, Callers
  <2>3. ASSUME NEW c \in Callers, Caller(c)  PROVE T!Caller(c)
    <3>1. Dispatched(c) => T!Dispatched(c)
      BY <2>1 DEF Dispatched, T!Dispatched
    <3> QED
      BY <2>1, <2>2, <2>3, <3>1 DEF Caller, T!Caller, Submit, T!Submit, SubmitNothing,
         T!SubmitNothing, SubmitPanics, T!SubmitPanics, Done, T!Done, TimesOut,
         T!TimesOut, Works, T!Works
  <2>4. ASSUME NEW c \in Callers, Counts(c) \/ Returns(c)
        PROVE  T!Counts(c) \/ T!Returns(c)
    BY <2>1, <2>4 DEF Counts, T!Counts, Returns, T!Returns
  <2>5. Exit => T!Exit
    BY <2>1, <2>2 DEF Exit, T!Exit
  <2> QED BY <1>3, <2>2, <2>3, <2>4, <2>5 DEF Next, T!Next
<1>4. CASE UNCHANGED allVars
  BY <1>4, SetupDecides DEF allVars, vars, startVars, T!vars, Serving
<1> QED BY <1>1, <1>2, <1>3, <1>4, StartSteps

\* A plugin's start, with its configuration read and its commands run, is to
\* Telemetry no step at all: StartSpec implements it (ImplementsTelemetry).
THEOREM StartImplementsTelemetry == StartSpec => ImplementsTelemetry
<1>1. StartInit => StartInv
  BY InitStartInv
<1>2. StartInv /\ [StartNext]_allVars => StartInv'
  BY StepStartInv
<1>3. StartInit => T!Init
  BY InitRefines
<1>4. StartInv /\ [StartNext]_allVars => [T!Next]_T!vars
  BY StepRefines
<1> QED BY <1>1, <1>2, <1>3, <1>4, PTL DEF StartSpec, ImplementsTelemetry, T!Spec
-----------------------------------------------------------------------------
(* Where the configuration comes from                                      *)

\* What the steps before the schema leave behind: the source in use, and
\* nothing of the other one.
SourceInv ==
    /\ setup \in Startups
    /\ stage \in {"main", "document", "schema", "command", "served"}
    /\ stage = "main" => service = NoService /\ ~insecure /\ defaults = <<>>
                         /\ ran = <<>>
    /\ stage # "main" => service = EffectiveService /\ insecure = service.insecure
                         /\ ConfigurationVerdict = "configured"
    /\ ~Serving => config = NoTelemetry
    /\ Serving => config = UsedSection
    /\ stage # "command" => command = NoCommand
    /\ setup.url # "" =>
          /\ stage # "command" /\ ran = <<>> /\ files = setup.files
          /\ \A n \in DOMAIN defaults :
                defaults[n] # "" => Serving /\ n \in DOMAIN setup.environment

\* The source in use is decided by what the process finds.
LEMMA VerdictStays ==
    ASSUME UNCHANGED setup
    PROVE  ConfigurationVerdict' = ConfigurationVerdict
BY SetupDecides DEF ConfigurationVerdict, Unopenable, FileRefused, FilePanics, Invalid

LEMMA EmptyDomain == DOMAIN << >> = {}
OBVIOUS

\* Under the environment's URL no property of the schema has an entry.
LEMMA NothingConfigured ==
    ASSUME SourceInv, setup.url # "", stage # "main", NEW n
    PROVE  ConfigurationsOf(n) = {}
<1>1. service.schema = <<>>
  BY DEF SourceInv, EffectiveService, NoService
<1>2. DOMAIN service.schema = {}
  BY <1>1, EmptyDomain, Zenon
<1> QED BY <1>2 DEF ConfigurationsOf

LEMMA InitSourceInv == StartInit => SourceInv
BY DEF StartInit, SourceInv, Serving

LEMMA StopsSourceInv ==
    ASSUME SourceInv, NEW how, Stops(how)
    PROVE  SourceInv'
BY SetupDecides, VerdictStays DEF Stops, SourceInv, startVars, Serving

\* A property is made under the environment's URL: it has no default.
LEMMA MadeSourceInv ==
    ASSUME SourceInv, NEW n, NEW v, Made(n, v),
           UNCHANGED <<setup, service, insecure, files, config>>,
           ~Serving, stage' \in {"schema", "command"}, stage # "main",
           stage' # "command" => command' = NoCommand,
           setup.url # "" => v = "" /\ stage' # "command" /\ ran' = ran
    PROVE  SourceInv'
<1>1. setup.url # "" => \A p \in DOMAIN defaults' : defaults'[p] = ""
  BY DEF SourceInv, Made
<1> QED BY <1>1, SetupDecides, VerdictStays DEF SourceInv, Serving

LEMMA StepSourceInv ==
    ASSUME SourceInv, [StartNext]_allVars
    PROVE  SourceInv'
<1>1. CASE ReadConfiguration
  <2>1. CASE Stops(ConfigurationVerdict)
    BY <2>1, StopsSourceInv
  <2>2. CASE ~Stops(ConfigurationVerdict)
    BY <1>1, <2>2, SetupDecides, VerdictStays
       DEF ReadConfiguration, SourceInv, Serving, vars
  <2> QED BY <2>1, <2>2
<1>2. CASE LoadDocument
  <2>1. CASE Stops("failed")
    BY <2>1, StopsSourceInv
  <2>2. CASE ~Stops("failed")
    BY <1>2, <2>2, SetupDecides, VerdictStays
       DEF LoadDocument, SourceInv, Serving, vars
  <2> QED BY <2>1, <2>2
<1>3. CASE RefuseDataSources
  BY <1>3, StopsSourceInv DEF RefuseDataSources
<1>4. ASSUME NEW n \in setup.securities \cup setup.headers, MakeProperty(n)
      PROVE  SourceInv'
  <2>1. stage = "schema" /\ ~Serving /\ (setup.url # "" => ConfigurationsOf(n) = {})
    BY <1>4, NothingConfigured DEF MakeProperty, Serving
  <2>2. CASE ConfigurationsOf(n) = {}
    <3>1. Made(n, "") /\ UNCHANGED <<vars, setup, stage, service, insecure, command, files, ran>>
      BY <1>4, <2>2 DEF MakeProperty
    <3> QED BY <2>1, <3>1, MadeSourceInv DEF SourceInv, vars
  <2>3. CASE ConfigurationsOf(n) # {} /\ Stops("panicked")
    BY <2>3, StopsSourceInv
  <2>4. CASE /\ ConfigurationsOf(n) # {}
             /\ Made(n, DefaultValue(Configuration(n), Content(Configuration(n))))
             /\ UNCHANGED <<vars, setup, stage, service, insecure, command, files, ran>>
    BY <2>1, <2>4, MadeSourceInv DEF SourceInv, vars
  <2>5. CASE /\ ConfigurationsOf(n) # {}
             /\ stage' = "command"
             /\ UNCHANGED <<vars, setup, service, insecure, todo, files, defaults, ran>>
    BY <2>1, <2>5, SetupDecides, VerdictStays DEF SourceInv, Serving, vars
  <2> QED BY <1>4, <2>2, <2>3, <2>4, <2>5 DEF MakeProperty
<1>5. CASE RunReturns
  <2>1. stage = "command" /\ ~Serving /\ setup.url = ""
    BY <1>5 DEF RunReturns, Serving, SourceInv
  <2>2. CASE Stops("panicked")
    BY <2>2, StopsSourceInv
  <2>3. CASE ~Stops("panicked")
    BY <1>5, <2>1, <2>3, MadeSourceInv DEF RunReturns, SourceInv, vars
  <2> QED BY <2>2, <2>3
<1>6. CASE CommandWrites \/ CommandEnds \/ OutputReleased \/ DeadlinePasses
  <2>1. stage = "command"
    <3>1. stage # "command" => command = NoCommand
      BY DEF SourceInv
    <3>2. NoCommand.state = "none"
      BY DEF NoCommand
    <3> QED BY <1>6, <3>1, <3>2 DEF CommandWrites, CommandEnds, OutputReleased, DeadlinePasses
  <2>2. UNCHANGED <<vars, setup, stage, service, insecure, defaults, ran>>
    BY <1>6 DEF CommandWrites, CommandEnds, OutputReleased, DeadlinePasses
  <2> QED BY <2>1, <2>2, SetupDecides, VerdictStays DEF SourceInv, Serving, vars
<1>7. CASE Serve
  <2>1. \A n \in DOMAIN defaults' :
            defaults'[n] # "" => defaults[n] # "" \/ n \in DOMAIN setup.environment
    BY <1>7 DEF Serve, WithEnvironment
  <2>2. DOMAIN defaults' = DOMAIN defaults
    BY <1>7 DEF Serve
  <2> QED BY <1>7, <2>1, <2>2, SetupDecides, VerdictStays, EffectiveSection
             DEF Serve, SourceInv, Serving
<1>8. CASE Next /\ UNCHANGED startVars
  <2>1. UNCHANGED config
    BY <1>8 DEF Next, Caller, Submit, SubmitNothing, SubmitPanics, Done, TimesOut,
       Works, Exit, Counts, Returns
  <2> QED BY <1>8, <2>1, SetupDecides, VerdictStays DEF SourceInv, startVars, Serving
<1>9. CASE UNCHANGED allVars
  BY <1>9, SetupDecides, VerdictStays DEF SourceInv, allVars, vars, startVars, Serving
<1> QED BY <1>1, <1>2, <1>3, <1>4, <1>5, <1>6, <1>7, <1>8, <1>9 DEF StartNext, Starts

LEMMA SourceInvDecides ==
    ASSUME SourceInv
    PROVE  EffectiveConfiguration
<1>1. CASE setup.url # ""
  <2>1. insecure => setup.skipVerify
    BY <1>1 DEF SourceInv, EffectiveService, NoService
  <2> QED BY <1>1, <2>1 DEF SourceInv, EffectiveConfiguration, UsedSection
<1>2. CASE setup.url = ""
  <2>1. insecure => setup.file.service.insecure
    BY <1>2 DEF SourceInv, EffectiveService
  <2>2. Serving => ~Unopenable /\ ~FileRefused /\ ~Invalid(setup.file.service)
    BY <1>2 DEF SourceInv, ConfigurationVerdict, EffectiveService, Serving
  <2>3. Serving => /\ setup.file.state = "plain" /\ setup.file.version = "1"
                   /\ setup.file.service.plugin \in {"", "same"}
    BY <2>2, StartupsAssumption DEF SourceInv, Unopenable, FileRefused, Invalid
  <2> QED BY <1>2, <2>1, <2>3 DEF SourceInv, EffectiveConfiguration, UsedSection
<1> QED BY <1>1, <1>2
-----------------------------------------------------------------------------
(* Where the defaults come from                                            *)

\* Files change by commands alone, and a command that has ended well has left
\* what it leaves.
FilesInv ==
    /\ files \in [DOMAIN setup.files -> FileContent]
    /\ \A f \in DOMAIN setup.files \ WrittenByCommands : files[f] = setup.files[f]
    /\ stage = "command" =>
          /\ ConfigurationsOf(command.property) # {}
          /\ Commanded.command.given
          /\ command \in [property : {command.property}, ok : BOOLEAN,
                           state : {"running", "ended", "killed"},
                           late : BOOLEAN, piped : BOOLEAN]
          /\ command.ok =>
                /\ command.state = "ended"
                /\ Commanded.command.writes # "" =>
                      files[Commanded.command.writes] = Commanded.command.final

HonestInv == SourceInv /\ FilesInv /\ DefaultsAreHonest

\* An entry that is in use is one of the file's, and the one that the file has
\* for the property.
LEMMA ConfiguredEntry ==
    ASSUME SourceInv, stage # "main", NEW n, ConfigurationsOf(n) # {}
    PROVE  /\ setup.url = ""
           /\ EntriesFor(n) # {} /\ Configuration(n) = EntryFor(n)
           /\ Configuration(n) \in SchemaEntry
           /\ Configuration(n).command.writes \in WrittenByCommands
           /\ {Configuration(n).file, Configuration(n).command.writes} \ {""}
                 \subseteq DOMAIN setup.files
<1> DEFINE schema == setup.file.service.schema
<1>1. setup.url = ""
  BY NothingConfigured
<1>2. service = setup.file.service /\ setup \in Startups
  BY <1>1 DEF SourceInv, EffectiveService
<1>3. ConfigurationsOf(n) = EntriesFor(n)
  BY <1>2 DEF ConfigurationsOf, EntriesFor
<1>4. schema \in Seq(SchemaEntry)
  BY <1>2, StartupsAssumption
<1>5. EntriesFor(n) \subseteq DOMAIN schema /\ EntriesFor(n) \in SUBSET Nat
  BY <1>4 DEF EntriesFor
<1>6. \E i \in EntriesFor(n) : \A j \in EntriesFor(n) : i <= j
  BY <1>3, <1>5, LeastIsThere
<1>7. PICK i \in DOMAIN schema : EntryFor(n) = schema[i]
  BY <1>5, <1>6 DEF EntryFor
<1>8. Configuration(n) = EntryFor(n)
  BY <1>2, <1>3 DEF Configuration, EntryFor
<1>9. schema[i] \in SchemaEntry
  BY <1>4
<1>10. {schema[i].file, schema[i].command.writes} \ {""} \subseteq DOMAIN setup.files
  BY <1>2, StartupsAssumption
<1>11. schema[i].command.writes \in WrittenByCommands
  BY DEF WrittenByCommands
<1> HIDE DEF schema
<1> QED BY <1>1, <1>3, <1>7, <1>8, <1>9, <1>10, <1>11

\* A default that is looked up without a panic is what the content says.
LEMMA LookupSays ==
    ASSUME NEW c \in SchemaEntry, c.file # "", files[c.file] \in FileContent,
           ~LookupPanics(c)
    PROVE  DefaultValue(c, Content(c)) = Says(c, files[c.file])
<1>1. Content(c) = files[c.file]
  BY DEF Content
<1>2. files[c.file].kind \in {"text", "json", "number", "absent"}
  BY DEF FileContent
<1>3. c.content = "json" => files[c.file].kind # "number"
  BY DEF LookupPanics
<1> QED BY <1>1, <1>2, <1>3 DEF DefaultValue, Says, Unreadable

\* What the file has for a property does not change.
LEMMA EntriesStay ==
    ASSUME UNCHANGED setup, NEW n
    PROVE  /\ EntriesFor(n)' = EntriesFor(n) /\ EntryFor(n)' = EntryFor(n)
           /\ WrittenByCommands' = WrittenByCommands
BY DEF EntriesFor, EntryFor, WrittenByCommands

\* ... and so an honest default stays one, as long as it stays.
LEMMA HonestStays ==
    ASSUME UNCHANGED setup, NEW n, HonestDefault(n), defaults'[n] = defaults[n],
           n \in DOMAIN ran => n \in DOMAIN ran' /\ ran'[n] = ran[n]
    PROVE  HonestDefault(n)'
<1>1. /\ EntriesFor(n)' = EntriesFor(n) /\ EntryFor(n)' = EntryFor(n)
      /\ WrittenByCommands' = WrittenByCommands
  BY EntriesStay
<1> QED BY <1>1 DEF HonestDefault, Says

\* What a step that makes no property leaves of the defaults.
LEMMA DefaultsStay ==
    ASSUME DefaultsAreHonest, UNCHANGED <<setup, defaults, ran>>, Serving' = Serving
    PROVE  DefaultsAreHonest'
<1>1. ASSUME NEW n, HonestDefault(n)
      PROVE  HonestDefault(n)'
  BY <1>1, HonestStays
<1> QED BY <1>1 DEF DefaultsAreHonest

\* The entry in use for a property is decided by the service configuration.
LEMMA ConfigurationStays ==
    ASSUME UNCHANGED service, NEW n
    PROVE  ConfigurationsOf(n)' = ConfigurationsOf(n) /\ Configuration(n)' = Configuration(n)
BY DEF ConfigurationsOf, Configuration

\* What such a step leaves of the files, when no command is under way.
LEMMA FilesStay ==
    ASSUME FilesInv, UNCHANGED <<setup, files>>,
           \/ stage' # "command"
           \/ UNCHANGED <<stage, service, command>>
    PROVE  FilesInv'
<1>1. WrittenByCommands' = WrittenByCommands
  BY EntriesStay
<1>2. CASE stage' # "command"
  BY <1>1, <1>2 DEF FilesInv
<1>3. CASE UNCHANGED <<stage, service, command>>
  <2>1. PICK n : n = command.property
    OBVIOUS
  <2>2. Commanded' = Commanded
        /\ ConfigurationsOf(command.property)' = ConfigurationsOf(command.property)
    BY <1>3, <2>1, ConfigurationStays DEF Commanded
  <2> QED BY <1>1, <1>3, <2>2 DEF FilesInv
<1> QED BY <1>2, <1>3

\* A property is made honestly if its own default is honest.
LEMMA MadeHonestly ==
    ASSUME DefaultsAreHonest, UNCHANGED setup, NEW n, NEW v, Made(n, v),
           ~Serving, ~Serving',
           \/ ran' = ran
           \/ \E how : ran' = [p \in DOMAIN ran \cup {n} |->
                                IF p = n THEN how ELSE ran[p]],
           HonestDefault(n)'
    PROVE  DefaultsAreHonest'
<1>1. /\ DOMAIN defaults' = DOMAIN defaults \cup {n}
      /\ \A p \in DOMAIN defaults : p # n => defaults'[p] = defaults[p]
  BY DEF Made
<1>2. \A p \in DOMAIN ran : p \in DOMAIN ran' /\ (p # n => ran'[p] = ran[p])
  OBVIOUS
<1>3. ASSUME NEW p \in DOMAIN defaults, p # n
      PROVE  HonestDefault(p)'
  <2>1. HonestDefault(p)
    BY DEF DefaultsAreHonest
  <2> QED BY <1>1, <1>2, <1>3, <2>1, HonestStays
<1> QED BY <1>1, <1>3 DEF DefaultsAreHonest

\* A property without an entry in use has none in the source, or no source.
LEMMA NoEntry ==
    ASSUME SourceInv, stage # "main", NEW n, ConfigurationsOf(n) = {}
    PROVE  setup.url # "" \/ EntriesFor(n) = {}
BY DEF SourceInv, EffectiveService, ConfigurationsOf, EntriesFor

\* The default that is looked up for a property is honest, as long as a command
\* that is reported to have ended well has left what it leaves.
LEMMA FoundHonestly ==
    ASSUME SourceInv, FilesInv, stage # "main", UNCHANGED setup,
           NEW n, ConfigurationsOf(n) # {}, ~LookupPanics(Configuration(n)),
           Made(n, DefaultValue(Configuration(n), Content(Configuration(n)))),
           Configuration(n).command.given =>
              /\ n \in DOMAIN ran'
              /\ ran'[n] = "ok" /\ Configuration(n).command.writes # "" =>
                    files[Configuration(n).command.writes] =
                       Configuration(n).command.final
    PROVE  HonestDefault(n)'
<1> DEFINE c == Configuration(n)
<1>1. /\ setup.url = "" /\ EntriesFor(n) # {} /\ c = EntryFor(n) /\ c \in SchemaEntry
      /\ {c.file, c.command.writes} \ {""} \subseteq DOMAIN setup.files
  BY ConfiguredEntry
<1>2. defaults'[n] = DefaultValue(c, Content(c))
  BY DEF Made
<1>3. EntriesFor(n)' # {} /\ EntryFor(n)' = c /\ WrittenByCommands' = WrittenByCommands
      /\ setup'.url = ""
  BY <1>1, EntriesStay
<1>4. c.file # "" => defaults'[n] = Says(c, files[c.file])
  <2>1. SUFFICES ASSUME c.file # ""
                 PROVE  DefaultValue(c, Content(c)) = Says(c, files[c.file])
    BY <1>2
  <2>2. files[c.file] \in FileContent
    BY <1>1, <2>1 DEF FilesInv
  <2> HIDE DEF c
  <2> QED BY <1>1, <2>1, <2>2, LookupSays DEF c
<1>5. c.file = "" => defaults'[n] = c.default
  BY <1>2 DEF DefaultValue
<1>6. c.file # "" /\ c.file \notin WrittenByCommands =>
          files[c.file] = setup'.files[c.file]
  BY <1>1 DEF FilesInv
<1>7. c.command.given =>
          /\ n \in DOMAIN ran'
          /\ ran'[n] = "ok" /\ c.command.writes # "" =>
                files[c.command.writes] = c.command.final
  OBVIOUS
<1>8. /\ c.file = "" => defaults'[n] = c.default
      /\ c.command.given =>
            /\ n \in DOMAIN ran'
            /\ c.file # "" /\ c.file = c.command.writes /\ ran'[n] = "ok" =>
                  defaults'[n] = Says(c, c.command.final)
      /\ c.file # "" /\ c.file \notin WrittenByCommands =>
            defaults'[n] = Says(c, setup'.files[c.file])
  <2> HIDE DEF c
  <2> QED BY <1>4, <1>5, <1>6, <1>7
<1> HIDE DEF c
<1> QED BY <1>3, <1>8 DEF HonestDefault, Says

LEMMA InitHonestInv == StartInit => HonestInv
<1> SUFFICES ASSUME StartInit PROVE FilesInv /\ DefaultsAreHonest
  BY InitSourceInv DEF HonestInv
<1>1. setup.files \in [DOMAIN setup.files -> FileContent]
  BY StartupsAssumption DEF StartInit
<1> QED BY <1>1 DEF StartInit, FilesInv, DefaultsAreHonest

\* A command's own steps.
LEMMA CommandHonestInv ==
    ASSUME HonestInv, CommandWrites \/ CommandEnds \/ OutputReleased \/ DeadlinePasses
    PROVE  FilesInv' /\ DefaultsAreHonest'
<1>1. stage = "command" /\ SourceInv
  <2>1. stage # "command" => command = NoCommand
    BY DEF HonestInv, SourceInv
  <2>2. NoCommand.state = "none"
    BY DEF NoCommand
  <2> QED BY <2>1, <2>2
         DEF HonestInv, CommandWrites, CommandEnds, OutputReleased, DeadlinePasses
<1>2. /\ UNCHANGED <<setup, stage, service, defaults, ran>> /\ Serving' = Serving
      /\ command'.property = command.property
  BY <1>1 DEF HonestInv, FilesInv, Serving,
              CommandWrites, CommandEnds, OutputReleased, DeadlinePasses
<1>3. DefaultsAreHonest'
  BY <1>2, DefaultsStay DEF HonestInv
<1> DEFINE c == Commanded
<1>4. Commanded' = c /\ ConfigurationsOf(command.property)' # {}
  <2>1. PICK n : n = command.property
    OBVIOUS
  <2>2. ConfigurationsOf(n)' = ConfigurationsOf(n) /\ Configuration(n)' = Configuration(n)
    BY <1>2, ConfigurationStays
  <2>3. Commanded = Configuration(n) /\ Commanded' = Configuration(n)'
    BY <1>2, <2>1 DEF Commanded
  <2>4. ConfigurationsOf(n) # {}
    BY <1>1, <2>1 DEF HonestInv, FilesInv
  <2>5. ConfigurationsOf(command.property)' = ConfigurationsOf(n)'
    BY <1>2, <2>1
  <2> QED BY <2>2, <2>3, <2>4, <2>5
<1>5. /\ c \in SchemaEntry /\ c.command.writes \in WrittenByCommands
      /\ c.command.writes # "" => c.command.writes \in DOMAIN setup.files
  <2>1. ConfigurationsOf(command.property) # {}
    BY <1>1 DEF HonestInv, FilesInv
  <2> QED BY <1>1, <2>1, ConfiguredEntry DEF Commanded
<1>6. WrittenByCommands' = WrittenByCommands
  BY <1>2, EntriesStay
<1>7. /\ c.command.given /\ c.command.final \in FileContent /\ c.command.forks \in BOOLEAN
      /\ setup.partial \in FileContent
  BY <1>1, <1>5, StartupsAssumption DEF HonestInv, FilesInv, SourceInv, SchemaEntry
<1> HIDE DEF c
<1>8. /\ files \in [DOMAIN setup.files -> FileContent]
      /\ \A f \in DOMAIN setup.files \ WrittenByCommands : files[f] = setup.files[f]
      /\ command \in [property : {command.property}, ok : BOOLEAN,
                      state : {"running", "ended", "killed"},
                      late : BOOLEAN, piped : BOOLEAN]
      /\ command.ok => /\ command.state = "ended"
                       /\ c.command.writes # "" =>
                             files[c.command.writes] = c.command.final
  BY <1>1 DEF HonestInv, FilesInv, c
<1>9. SUFFICES
         /\ files' \in [DOMAIN setup.files -> FileContent]
         /\ \A f \in DOMAIN setup.files \ WrittenByCommands : files'[f] = setup.files[f]
         /\ command' \in [property : {command'.property}, ok : BOOLEAN,
                          state : {"running", "ended", "killed"},
                          late : BOOLEAN, piped : BOOLEAN]
         /\ command'.ok => /\ command'.state = "ended"
                           /\ c.command.writes # "" =>
                                 files'[c.command.writes] = c.command.final
  BY <1>2, <1>3, <1>4, <1>6, <1>7 DEF FilesInv
<1>10. QED
  <2>1. CASE CommandWrites
    <3>1. /\ command' = command /\ c.command.writes # "" /\ command.state = "running"
          /\ files' = [files EXCEPT ![c.command.writes] = setup.partial]
      BY <2>1 DEF CommandWrites, c
    <3> QED BY <1>5, <1>7, <1>8, <3>1
  <2>2. CASE CommandEnds
    <3>1. PICK ok \in BOOLEAN, piped \in {FALSE, c.command.forks} :
             /\ command' = [command EXCEPT !.state = "ended", !.ok = ok, !.piped = piped]
             /\ files' = IF ok /\ c.command.writes # ""
                         THEN [files EXCEPT ![c.command.writes] = c.command.final]
                         ELSE files
      BY <2>2 DEF CommandEnds, c
    <3>2. command' \in [property : {command'.property}, ok : BOOLEAN,
                        state : {"running", "ended", "killed"},
                        late : BOOLEAN, piped : BOOLEAN]
      BY <1>7, <1>8, <3>1
    <3>3. command'.state = "ended" /\ command'.ok = ok
      BY <1>8, <3>1
    <3> QED BY <1>5, <1>7, <1>8, <3>1, <3>2, <3>3
  <2>3. CASE OutputReleased
    <3>1. command' = [command EXCEPT !.piped = FALSE] /\ files' = files
      BY <2>3 DEF OutputReleased
    <3>2. /\ command' \in [property : {command'.property}, ok : BOOLEAN,
                           state : {"running", "ended", "killed"},
                           late : BOOLEAN, piped : BOOLEAN]
          /\ command'.state = command.state /\ command'.ok = command.ok
      BY <1>8, <3>1
    <3> QED BY <1>5, <1>7, <1>8, <3>1, <3>2
  <2>4. CASE DeadlinePasses
    <3>1. PICK piped \in {FALSE, c.command.forks} :
             command' = IF command.state = "running"
                        THEN [command EXCEPT !.late = TRUE, !.state = "killed",
                                             !.piped = piped]
                        ELSE [command EXCEPT !.late = TRUE]
      BY <2>4 DEF DeadlinePasses, c
    <3>2. files' = files
      BY <2>4 DEF DeadlinePasses
    <3>3. /\ command' \in [property : {command'.property}, ok : BOOLEAN,
                           state : {"running", "ended", "killed"},
                           late : BOOLEAN, piped : BOOLEAN]
          /\ command'.ok = command.ok
          /\ command'.state # command.state => command.state = "running"
      BY <1>7, <1>8, <3>1
    <3> QED BY <1>5, <1>7, <1>8, <3>2, <3>3
  <2> QED BY <1>1, <2>1, <2>2, <2>3, <2>4

\* A step of the start that runs no command.
LEMMA MakeHonestInv ==
    ASSUME HonestInv, NEW n, MakeProperty(n)
    PROVE  FilesInv' /\ DefaultsAreHonest'
<1>1. /\ stage = "schema" /\ ~Serving /\ SourceInv /\ FilesInv /\ DefaultsAreHonest
      /\ setup' = setup /\ files' = files
  BY DEF HonestInv, MakeProperty, Serving, Stops, startVars, Made
<1> DEFINE c == Configuration(n)
<1>2. CASE ConfigurationsOf(n) = {}
  <2>1. /\ Made(n, "") /\ UNCHANGED <<stage, ran>>
    BY <1>2 DEF MakeProperty
  <2>2. defaults'[n] = "" /\ ~Serving'
    BY <1>1, <2>1 DEF Made, Serving
  <2>3. HonestDefault(n)'
    <3>1. setup.url # "" \/ EntriesFor(n) = {}
      BY <1>1, <1>2, NoEntry
    <3>2. setup'.url = setup.url /\ EntriesFor(n)' = EntriesFor(n)
      BY <1>1, EntriesStay
    <3> QED BY <2>2, <3>1, <3>2 DEF HonestDefault
  <2>4. DefaultsAreHonest'
    BY <1>1, <2>1, <2>2, <2>3, MadeHonestly
  <2> QED BY <1>1, <2>1, <2>4, FilesStay
<1>3. CASE Stops("panicked")
  BY <1>1, <1>3, FilesStay, DefaultsStay DEF Stops, startVars, Serving
<1>4. CASE /\ ConfigurationsOf(n) # {} /\ ~c.command.given /\ ~LookupPanics(c)
           /\ Made(n, DefaultValue(c, Content(c)))
           /\ UNCHANGED <<stage, ran>>
  <2>1. ~Serving' /\ stage' # "command"
    BY <1>1, <1>4 DEF Serving
  <2>2. HonestDefault(n)'
    BY <1>1, <1>4, FoundHonestly
  <2>3. DefaultsAreHonest'
    <3>1. PICK v : Made(n, v)
      BY <1>4
    <3> QED BY <1>1, <1>4, <2>1, <2>2, <3>1, MadeHonestly
  <2> QED BY <1>1, <2>1, <2>3, FilesStay
<1>5. CASE /\ ConfigurationsOf(n) # {} /\ c.command.given /\ stage' = "command"
           /\ command' = [property |-> n, state |-> "running", ok |-> FALSE,
                          late |-> FALSE, piped |-> TRUE]
           /\ UNCHANGED <<service, defaults, ran>>
  <2>1. Commanded' = c /\ ConfigurationsOf(n)' # {} /\ command'.property = n
    BY <1>5, ConfigurationStays DEF Commanded
  <2>2. WrittenByCommands' = WrittenByCommands
    BY <1>1, EntriesStay
  <2>3. Serving' = Serving
    BY <1>1, <1>5 DEF Serving
  <2>4. ConfigurationsOf(command.property)' # {} /\ Commanded'.command.given
    <3>1. ConfigurationsOf(command.property)' = ConfigurationsOf(n)'
      BY <2>1
    <3> QED BY <1>5, <2>1, <3>1
  <2>5. FilesInv'
    <3>1. /\ command'.state = "running" /\ ~command'.ok
          /\ command' \in [property : {command'.property}, ok : BOOLEAN,
                           state : {"running", "ended", "killed"},
                           late : BOOLEAN, piped : BOOLEAN]
      BY <1>5, Zenon
    <3> HIDE DEF c
    <3> QED BY <1>1, <2>2, <2>4, <3>1 DEF FilesInv
  <2> QED BY <1>1, <1>5, <2>3, <2>5, DefaultsStay
<1> QED BY <1>2, <1>3, <1>4, <1>5 DEF MakeProperty

LEMMA ReturnHonestInv ==
    ASSUME HonestInv, RunReturns
    PROVE  FilesInv' /\ DefaultsAreHonest'
<1>1. /\ stage = "command" /\ ~Serving /\ SourceInv /\ FilesInv /\ DefaultsAreHonest
      /\ setup' = setup /\ files' = files
  BY DEF HonestInv, RunReturns, Serving, Stops, startVars
<1>2. CASE Stops("panicked")
  BY <1>1, <1>2, FilesStay, DefaultsStay DEF Stops, startVars, Serving
<1>3. CASE ~Stops("panicked")
  <2>1. PICK n : n = command.property
    OBVIOUS
  <2> DEFINE c == Configuration(n)
  <2>2. c = Commanded /\ ConfigurationsOf(n) # {}
    BY <1>1, <2>1 DEF Commanded, FilesInv
  <2>3. PICK how \in {"ok", "failed"} :
           /\ ran' = [p \in DOMAIN ran \cup {n} |-> IF p = n THEN how ELSE ran[p]]
           /\ how = "ok" => command.ok
    BY <1>3, <2>1 DEF RunReturns, Reported
  <2>4. ~LookupPanics(c) /\ Made(n, DefaultValue(c, Content(c))) /\ stage' = "schema"
    BY <1>3, <2>1, <2>2 DEF RunReturns
  <2>5. n \in DOMAIN ran' /\ ran'[n] = how
    BY <2>3
  <2>6. command.ok /\ c.command.writes # "" => files[c.command.writes] = c.command.final
    BY <1>1, <2>2 DEF FilesInv
  <2>7. HonestDefault(n)'
    <3>1. stage # "main"
      BY <1>1
    <3>2. c.command.given =>
              /\ n \in DOMAIN ran'
              /\ ran'[n] = "ok" /\ c.command.writes # "" =>
                    files[c.command.writes] = c.command.final
      BY <2>3, <2>5, <2>6
    <3> QED BY <1>1, <2>2, <2>4, <3>1, <3>2, FoundHonestly
  <2>8. ~Serving' /\ stage' # "command"
    BY <2>4 DEF Serving
  <2>9. DefaultsAreHonest'
    <3>1. PICK v : Made(n, v)
      BY <2>4
    <3> QED BY <1>1, <2>3, <2>7, <2>8, <3>1, MadeHonestly
  <2> QED BY <1>1, <2>8, <2>9, FilesStay
<1> QED BY <1>2, <1>3

LEMMA ServeHonestInv ==
    ASSUME HonestInv, Serve
    PROVE  FilesInv' /\ DefaultsAreHonest'
<1>1. /\ stage = "schema" /\ stage' = "served" /\ FilesInv /\ DefaultsAreHonest
      /\ UNCHANGED <<setup, files, ran>>
      /\ defaults' = [n \in DOMAIN defaults |-> WithEnvironment(n)]
  BY DEF HonestInv, Serve
<1>2. ASSUME NEW n \in DOMAIN defaults, n \notin DOMAIN setup.environment
      PROVE  HonestDefault(n)'
  <2>1. HonestDefault(n) /\ defaults'[n] = defaults[n]
    BY <1>1, <1>2 DEF DefaultsAreHonest, Serving, WithEnvironment
  <2> QED BY <1>1, <2>1, HonestStays
<1>3. \A n \in DOMAIN defaults :
          n \in DOMAIN setup.environment => defaults'[n] = setup.environment[n]
  BY <1>1 DEF WithEnvironment
<1>4. DefaultsAreHonest'
  BY <1>1, <1>2, <1>3 DEF DefaultsAreHonest, Serving
<1> QED BY <1>1, <1>4, FilesStay

LEMMA StepHonestInv ==
    ASSUME HonestInv, [StartNext]_allVars
    PROVE  HonestInv'
<1>1. SourceInv'
  BY StepSourceInv DEF HonestInv
<1> SUFFICES FilesInv' /\ DefaultsAreHonest'
  BY <1>1 DEF HonestInv
<1>2. ASSUME UNCHANGED <<setup, files, defaults, ran>>, Serving' = Serving,
             stage' # "command" \/ UNCHANGED <<stage, service, command>>
      PROVE  FilesInv' /\ DefaultsAreHonest'
  BY <1>2, FilesStay, DefaultsStay DEF HonestInv
<1>3. CASE ReadConfiguration \/ LoadDocument \/ RefuseDataSources
  <2>1. /\ UNCHANGED <<setup, files, defaults, ran>> /\ Serving' = Serving
        /\ stage' \in {"document", "schema"} \/ UNCHANGED <<stage, service, command>>
    BY <1>3 DEF ReadConfiguration, LoadDocument, RefuseDataSources, Stops, startVars, Serving
  <2> QED BY <1>2, <2>1
<1>4. ASSUME NEW n \in setup.securities \cup setup.headers, MakeProperty(n)
      PROVE  FilesInv' /\ DefaultsAreHonest'
  BY <1>4, MakeHonestInv
<1>5. CASE RunReturns
  BY <1>5, ReturnHonestInv
<1>6. CASE CommandWrites \/ CommandEnds \/ OutputReleased \/ DeadlinePasses
  BY <1>6, CommandHonestInv
<1>7. CASE Serve
  BY <1>7, ServeHonestInv
<1>8. CASE UNCHANGED startVars \/ UNCHANGED allVars
  BY <1>2, <1>8 DEF startVars, allVars, Serving
<1> QED BY <1>3, <1>4, <1>5, <1>6, <1>7, <1>8 DEF StartNext, Starts

(***************************************************************************)
(* EffectiveConfiguration: the source of the configuration is decided once *)
(* (getServiceConfiguration) and nothing of the other one takes effect.    *)
(***************************************************************************)
THEOREM ConfigurationIsEffective == StartSpec => []EffectiveConfiguration
<1>1. SourceInv => EffectiveConfiguration
  BY SourceInvDecides
<1> QED BY <1>1, InitSourceInv, StepSourceInv, PTL DEF StartSpec

(***************************************************************************)
(* DefaultsAreHonest: the default of every property that is made comes     *)
(* from where the documentation says it comes from, however its command    *)
(* and the files it shares with other commands are interleaved with the    *)
(* deadline (configureProviderPropertyFromPluginConfig, ExecuteCommand,    *)
(* GetDefaultValue).                                                       *)
(***************************************************************************)
THEOREM DefaultsStayHonest == StartSpec => []DefaultsAreHonest
<1>1. HonestInv => DefaultsAreHonest
  BY DEF HonestInv
<1> QED BY <1>1, InitHonestInv, StepHonestInv, PTL DEF StartSpec
=============================================================================
