-------------------------- MODULE PluginStartupProps --------------------------
(***************************************************************************)
(* What a start, and the run it leads to, promise.                         *)
(***************************************************************************)
EXTENDS PluginStartup

Serving == stage = "served"

(***************************************************************************)
(* The environment's URL goes before the file (getServiceConfiguration):   *)
(* under it nothing the file says has any effect, neither its telemetry    *)
(* nor a command nor a default of its.  Without it a plugin serves only    *)
(* what a file of the right version has for it and for this plugin         *)
(* version.  Certificates go unverified only if the source in use says so. *)
(***************************************************************************)
EffectiveConfiguration ==
    /\ setup.url # "" =>
          /\ insecure => setup.skipVerify
          /\ config = NoTelemetry
          /\ ran = <<>> /\ files = setup.files
          /\ \A n \in DOMAIN defaults :
                defaults[n] # "" => Serving /\ n \in DOMAIN setup.environment
    /\ setup.url = "" =>
          /\ insecure => setup.file.service.insecure
          /\ Serving =>
                /\ setup.file.state = "plain" /\ setup.file.version = "1"
                /\ setup.file.service.plugin \in {"", "same"}
                /\ config = setup.file.service.telemetry

\* What a file's content says, under a content type.
Says(c, content) ==
    CASE c.content = "raw" /\ content.kind # "absent" -> content.text
      [] c.content = "json" /\ content.kind = "json" -> content.value
      [] OTHER -> ""

\* The first entry of its name counts (GetSchemaPropertyConfiguration).
EntriesFor(n) ==
    {i \in DOMAIN setup.file.service.schema : setup.file.service.schema[i].name = n}
EntryFor(n) ==
    setup.file.service.schema[CHOOSE i \in EntriesFor(n) : \A j \in EntriesFor(n) : i <= j]
WrittenByCommands ==
    {setup.file.service.schema[i].command.writes :
        i \in DOMAIN setup.file.service.schema}

\* Without the environment, what the entry for n gives it.
HonestDefault(n) ==
    IF setup.url # "" \/ EntriesFor(n) = {} THEN defaults[n] = ""
    ELSE LET c == EntryFor(n)
         IN /\ c.file = "" => defaults[n] = c.default
            /\ c.command.given =>
                  /\ n \in DOMAIN ran
                  /\ c.file # "" /\ c.file = c.command.writes /\ ran[n] = "ok" =>
                        defaults[n] = Says(c, c.command.final)
            /\ c.file # "" /\ c.file \notin WrittenByCommands =>
                  defaults[n] = Says(c, setup.files[c.file])

(***************************************************************************)
(* docs/plugin_configuration_schema.md: the command is executed before the *)
(* value is assigned.  A property whose command the plugin reports as done *)
(* has for a default what that command wrote, not what was there before    *)
(* and not what a killed command has left; one without a file has its      *)
(* default_value, which a file goes before; an error leaves it empty; and  *)
(* the environment goes before all of them.                                *)
(***************************************************************************)
DefaultsAreHonest ==
    \A n \in DOMAIN defaults :
        IF Serving /\ n \in DOMAIN setup.environment
        THEN defaults[n] = setup.environment[n]
        ELSE HonestDefault(n)

Orphaned == command.state \in {"ended", "killed"} /\ command.piped

(***************************************************************************)
(* Every run ends: the plugin starts or says that it cannot, and then each *)
(* operation finishes, however long a command takes and however silent the *)
(* telemetry service is, unless the provider panics.  Excepted is a        *)
(* command that leaves a process behind with its output (see               *)
(* CommandsTimeOut).                                                       *)
(***************************************************************************)
RunsEnd ==
    \A c \in Callers :
        \/ <>(caller[c] = "finished" \/ process \in {"panicked", "failed"})
        \/ <>[]Orphaned

(***************************************************************************)
(* "If the command execution does not finish within the expected time      *)
(* (either before CommandTimeout or before the default timeout 10s) a      *)
(* timeout error will be returned" (ExecuteCommand): no command holds the  *)
(* start for ever.                                                         *)
(***************************************************************************)
CommandsTimeOut ==
    stage = "command" ~> stage # "command" \/ process # "starting"

(***************************************************************************)
(* A started plugin counts its runs as Telemetry promises for the section  *)
(* of the configuration in use: until it serves, and if it never does,     *)
(* nothing is counted, and afterwards every step is one of Telemetry's.    *)
(***************************************************************************)
UsedSection == IF setup.url # "" THEN NoTelemetry ELSE setup.file.service.telemetry
T == INSTANCE Telemetry WITH
         config <- UsedSection,
         process <- IF Serving THEN process ELSE "running"
ImplementsTelemetry == T!Spec
=============================================================================
