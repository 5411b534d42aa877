------------------------------- MODULE Telemetry -------------------------------
(***************************************************************************)
(* How the provider counts its own executions                              *)
(* (openapi/plugin_config_telemetry_handler.go).  configureProvider counts *)
(* the plugin run; after it every resource or data source operation counts *)
(* itself before it does anything else.  Operations run concurrently, as   *)
(* Terraform walks its graph.  A submission is a goroutine (the sender)    *)
(* that calls the telemetry provider and hands its error to the caller     *)
(* over an unbuffered channel; the caller waits for it or for a timer.     *)
(***************************************************************************)
EXTENDS Naturals

CONSTANTS
    Operations,  \* the operations Terraform runs after the configuration
    PluginRun,   \* the configuration itself, which counts the plugin run
    Properties   \* the kinds of provider properties that telemetry may name

ASSUME PluginRunAssumption == PluginRun \notin Operations
ASSUME PropertiesAssumption == Properties \subseteq {"string", "set", "unknown"}

VARIABLES
    config,    \* the telemetry section of the plugin configuration
    caller,    \* the goroutine that runs the operation
    sender,    \* the goroutine that submits its metric
    counted,   \* how often the telemetry service has counted the operation
    process    \* the provider's process

vars == <<config, caller, sender, counted, process>>

Callers == Operations \cup {PluginRun}

\* `names` are the kinds of the properties in provider_schema_properties.
Section == {"absent", "invalid", "valid"}
Config == [graphite : Section, http : Section, names : SUBSET Properties]

\* Mutant: of two providers one is used.
ProviderOfTwo ==
    IF config.graphite = "valid" THEN "graphite"
    ELSE IF config.http = "valid" THEN "http"
    ELSE "none"

\* GetTelemetryConfiguration: one provider, and a valid one.
Provider ==
    IF config.http = "absent" /\ config.graphite = "valid" THEN "graphite"
    ELSE IF config.graphite = "absent" /\ config.http = "valid" THEN "http"
    ELSE "none"

\* GetTelemetryProviderConfiguration asserts every value to be a string; the
\* property `endpoints` is a set.
HeadersPanic == Provider = "http" /\ "set" \in config.names

Init ==
    /\ config \in Config
    /\ caller = [c \in Callers |-> "idle"]
    /\ sender = [c \in Callers |-> "none"]
    /\ counted = [c \in Callers |-> 0]
    /\ process = "running"

\* No operation is dispatched before the provider is configured.
Dispatched(c) ==
    /\ process = "running"
    /\ caller[c] = "idle"
    /\ c = PluginRun \/ caller[PluginRun] = "finished"

\* Mutant: the metric is submitted by the caller itself.
SubmitInline(c) ==
    /\ Dispatched(c)
    /\ Provider # "none"
    /\ ~HeadersPanic
    /\ caller' = [caller EXCEPT ![c] = "blocked"]
    /\ sender' = [sender EXCEPT ![c] = "calling"]
    /\ UNCHANGED <<config, counted, process>>

Submit(c) ==
    /\ Dispatched(c)
    /\ Provider # "none"
    /\ ~HeadersPanic
    /\ caller' = [caller EXCEPT ![c] = "waiting"]
    /\ sender' = [sender EXCEPT ![c] = "calling"]
    /\ UNCHANGED <<config, counted, process>>

SubmitNothing(c) ==
    /\ Dispatched(c)
    /\ Provider = "none"
    /\ caller' = [caller EXCEPT ![c] = "working"]
    /\ UNCHANGED <<config, sender, counted, process>>

SubmitPanics(c) ==
    /\ Dispatched(c)
    /\ HeadersPanic
    /\ process' = "panicked"
    /\ UNCHANGED <<config, caller, sender, counted>>

\* The submission is over, with an error or without, and the caller is there.
Done(c) ==
    /\ process = "running"
    /\ caller[c] = "waiting"
    /\ sender[c] = "offering"
    /\ caller' = [caller EXCEPT ![c] = "working"]
    /\ sender' = [sender EXCEPT ![c] = "ended"]
    /\ UNCHANGED <<config, counted, process>>

\* After telemetryTimeout the caller goes on; nothing stops the sender, which
\* will offer its error to nobody for as long as the process lives.
TimesOut(c) ==
    /\ process = "running"
    /\ caller[c] = "waiting"
    /\ caller' = [caller EXCEPT ![c] = "working"]
    /\ UNCHANGED <<config, sender, counted, process>>

\* The operation itself.
Works(c) ==
    /\ process = "running"
    /\ caller[c] = "working"
    /\ caller' = [caller EXCEPT ![c] = "finished"]
    /\ UNCHANGED <<config, sender, counted, process>>

\* Terraform stops the provider, and every goroutine left with it.
Exit ==
    /\ process = "running"
    /\ \A c \in Callers : caller[c] = "finished"
    /\ process' = "stopped"
    /\ UNCHANGED <<config, caller, sender, counted>>

\* The telemetry service (external) counts the metric, if it reaches it.
Counts(c) ==
    /\ process = "running"
    /\ sender[c] = "calling"
    /\ sender' = [sender EXCEPT ![c] = "called"]
    /\ counted' = [counted EXCEPT ![c] = @ + 1]
    /\ UNCHANGED <<config, caller, process>>

\* The call returns: answered, refused or failed.  There is no timeout on it,
\* it may as well never return.
Returns(c) ==
    /\ process = "running"
    /\ sender[c] \in {"calling", "called"}
    /\ sender' = [sender EXCEPT ![c] = "offering"]
    /\ UNCHANGED <<config, caller, counted, process>>

Caller(c) ==
    \/ Submit(c)
    \/ SubmitNothing(c)
    \/ SubmitPanics(c)
    \/ Done(c)
    \/ TimesOut(c)
    \/ Works(c)

Next ==
    \/ \E c \in Callers : Caller(c) \/ Counts(c) \/ Returns(c)
    \/ Exit

\* Goroutines are scheduled and the timer fires; the telemetry service owes
\* the provider nothing.
Fairness ==
    /\ \A c \in Callers : WF_vars(Caller(c))
    /\ WF_vars(Exit)

Spec == Init /\ [][Next]_vars
-----------------------------------------------------------------------------
(***************************************************************************)
(* The metrics are not inflated or invented: each operation is counted     *)
(* once at most and only after it was dispatched, never under a telemetry  *)
(* section that is missing, invalid or ambiguous, and the plugin run is    *)
(* submitted before any operation is.                                      *)
(***************************************************************************)
CountsAreHonest ==
    \A c \in Callers :
        /\ counted[c] <= 1
        /\ counted[c] = 1 =>
              /\ {config.graphite, config.http} = {"absent", "valid"}
              /\ caller[c] # "idle"
              /\ sender[PluginRun] # "none"
=============================================================================
