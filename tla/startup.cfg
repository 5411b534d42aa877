\* Every source of a configuration, every kind of property and command, every
\* telemetry section; the plugin run and two concurrent operations, a telemetry
\* service that may never answer.
\* The process ends: served to the end, refused or panicked.
CONSTANTS
    Operations = {create, read}
    PluginRun = plugin
    Properties <- AllProperties
    Startups <- AllStarts
SPECIFICATION FairStartSpec
CHECK_DEADLOCK FALSE
INVARIANTS
    EffectiveConfiguration
    DefaultsAreHonest
    CountsAreHonest
PROPERTIES
    RunsEnd
    ImplementsTelemetry
