\* A property with a command of every kind.
\* The process ends: served to the end, refused or panicked.
CONSTANTS
    Operations = {create}
    PluginRun = plugin
    Properties <- AllProperties
    Startups <- ForkingStarts
SPECIFICATION FairStartSpec
CHECK_DEADLOCK FALSE
PROPERTIES
    CommandsTimeOut
