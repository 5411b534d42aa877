\* Schemas of every kind, and searches and reads of small collections.
\* Terraform runs command after command, or the provider stops while it starts.
CONSTANTS
    Compliant <- MCCompliant
    StackDepth = 3
    Setups <- AllSetups
    FloatText <- MCFloatText
    IntegerText <- MCIntegerText
SPECIFICATION Spec
INVARIANTS
    SchemasFollowDocument
    RolesAreStable
    MatchIsUnique
    HitsAreFound
    IdsRoundTrip
