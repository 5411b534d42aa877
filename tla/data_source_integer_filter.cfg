\* A search with a filter on an integer.
\* Terraform runs command after command.
CONSTANTS
    Compliant <- MCCompliant
    StackDepth = 3
    Setups <- FilterSetups
    FloatText <- MCFloatText
    IntegerText <- MCIntegerText
SPECIFICATION Spec
INVARIANTS
    PrimitivesFilter
