SPECIFICATION Spec
CONSTANTS
    Class <- ClassName
    FieldsOf <- FieldsOfClass
    CodeOf <- CodeOfClass
    SetValue <- MCSetValue
    Built <- MCBuilt
    Foreign <- MCForeign
    MaxOps <- MCMaxOps
    Object = {o1, o2}
INVARIANTS
    SizeExact
    RoundTrip
    ParseIsMerge
    CutIsHonest
SYMMETRY MCSymmetry
CHECK_DEADLOCK FALSE
