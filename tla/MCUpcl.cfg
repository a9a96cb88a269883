\* The register files that upcl reads.  A description ends when it is built
\* or refused, so runs end.
SPECIFICATION Spec
CONSTANTS
    Declarations <- MCDeclarations
    MaxDeclarations = 3
    Longer <- MCLonger
    Natural <- MCNatural
INVARIANTS DefinedAsDeclared OneStorage
CHECK_DEADLOCK FALSE
