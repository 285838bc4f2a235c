SPECIFICATION Spec
CONSTANTS
    Invoices = {i1, i2, i3}
    Sessions = {s1, s2}
    Series = {A}
    None = None
INVARIANTS
    TypeOK
    Gapless
    OneNumberEach
PROPERTIES
    NumberIsForever
SYMMETRY Symmetry
