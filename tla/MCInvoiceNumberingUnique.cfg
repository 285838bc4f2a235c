SPECIFICATION Spec
CONSTANTS
    Invoices = {i1, i2}
    Sessions = {s1, s2}
    Series = {A}
    None = None
INVARIANT NumberNamesOneInvoice
