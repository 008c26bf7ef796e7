SPECIFICATION Spec
CONSTANTS
    Tabs = {t1}
    Edits = {e1, e2}
    Adoptions = {}
    None = None
SYMMETRY Symmetry
INVARIANTS
    FailedStaysRecoverable
