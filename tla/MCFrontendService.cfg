CONSTANTS
    a = a
    b = b
    None = None
    Cases = {a, b}
    Values = {1, 2}
    Overrides <- TheOverrides
    Layouts = {7}
    Original <- TheFiles
    Edits <- TheEdits
SPECIFICATION Spec
INVARIANTS IndInv
PROPERTIES SaveKeepsLayout
