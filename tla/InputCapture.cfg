SPECIFICATION Spec
CONSTANTS
    Letters = {a, i}
    Reserved = {i}
INVARIANTS
    ModifiersFollow
    NothingStaysPressed
