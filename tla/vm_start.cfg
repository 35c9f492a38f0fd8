\* One VM that starts with a class file the parser accepts.
SPECIFICATION Spec
CONSTANTS
    VMs = {v1}
    NoVM = NoVM
    Texts <- SomeTexts
INVARIANTS
    ExitsOnlyIfNotFound
