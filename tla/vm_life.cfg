\* Three VMs, one after the other or overlapping in any way.
SPECIFICATION Spec
CONSTANTS
    VMs = {v1, v2, v3}
    NoVM = NoVM
    Texts <- SomeTexts
INVARIANTS
    TypeOK
    CurrentNeverDangles
    SoleVMHasItsTable
PROPERTIES
    CurrentIsForgottenByItself
