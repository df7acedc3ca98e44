SPECIFICATION Spec
CONSTANTS
    MaxModal = 2
INVARIANTS TypeOK OneSecondaryScreen LoginNeverLocked CancelWhileUp LogoutFindsAMenu
