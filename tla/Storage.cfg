SPECIFICATION Spec
CONSTANTS
    None = None
    Zero = Zero
    Parts = {"journal", "tree", "usb", "mounts", "root", "service", "queue", "registry", "partition", "wrapping"}
INVARIANTS
    JournalRecovers
    TreesSound
    
CHECK_DEADLOCK FALSE
