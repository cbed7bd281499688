SPECIFICATION Spec
CONSTANTS
    None = None
    Parts = {"queues", "ports", "rings", "mock", "descriptors", "disk", "usb", "handshake", "typing",
             "table", "serial", "sectors", "screen", "log", "display",
             "machine", "bars", "capabilities", "iommu", "mmio"}
INVARIANTS DiskDataSound  
\* A driver whose calls, strokes or reports are used up has nothing left to do.
CHECK_DEADLOCK FALSE
