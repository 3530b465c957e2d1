SPECIFICATION Spec
CONSTANTS
    Ports = {p1, p2}
    Models <- ModelsValue
    PolicyFiles <- PolicyFilesValue
    MaxPlugs = 2
    Domains = {d1}
    MaxCommands = 3
    MayFail = {"chroot", "stat", "chown", "mount", "umount"}
SYMMETRY PortSymmetry
INVARIANTS OfferedAllowed QuietScanExact AttachedUsable
CHECK_DEADLOCK FALSE
