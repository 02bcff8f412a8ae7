SPECIFICATION BindingsSpec
CONSTANTS
    Table <- BindingTable
    Metatables <- BindingMetatables
    NMem = 4
    NUd = 3
    CloseParents = {"nvpair", "core", "descriptors", "acl", "mac", "kvm", "be", "magic"}
    DropParents = {"nvpair", "core", "descriptors", "acl", "mac", "kvm", "be", "magic"}
    CloseInWalk = {"nvpair", "core", "casper", "descriptors", "acl", "mac", "be", "magic"}
    UseClosed = {"zfs", "zpool", "nvpair", "core", "casper", "acl", "mac", "kvm", "be",
                 "magic", "ifconfig"}
    Others = {"x1", "x2"}
    Extras <- SomeExtras
    MaxItems = 2
    Idents = {1, 2}
    Coroutines = {c1, c2, c3}
    NoCo = NoCo
    Share = FALSE
    Reuse = FALSE
    MaxChanges = 3
    Requests = {r1, r2}
    NoRequest = NoRequest
    MaxEntries = 3
INVARIANTS UsesLive FreedOnce NoDangling NothingLeft CallbackGetsShifted IterResults EventsLive HandlersHaveEvents ListStatesTrue
CHECK_DEADLOCK FALSE
