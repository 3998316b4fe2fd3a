\* Three structures, a table of three, pid 3 without a directory in /proc.
SPECIFICATION ProcSpec
CONSTANTS
    MaxObjs = 3
    MaxPid = 3
    MaxProcs = 3
    ProcMaxPIDS = 3
    NumCpus = 2
    Statuses = {7}
    Sigs = {"TERM", "STOP", "CONT"}
    Targets = {0}
    Controllers = {3}
    Controlled = {2}
    Handled = {"TERM"}
    Masks <- MCMasks
INVARIANTS
    TableIsExact
    DirectoryIsLive
    PidsUniqueUnlessRaced
    
CHECK_DEADLOCK FALSE
