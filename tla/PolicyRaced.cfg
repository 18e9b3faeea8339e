SPECIFICATION Spec
CONSTANTS
    Workspaces = {w1}
    Calls = {c1}
    Directories <- MCDirectories
    Roots <- MCRoots
    Protected <- MCProtected
    ScriptRoots <- MCScriptRoots
    PolicySets = {"default", "alt"}
    DefaultSet = "default"
    WorkspacePaths <- MCWorkspacePaths
    MountSources <- MCMountSources
    MountNames = {"m"}
    Configs <- MCConfigs
    MaxRestarts = 1
    MaxWrites = 2
    MaxFields = 2
    MaxAbsent = 1
    None = None
    Keep = Keep
INVARIANTS
    LiveHasItsWorkspace
CHECK_DEADLOCK FALSE
