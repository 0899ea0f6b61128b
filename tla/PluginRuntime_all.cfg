SPECIFICATION Spec
CONSTANTS
    Names = {"alpha", "beta"}
    Users = {"ann", "bob"}
    Bot = "bot"
    Late = "late"
    None = "none"
    MaxVersion = 3
    Conduct <- MCConduct
    Starts <- MCStarts
    Builtin = {"builtin"}
    Hosts = {"github", "evil"}
    ArchiveHosts = {"github"}
    MaxRedirects = 1
INVARIANTS
    FoldersStayWhole
    OpenedPluginsAreClosedOnce
PROPERTIES
    UpdatesCatchUp
