SPECIFICATION Spec
CONSTANTS
    Source = src
    Path = {src, other}
    Exposed <- BetweenCalls
    Faulty <- UntilReplaced
    MaxVersions = 6
INVARIANTS
    OnlyWholePackages
    SavesAgain
PROPERTIES
    NoSilentOverwrite
    SavesAtomically
