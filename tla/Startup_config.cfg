\* Every command line of up to three tokens, before a file of each kind.
CONSTANTS
    None = None
    MaxTokens = 3
    Argvs <- MCArgvs
    FileSystems <- MCFileSystems
SPECIFICATION Spec
INVARIANTS
    CliWins
    ServesAsConfigured
\* The process ends.
CHECK_DEADLOCK FALSE
