SPECIFICATION Spec
CONSTANTS
    Stages <- MCOneProfile
    Gates <- MCGates
    Ops <- MCOps
    MaxTime = 3
INVARIANT TypeOK
INVARIANT OncePerEpisode
INVARIANT NoSilentStage
INVARIANT CleanAfterOk
