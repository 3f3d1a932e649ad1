\* Two readers and a writer whose calls (StoreLogs, truncations, rotation,
\* Close) publish up to three successive states, or fail before
\* publishing.  Readers keep calling; the writer stops after Close or its
\* last state.
SPECIFICATION FairSpec
CONSTANTS
    Readers = {r1, r2}
    MaxVersions = 3
INVARIANTS
    TypeOK
    FinalizerAtMostOnce
    RefsBalanced
PROPERTIES
    RetiredStatesFinalized
