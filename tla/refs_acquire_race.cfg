\* One reader loads w.s, the writer replaces it and releases, and the
\* reader acquires the replaced state afterwards.
SPECIFICATION Spec
CONSTANTS
    Readers = {r1}
    MaxVersions = 1
INVARIANT
    ReadersSeeLiveState
