SPECIFICATION MCSpec
CONSTANTS
    synthetic = synthetic
    real = real
    Sources = {1, 3, 4}
    Fingerprint <- MCFingerprint
    Corpus <- MCCorpus
    Benchmarks = {synthetic, real}
    Toolchains = {1, 2}
    MaxCommits = 3
    MaxRecordings = 2
    MaxEdits = 2
SYMMETRY Symmetry
INVARIANTS
    TypeOK
    ChecksExact
    ManifestsTraceable
    InputsMeasured
