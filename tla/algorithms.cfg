SPECIFICATION Spec
CONSTANT None = None
CONSTANT TestPath = 3
CONSTANT Excluded = {4}
CONSTANT OutsideRepo = {5}
CONSTANT TriggerProd = 2
CONSTANT ScoreFloor = 50000
CONSTANT MaxFuncs = 3
CONSTANT Qualify = 3
CONSTANT HighCoupling = 1
CONSTANT CommonWords = {"the"}
CONSTANT Identifiers <- MCIdentifiers
CONSTANT Symbols <- MCSymbols
CONSTANT Ending <- MCEnding
CONSTANT RowSets <- MCRowSets
CONSTANT Frames <- MCFrames
CONSTANT Drifts <- MCDrifts
CONSTANT Trees <- MCTrees
CONSTANT Spelled <- MCSpelled
CONSTANT Befores <- MCBefores
CONSTANT FaceIndexes <- MCFaceIndexes
CONSTANT Queries <- MCQueries
CONSTANT Asked <- MCAsked
CONSTANT EdgeIndexes <- MCEdgeIndexes
CONSTANT Structural = {"CALLS", "INHERITS"}
CONSTANT Dotted = {"x.rs", "y.rs", "q.rs", "z.rs"}
CONSTANT Qualified <- MCQualified
CONSTANT OwnNoise <- MCOwnNoise
CONSTANT Histories <- MCHistories
CONSTANT ChangeLists <- MCChangeLists
CHECK_DEADLOCK FALSE
INVARIANT FacesAgree
INVARIANT CallersAttributed
INVARIANT EngineExact
INVARIANT ChangesReported
INVARIANT AnchorsGrounded
INVARIANT ContextOnlySettles
INVARIANT BoundaryTrue
INVARIANT DeltaTrue
