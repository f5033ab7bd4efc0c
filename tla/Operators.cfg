SPECIFICATION Spec
CONSTANT NoInstant <- MCNoInstant
CONSTANT NoStats <- MCNoStats
CONSTANT SortedRunMergeMinValues <- MCSortedRunMergeMinValues
CONSTANT SortedRunSampleValues <- MCSortedRunSampleValues
INVARIANT AggregatesMerge
INVARIANT BatchAgreesWithRows
INVARIANT PruningSound
INVARIANT SpatialAgrees
INVARIANT SortAgrees
INVARIANT JoinAgrees
INVARIANT QueryPathsAgree
INVARIANT PagesReadBack
INVARIANT TextReadsBack
INVARIANT TableScansExact
INVARIANT SqlReadsBack
INVARIANT CommandsMeanSql
CHECK_DEADLOCK FALSE
