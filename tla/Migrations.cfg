SPECIFICATION Spec
CONSTANTS
    TableOf <- MCTableOf
    StatsCounters <- MCStatsCounters
    Jumps <- MCJumps
    MaxWork = 3
INVARIANTS
    Deployable
    SchemaDetermined
    SchemaServesCode
    CountersExact
PROPERTY DeployKeepsRows
CHECK_DEADLOCK FALSE
