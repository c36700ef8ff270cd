SPECIFICATION AnalyticsSpec
CONSTANTS
    Loads <- MCLoads  Allocations <- MCAllocations  ClusterUsers <- MCClusterUsers  Resources = {"cpu", "gpu"}  Rate <- MCRate
    Users = {"u1", "u2"}  Projects = {"p1"}  ProjectOf <- MCProjectOf  StartDay <- MCStartDay  DayLength = 2
    maxDailyBuckets = 3  defaultJobsLimit = 2  maxJobsLimit = 3
    Statuses = {"ACTIVE", "INACTIVE"}  Roles = {"", "PI", "ALLOCATION_MANAGER"}
INVARIANTS CaughtUp PagesScoped 
CHECK_DEADLOCK FALSE
