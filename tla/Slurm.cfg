SPECIFICATION AccessSpec
CONSTANTS
    Clusters = {"k1"}  Users <- MCUsers  Allocs <- MCAllocs  ClusterOf <- OnK1
    CustosClusterID = "k1"  Loads <- MCLoads
INVARIANTS NoAccessBeforeAccount 
PROPERTIES SweepKeepsAccess Converges NothingWiped 
CHECK_DEADLOCK FALSE
