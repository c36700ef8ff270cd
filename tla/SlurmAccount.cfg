SPECIFICATION AccessSpec
CONSTANTS
    Clusters = {"k1"}  Users <- MCUsers  Allocs <- MCAllocs  ClusterOf <- OnK1
    CustosClusterID = "k1"  Loads <- LostCreation
PROPERTIES Converges
CHECK_DEADLOCK FALSE
