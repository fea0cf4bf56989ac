SPECIFICATION Spec
CONSTANTS
    ZoneList <- Zones3
    RegionOf <- Regions3
    MultiRegion <- Multi2
    DefaultRegion = "US"
    MetaZone = "m-a"
    Networks <- ThreeNetworks
    Subnets <- ThreeSubnets
    NetworkInputs <- SomeNetworks
    SubnetInputs <- SomeSubnets
INVARIANTS TypeOK OnlyForeignUploadDeleted RunsWhereDataIs ParametersFit
