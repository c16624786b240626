SPECIFICATION HandlersSpec
CONSTANTS
    Requests = {r1, r2}
    Users = {"alice", "bob"}
    Bootstrap = {"alice"}
    Owner = "alice"
    TargetTypes = {"mock", "custom_http"}
    Creations <- OneCreation
    Patches <- SmallPatches
    Campaigns = {"c1"}
PROPERTIES
    AdminRemains
    
    CampaignsStay
SYMMETRY AnyRequest
CHECK_DEADLOCK FALSE
