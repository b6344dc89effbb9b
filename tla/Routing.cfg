SPECIFICATION Spec
CONSTANTS
    MaxSides = 3
    StartSides = 2
    TypeOf <- MCTypeOf
    EndpointsOf <- MCEndpointsOf
    LinkLocal = {"WIRE"}
    Locals = {"SD"}
    MaxRecent = 1
    RouteKeys <- MCRouteKeys
    Weights = {2}
    Advertised = {{"RADIO"}}
    Priorities = {1}
    DefaultPriority = 5
    StartPolicies <- MCStartPolicies
    MaxCalls = 2
    MaxEvents = 3
    MaxChanges = 1
INVARIANTS
    
    
    
    WeightedShare
    SeenRecentlyIsDropped
CHECK_DEADLOCK FALSE
