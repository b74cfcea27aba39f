CONSTANTS
    PortVals <- MCPortVals
    NodePortVals <- MCNodePortVals
    ServiceTypes <- MCServiceTypes
    NoValue = NoValue
SPECIFICATION Spec
INVARIANTS
    ExternalSettingsNeedServiceType
