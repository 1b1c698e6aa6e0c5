CONSTANTS
    Topics <- MCTopics
    Handlers <- MCHandlers
    NoHandler = NoHandler
    nullHandler = "nullHandler"
    responseHandler = "responseHandler"
    firmwareHandler = "firmwareHandler"
    actionHandler = "actionHandler"
    attributeHandler = "attributeHandler"
SPECIFICATION Spec
INVARIANT DisconnectRemovesCommands
CHECK_DEADLOCK FALSE
