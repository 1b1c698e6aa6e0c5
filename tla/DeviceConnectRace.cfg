CONSTANTS
    Topics <- MCTopics
    Handlers <- MCHandlers
    NoHandler = NoHandler
    nullHandler = "nullHandler"
    commandTopic = "command"
    responseTopic = "response"
    responseHandler = "responseHandler"
    FirmwareTopics <- MCFirmwareTopics
    firmwareHandler = "firmwareHandler"
    ActionTopics <- MCActionTopics
    actionHandler = "actionHandler"
    AttributeTopics <- MCAttributeTopics
    attributeHandler = "attributeHandler"
SPECIFICATION Spec
INVARIANT ConnectSubscribes
CHECK_DEADLOCK FALSE
