SPECIFICATION Spec
CONSTANTS
  ToolNames = {"read_file", "search_text"}
  MaxCalls = 2
  MaxMessages = 5
INVARIANTS ConfigAgreement WireKeepsConversation ResultsTogether
CHECK_DEADLOCK FALSE
