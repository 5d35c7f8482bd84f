SPECIFICATION Spec
CONSTANT Active = {"migration", "index", "DMA", "PCIe"}
INVARIANTS AnswersMatch DataFollowsPage
PROPERTIES EndsComplete Answered
CHECK_DEADLOCK FALSE
