SPECIFICATION Spec
INVARIANTS ExactlyOnce FreshTranslation
PROPERTIES NothingStale Answered
CHECK_DEADLOCK FALSE
