SPECIFICATION Spec
CONSTANT Size = 4
INVARIANT NoPhantomEvent
CHECK_DEADLOCK FALSE
