CONSTANT Configs <- WalkedQuicklist
SPECIFICATION Spec
INVARIANT EndsRaw
CHECK_DEADLOCK FALSE
