CONSTANT Tasks = {t1, t2, t3}
SPECIFICATION Spec
INVARIANT TakenHasOwner
CHECK_DEADLOCK FALSE
