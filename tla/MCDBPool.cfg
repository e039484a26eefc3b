\* Four threads share two connections.
\* A process that has popped an empty list does nothing more: no deadlock check.
CONSTANTS
    Threads = {t1, t2, t3, t4}
    Conns = {c1, c2}
    NULL = NULL
SPECIFICATION Spec
CHECK_DEADLOCK FALSE
INVARIANT TypeOK
INVARIANT ConnsKept
INVARIANT NullsBounded
PROPERTY PoolLends
