\* Four-bit BIGINT: every boundary value of the code (0, 1, -1, MaxInt,
\* MinInt, MaxInt + 1 as unsigned, MaxUint) is among the 16 arguments.
CONSTANTS
    W = 4
    NULL = NULL
    FieldTypes <- MCFieldTypes
    MaxReal = 3

SPECIFICATION Spec

\* A behaviour is a single expression: it stops once it is evaluated, or
\* once a signature that is not evaluated here is built.
CHECK_DEADLOCK FALSE

INVARIANT MultiplyIntNoSilentOverflow
