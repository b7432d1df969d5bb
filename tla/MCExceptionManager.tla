------------------------- MODULE MCExceptionManager -------------------------
EXTENDS ExceptionManager

\* No action type is restricted to some origins.
MCNoRequiredOrigins == [a \in {} |-> {}]
=============================================================================
