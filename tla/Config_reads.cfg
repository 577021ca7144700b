\* Every configuration file: unreadable, or each entry good, missing or bad.
SPECIFICATION Spec
INVARIANTS FileThenDefaults
\* The constructor has returned.
CHECK_DEADLOCK FALSE
