SPECIFICATION ToolSpec
CONSTANT Jobs <- DeadlockJobs
INVARIANT VerdictRight
CHECK_DEADLOCK FALSE
