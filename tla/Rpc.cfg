SPECIFICATION RpcFairSpec
CONSTANTS
    Method = {"HealthCheck", "DeleteKerberosLease"}
    Tag = {1, 2, 3, 4}
    MaxCalls = 1
INVARIANTS OneListener OneOperationPerObject RepliesAreReal
PROPERTIES CallsTaken AnswersEachCall
CHECK_DEADLOCK FALSE
