SPECIFICATION ReqSpec
CONSTANTS
    Arn <- MCArn
    Account = {"a", "b"}
    User = {"u1", "u2"}
    MaxItems = 3
INVARIANTS ReqTypeOK OnlyCheckedCredentials OkIsComplete SplitIsLossless
