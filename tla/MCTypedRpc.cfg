SPECIFICATION FairSpec
CONSTANTS
  MaxReq = 2
  MaxResp = 2
  StreamCap = 1
INVARIANTS ExchangeExact OutcomeTruthful
PROPERTIES RpcEnds
CHECK_DEADLOCK FALSE
