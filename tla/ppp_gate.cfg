CONSTANTS
  PppSats = {1, 2, 3}
  PppConfigs <- MCPppConfigs
  PppEpochs <- MCPppEpochs
  PppInitSats = 3
  PppMwMin = 2
  PppWarmup = 1
  PppLongAgo = 120
SPECIFICATION PppSpec
INVARIANT PppGateIsPerEpoch
