SPECIFICATION Spec
CONSTANTS
  PCT = 1000
  UNIT = 50
  MIN_LEFTOVER = 100000
  BONUS = 1100
  EBONUS = 1050
  FEE = 100
  Positions <- TargetsMC
  CHUNKS <- ChunksMC
  LastDen = 32
  MIN_FRACTION = 10
  DEPTH = 300000
  MIN_PROFIT = 700
  GAS = 30
  PREMIUM = 4
  FLASH = TRUE
  SAME_ASSET = TRUE
  KYBER = TRUE
  LEG2_HAIRCUT = 10
  SLIPPAGE = 10
  Impacts = {0, 1, 2}
  MAX_IMPACT = 1
INVARIANTS TypeOK SizedAsPool SoldArrives ProfitReal
PROPERTIES Descends EvalEnds
