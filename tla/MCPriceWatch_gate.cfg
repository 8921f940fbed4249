SPECIFICATION Spec
CONSTANTS
  hype = hype
  eth = eth
  Feeds = {hype, eth}
  Prices <- PricesMC
  Adapter <- AdapterMC
  Positions <- PositionsMC
  MAX_AGE = 1
  CHAIN_WARM = 0
  MIN_DEVIATION = 3
  MARGIN = 1
INVARIANTS TypeOK GateWithinMargin
