\* Two units of debt and collateral, a token of each kind that arrives unasked.
SPECIFICATION Spec
CONSTANTS
  MinProfits <- MinProfitsMC
  PREMIUM = 1
  MaxOut = 3
  MaxDebt = 2
  MaxDust = 1
INVARIANTS TypeOK NoDanglingAllowance
PROPERTIES AllOrNothing
