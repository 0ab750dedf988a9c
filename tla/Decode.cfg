SPECIFICATION Spec
CONSTANTS
  Costs <- MCCosts
  Instructions <- MCInstructions
  Reused <- MCReused
INVARIANTS
  TypeOK
  Operands
  Length
  Cost
  Refused
  Accepted
  Ends
