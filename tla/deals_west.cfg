SPECIFICATION DealFormSpec
CONSTANTS
  anna = anna
  Editors = {anna}
  Zones <- West
  Typed = {4, 5}
  Amounts = {0, 7}
INVARIANT DateShownIsDateTyped
