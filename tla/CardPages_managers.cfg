\* One page of any kind, two rows, changes by others.
SPECIFICATION CardsSpec
CONSTANTS
  i1 = i1  i2 = i2
  Item = {i1, i2}
  Discount = {0, 50}
  MaxActs = 3
  MaxFaults = 2
  MaxOthers = 1
  NoItem = NoItem
\* Nothing has to go on: nobody need click.
CHECK_DEADLOCK FALSE
SYMMETRY Items
INVARIANTS
  CardsTypeOK
  CardsCurrent
