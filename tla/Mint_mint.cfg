SPECIFICATION Spec
CONSTANTS
  d1 = d1
  d2 = d2
  d3 = d3
  p = p
  q = q
  Deed = {d1, d2, d3}
  Property = {p, q}
  PropertyOf <- Properties
  NoBill = NoBill
  MaxTime = 3
INVARIANTS OneDeedPerProperty ExecutedWasVoted
PROPERTIES MintedOnRegistration
