SPECIFICATION Spec
CONSTANTS
  w1 = w1  w2 = w2  w3 = w3
  Writer <- MCWriter3
  L = 4
  MaxAdds = 9
SYMMETRY MCSymmetry
INVARIANTS TicketsCounted QuiescentExact MissedBounded
