\* Two clients that retry, two slots, one restart.
CONSTANTS
  c1 = c1
  c2 = c2
  Clients <- MCClients
  max_parallel_reservations = 2
  MaxLives = 2
  MaxSends = 4
SPECIFICATION Spec
SYMMETRY MCSymmetry
\* Clients may have sent all they send.
CHECK_DEADLOCK FALSE
INVARIANTS
  HeldUnlessStaleDelete
  SlotsAreAccountedFor
  ClientsInv

  
  
