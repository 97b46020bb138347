CONSTANTS
  Tasks = {t1}
  Conns = {c1, c2, c3}
  Processes = 1
  LeaseSeconds = 1
  MaxAttempts = 3
  NotLoaded = NotLoaded
SPECIFICATION Spec
SYMMETRY Symmetry
INVARIANTS NeverStranded DeliveriesNumbered
