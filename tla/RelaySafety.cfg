CONSTANTS
  Agents = {a1, a2}
  Tasks = {t1, t2}
  Keys = {k1}
  Inputs = {x1}
  Results = {r1, r2}
  NoKey = NoKey
  Null = Null
  LeaseSeconds = 2
  MaxAttempts = 2
SPECIFICATION Spec
SYMMETRY Symmetry
INVARIANTS NoOverlap DeliveryAgrees AcceptedIsStored AcksAgree ReceiptsAgree
PROPERTIES LeaseHonoured NoRevival FinishedIsFinal ImplementsTaskQueue
