SPECIFICATION Spec
CONSTANTS
  Bodies <- MCBodies
  OutMessages <- MCOut
  Greetings <- MCGreetings
  GarbageBytes <- MCGarbage
  SignedMax = 3
  MaxIn = 3
  MaxOut = 5
INVARIANTS TypeOK DeliveredWhole WrittenWhole DeliveredInv
PROPERTIES EndsAtClose
CHECK_DEADLOCK FALSE
