\* Every tab comes from an intent; pages navigate once on their own.
SPECIFICATION Spec
CONSTANTS
    Plain = {}
    MaxSerial = 4
    MaxLoads = 1
INVARIANT NoInputToLaterNavigation
PROPERTIES ImplementsTabStrip InputsInOrder
