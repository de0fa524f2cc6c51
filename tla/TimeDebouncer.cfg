SPECIFICATION Spec
CONSTANTS
  Modulus = 32
  UsPerMs = 3
  activeTimeMs = 4
  inactiveTimeMs = 3
  MaxGap = 1
PROPERTY ChangesAfterWindow
