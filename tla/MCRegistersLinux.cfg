SPECIFICATION Spec
PROPERTIES
  PreservesLinuxRegisters
