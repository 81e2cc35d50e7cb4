SPECIFICATION Spec
CONSTANTS
  Cpus = 2
  Modulus = 3
  MaxTicks = 4
VIEW View
PROPERTIES
  LoadIsExact
