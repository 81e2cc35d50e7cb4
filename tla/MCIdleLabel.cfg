SPECIFICATION ButtonsSpec
CONSTANT Programs = {"doom", "load_cpu"}
INVARIANT
  LabelMeansRunning
