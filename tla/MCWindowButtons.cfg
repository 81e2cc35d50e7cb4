SPECIFICATION FairSpec
CONSTANT Programs = {"doom", "load_cpu"}
INVARIANTS
  LiveProgramIsLabelled
  SpeakerIsExclusive
PROPERTIES
  WindowComesBack
