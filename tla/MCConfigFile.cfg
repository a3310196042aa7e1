\* Every text, every switch, failing writes and edits by other programs.
SPECIFICATION Spec
CONSTANTS
  Modes <- ModesTried
  IsTried <- OneModesSettings
  Down = Down
  Unreadable = Unreadable
INVARIANTS
  TypeOK
  LoadedMeansInForce
  WrittenFilesValidate
  ModesCanBeSwitchedTo
  NextStartWorks
