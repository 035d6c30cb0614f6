SPECIFICATION Spec
CONSTANTS
  Names <- MCNames
  Texts <- MCTexts
  Env <- MCEnv
  Files <- MCFiles
  Configs <- MCConfigs
INVARIANTS
  TypeOK
  OrderIrrelevant
