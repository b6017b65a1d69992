CONSTANTS
  Containers <- MCContainers
  Files <- MCFiles
  Names <- MCNames
  Keys <- MCKeys
  OutputMap <- MCOutputMap
  Secrets <- MCSecrets
  SecretName <- MCSecretName
  WriteOnFailure = TRUE
  Mishaps = 1
SPECIFICATION PersistorSafety
INVARIANTS PersistorTypeOK SuccessMeansStored
PROPERTY StoredAfterExit
CHECK_DEADLOCK FALSE
