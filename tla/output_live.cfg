CONSTANTS
  Containers <- MCContainers
  Files <- LiveFiles
  Names <- MCNames
  Keys <- MCKeys
  OutputMap <- LiveOutputMap
  Secrets <- MCSecrets
  SecretName <- MCSecretName
  WriteOnFailure = FALSE
  Mishaps = 1
SPECIFICATION PersistorSpec
PROPERTIES FilesEndWait PersistReturns
CHECK_DEADLOCK FALSE
