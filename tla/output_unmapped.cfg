CONSTANTS
  Containers <- MCContainers
  Files <- SidecarFiles
  Names <- MCNames
  Keys <- MCKeys
  OutputMap <- SidecarOutputMap
  Secrets <- MCSecrets
  SecretName <- MCSecretName
  WriteOnFailure = FALSE
  Mishaps = 0
SPECIFICATION PersistorSpec
PROPERTY PersistReturns
CHECK_DEADLOCK FALSE
