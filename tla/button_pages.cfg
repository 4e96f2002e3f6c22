SPECIFICATION Spec
CONSTANTS
  PageSize = 4
  Pages = 2
  AuthPage = 1
  SecretSize = 4
  MacCells = {1, 2}
  Values = {1}
  MAC = 3
  Batches <- SDKBatches
  Addrs = {0, 4, 8}
  Signs = TRUE
INVARIANTS TypeOK ReadBackAuthorises EnoughReply
PROPERTIES SecretsSealed CopyReach
