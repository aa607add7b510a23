SPECIFICATION Spec
CONSTANTS
  Width = 3
  BlockSize = 2
  Deployments <- AllDeployments
  ClientBatches <- Batches
  ClientKeys <- SomeKeys
  MaxBytes = 5
  MaxSent = 2
INVARIANTS
  FlagsComeFirst
