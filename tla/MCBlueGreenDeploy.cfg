SPECIFICATION Spec
CONSTANTS
  None = None
  MaxVersion = 4
INVARIANT TypeOK
PROPERTY DeployKeepsServing
INVARIANT CompletedDeployServes
