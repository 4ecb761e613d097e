SPECIFICATION DeploymentSpec
CONSTANTS
    f0 = f0
    c1 = c1
    c2 = c2
    Factory = {f0, c1, c2}
    First = f0
    NoFile = NoFile
    MaxNonce = 2
PROPERTIES RecoveryReconstructs
CHECK_DEADLOCK FALSE
