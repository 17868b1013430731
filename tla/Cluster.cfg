SPECIFICATION ClusterSpec
CONSTANTS
    n1 = n1
    n2 = n2
    n3 = n3
    NoNode = NoNode
    Node = {n1, n2}
    Bootstrap = {n1}
    MaxClusters = 2
    MaxStarts = 3
    MaxCommands = 1
    MaxReconciles = 1
    MembershipFaults = {"crash", "lease", "command"}
    SecretNode = {1, 2}
    FirstSecretNode = 1
    CredentialRow = {c1, c2}
    ExecutorRow = {x1}
    SettingRow = {s1}
    Rotation = {o1}
    Update = {u1}
    SecretValue = {1, 2}
    MaxKey = 2
    MaxSecretEvents = 4
CHECK_DEADLOCK FALSE
INVARIANT MembershipTypeOK
INVARIANT OneCluster
PROPERTY OnlyCommandsHalt
PROPERTY BootstrapMakesLeader
PROPERTY SecretsKept
PROPERTY RotationComplete
