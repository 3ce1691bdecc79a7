SPECIFICATION Spec
CONSTANTS
    None = None
    update = update
    attach = attach
    read = read
    hello = hello
    c1 = c1
    c2 = c2
    Requests = {hello, update, attach, read}
    Mutations = {update, attach}
    Sourced = {attach}
    Reporting = {read}
    MaxUnread = 1
    Capabilities = {c1, c2}
    Needs <- MCNeeds
    MethodNeeds <- MCMethodNeeds
    MaxFaults = 1
    MaxChanges = 1
    Hello = hello
    Workloads <- MCWorkloads
    MaxFrames = 4
    MaxDrops = 1
INVARIANTS
    BridgeInv
    AuditTellsTheTruth
PROPERTIES
    BridgeServes
    EveryCallEnds
