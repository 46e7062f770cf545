CONSTANTS
  None = None
  decode = decode
  decodeCopy = decodeCopy
  net = net
  future = future
  broken = broken
  script = script
  Decode = Decode
  Net = Net
  Script = Script
  STI = STI
  Codec = Codec
  Paths = {decode, decodeCopy, net, future, broken}
  Ids = {Decode, Net}
  Types = {STI, Codec}
  Objects = {o1, o2, o3}
  CountModulus = 8
  MaxDepth = 2
  MaxLeaks = 1
  Plugin <- MCPlugin
  Versions <- MCVersions
  PreRegistered <- MCPreRegistered
SPECIFICATION Spec
INVARIANTS TypeOK HostedCompatible ProvidersMapped
PROPERTIES ImplementsRegistry
