CONSTANTS
  p1 = p1
  p2 = p2
  f1 = f1
  f2 = f2
  NoPin = NoPin
  BadPin = BadPin
  NoPrefix = NoPrefix
  Pins <- MCPins
  Fetchers <- MCFetchers
  Answers <- MCAnswers
  Envs <- MCEnvs
  Payloads <- MCPayloads
  MaxHosts = 4
  MaxCustom = 8
  MaxDenies = 32
  MaxDenyBytes = 2048
  MaxAgents = 2
  MaxStarts = 3
  MaxChanges = 1
  MaxEdits = 1
SPECIFICATION Spec
INVARIANTS
  TypeOK
  AddressesAllowed
  PolicyExact
  DeviceTrusted
  SettingsStayHome
CHECK_DEADLOCK FALSE
