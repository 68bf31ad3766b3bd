CONSTANTS
  Callers <- MCCallers3
  Configs <- MCConfigs
  InitConfig <- MCInitConfig
  NoCaller = NoCaller
  NoConfig = NoConfig
  AdapterOps <- MCAdapterOps
  c1 = c1
  c2 = c2
  c3 = c3

SPECIFICATION Spec

PROPERTY ReadLockedConfigStable
PROPERTY ImplementsAtomic
