CONSTANTS
  Callers <- MCCallers
  Configs <- MCConfigs
  InitConfig <- MCInitConfig
  NoCaller = NoCaller
  NoConfig = NoConfig
  AdapterOps <- MCAdapterOps
  c1 = c1
  c2 = c2
  c3 = c3

SPECIFICATION Spec



INVARIANT PublishedConfigMeetsSpec
