SPECIFICATION FairSpec
CONSTANTS
  Threads = {t1, t2}
  full = full
  empty = empty
  broken = broken
  odd = odd
  registrar = registrar
  plugin = plugin
  a1 = a1
  a2 = a2
  Configs = {empty, broken}
  PluginList <- MCPluginList
  BadConfigs = {broken}
  Libs = {registrar, plugin}
  Registrar = registrar
  NoText = NoText
  Instances <- MCInstances
  NoInst = NoInst
  ManagerCodes <- MCManagerCodes
  MaxCalls = 3
  Unset = Unset
  Done = Done
  NoArg = NoArg
PROPERTIES ParserCodesAreAnswered
CHECK_DEADLOCK FALSE
