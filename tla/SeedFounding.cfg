SPECIFICATION MCSpec
CONSTANTS
  Unset = Unset
  Sites <- MCSites
  Pods <- MCPods
  ServerIDBase <- MCBase
  Founders <- MCFounders
  MaxEvents <- MCEvents
  Environment = {"wipe", "unreachable", "unreadable", "crash"}
INVARIANTS SingleCreator AlarmAfterData
PROPERTIES SeedCompletes ConditionSettles
