CONSTANTS
  Posts = {1, 2}
  ConfigScopes <- SmallConfigs
  Handlers = {1}
  Ticking = {1, 2}
  DaemonScopes <- SmallDaemons
  Modules = {1, 2}
  HealthScopes <- SmallHealth
  Processes = {1, 2}
  SchemaScopes <- SmallSchemas
  Adds = {1, 2}
  LibraryScopes <- SmallLibraries
  Letters = {1, 2}
  Nameless = {2}
  Drafts = {1}
  MessageScopes <- SmallChats

SPECIFICATION Spec

INVARIANTS FileIsSound ShutdownIsSound SchemaIsSound MessagesAreSound
PROPERTIES ExitInTheEnd HealthIsTrue AddsAreTruthful WorkComesThrough
CHECK_DEADLOCK FALSE
