SPECIFICATION Spec
CONSTANTS
  MaxDuration = 31536000
  MaxNumber = 99999999
  Base = 4
  IdLength = 3
  MaxId = 40
  SystemZones = {"UTC", "Spring", "spring", "Fall", "Midnight"}
  AbsolutePaths = {"/home", "/tmp", "/bin/sh", "/bin/zsh", "/dev/tty"}
  DurationParts <- MCDurationParts
  MaxRetentionDays = 3650
  MaxLogBytes = 100
  Zones <- MCZones
  ZoneNames <- MCZoneNames
  WhenWords <- MCWhenWords
  LastInstant = 40000000
  Sizes <- MCSizes
  Scalars <- MCScalars
  NotUtf8 = {"latin"}
  WithNul = {"nul"}
  InvalidKeys = {"%"}
  RetainedKeys = {"PATH", "HOME"}
  Assignments <- MCAssignments
  RealPaths <- MCRealPaths
  Directories = {"/home", "/tmp"}
  MaxArgumentBytes = 12
  MaxSerializedBytes = 15
  MaxNameSize = 8
  MaxDescriptionSize = 10
  Commands <- MCCommands
  Ids = {0, 27, 40}
INVARIANTS
  MeansWhatWasTyped
  ExitTellsTruth
  DueAsAsked
  SavedAsConfigured
  EnvironmentAsAsked
  SavedIsReadable
