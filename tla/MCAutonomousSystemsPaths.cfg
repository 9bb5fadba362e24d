SPECIFICATION Spec
CONSTANTS
  ASList <- MCASList
  HostASes = {"AS3", "AS5"}
  Adjacent <- MCAdjacent
  BorderRouters <- MCBorderRouters
  Provider = "AS4"
  Newcomer = "AS5"
  InitialRoutes <- MCInitialRoutes
  InitialReach <- MCInitialReach
  GivenPaths <- MCGivenPaths
  NextRouter <- MCNextRouter
  FirstRouter = "R1"
  MaxFrames = 2
  Entrance = "AS1"
  Destination = "r2"
INVARIANTS
  GivenPathsAreListed
