SPECIFICATION FairSpec
CONSTANTS
  Consumers = {"box", "pump"}
  Rank <- RankOf
  Place <- PlaceOf
  Base <- BaseOf
  Minimum <- MinimumOf
  Ceiling <- CeilingOf
  Ramp <- RampOf
  Floor <- FloorOf
  Delta = 2
  Released <- Lowest
  Headrooms = {3, 6}
  MaxEvents = 2
  None = None

  
PROPERTIES
  HeadroomByPriority
  MinimumSurvivesImport
  DevicesObey
