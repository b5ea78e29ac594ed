SPECIFICATION Spec
CONSTANTS
  ByteValues = 256
  Samples <- FieldSamples
  MaxPackets = 2
  PlotTables <- SomePlots
  IslandFiles <- SomeFiles
  WidthInTiles = 2
  HeightInTiles = 1
  Pixels = 2
  ViewportWidth = 3
  MaxTime = 2
  Playing = {u1}
  UserNames = {u1, u2}
  StartingWorld = "meadow"
  SpawnPoints <- SomeWorlds
  Spots <- SomeSpots
  UnitsPerMetre = 2
  Looks = {plain, fancy}
  Null = Null
  MaxEntities = 2
  Failing = {"InsertPlayer", "GetPlayerAppearance"}
  MaxFailures = 1
  MaxRestarts = 1
  Keys = {"d", "shift"}
  LastTile = 2
  Disallowed <- NoRunHome
  WarpTiles = {}
  WarpTo = 0
  BroadcastFrames = 2
  MaxStack = 2
  MaxInFlight = 2
  Base = "base"
  Controls <- UIControls
  LoadOrder <- UIOrder
  ParentOf <- UIParents
  KindOf <- UIKinds
  Placed <- UIPlaced
  Sized <- UISized
  Centered = {"button"}
  Invisible = {}
  CannotFocus = {"cursor"}
  FitOf <- UIFits
  Scrolling = {"chat"}
  FirstText <- UIFirst
  TextHeight <- UIHeights
  DebugLabel = "none"
  Scripts <- UIScripts
  ScreenHeights = {8, 4}
  MousePositions = {0, 3}
  PositionValues = 64
INVARIANTS
  ReadsWhatWasWritten
  EntityDataIsUnderstood
  PlotsAgree
  ShowsThePlots
  KeyboardFollowsFocus
  HiddenIsAccurate
  ClicksHitWhatIsSeen
  SessionsOwnTheirRows
  MovementTypeOK
PROPERTIES
  DragGoesOn
  PositionSurvives
  AppearanceIsKept
  KeysDecide
  Agreement
  StaysSynced
CHECK_DEADLOCK FALSE
