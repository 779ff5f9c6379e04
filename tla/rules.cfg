SPECIFICATION Spec
CONSTANTS
  OctetBits = 2
  OctetCount = 2
  OctetTop = 2
  LicenceKeys <- MCLicenceKeys
  VendorKey = FALSE
  LicenceCalls = {r1, r2}
  GraceDays = 1
  Never = Never
  DayMax = 4
  PanelStates = {"running", "stopped"}
  Updates = {u1, u2}
  WireMax = 2
  BackupMax = 3
  Keeps <- MCKeeps
  FaultMax = 1
  ActiveMax = 2
  RequestMax = 1
  AlertKinds = {1, 2}
  Samples = {s1, s2}
  Cooldown = 2
  ClockMax = 2
  LifeMax = 1
  AlertMax = 1
  EpgIds = {"a", "b", "c"}
  XmltvFiles <- MCXmltvFiles
  Imports = {i1, i2}
  EpgRowMax = 3
  RemovalMax = 2
INVARIANTS AllowlistBlocks PagesServed LinksOpen EntriesFollowLines TargetsWalk RoundTrip SameMulticast EditKeepsCommand LimitFollowsKey PanelAgrees DoneIsComplete AlertsSpaced GuideHolds
PROPERTIES LastGoodKept
CHECK_DEADLOCK FALSE
