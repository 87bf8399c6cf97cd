CONSTANTS
  Writers = {w1, w2, w3}
  SideEffects = {k1, k2}
  Confirmed = {k1}
  Nobody = Nobody
  NoSideEffect = NoSideEffect
  Documents = {d1, d2}
  DefaultDocument = d1
  Publishers = {p1, p2}
  HistoryLimit = 1
  MaxVersions = 3
  Requests = {q1, q2}
  ApiKeys = {a1, a2}
  IdempotencyKeys = {i1}
  NoIdempotencyKey = NoIdempotencyKey
  MaxPublications = 2
  DeltaNodes = {n1, n2}
  MaxStreamEvents = 4
  Editors = {e1, e2}
  Callers = {c1}
  Fields = {f1}
  MaxModels = 2
  MaxChanges = 3
  Logins = {l1, l2}
  Visits = {v1, v2}
  NoLogin = NoLogin
  MaxVersion = 3
  Workers = {x1, x2, x3}
  NoWorker = NoWorker
  TaskKeys = {t1}
  NoTaskKey = NoTaskKey
  MaxTasks = 3
  Managers = {m1, m2}
  Releases = {r1, r2}
  FirstRelease = r1
  Instances = {g1}
  NoRelease = NoRelease
  MaxOperations = 3
  NodeCount = 4
  MaxEdges = 4
  QueueLength = 3
  Admins = {h1, h2, h3}
  Sources = {o1}
  NoSource = NoSource
  MaxRotations = 2
SPECIFICATION ControlSpec
SYMMETRY PluginSymmetry
INVARIANTS
  TypesOK
  WrittenAtMostOnce AnswerIsTheEffect
  PublishedVersionIsKept PublicationServesItsVersion
  RunsOnServedVersion RetryCreatesNoRun
  PersistedOnce RecordsFollowTheStream
  RegistryFollowsStore WrittenUnderOwnGrant
  LoggedOutStaysOut
  HeldByOne TaskOfKeyIsOne
  AvailabilityIsDerived InstancesFollowAssignment
  OrderIsTopological
  FailoverStopsWhereItMust
  SecretIsTheLatest
PROPERTIES
  RevokedIsRefused
CHECK_DEADLOCK FALSE
