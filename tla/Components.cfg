\* Small instances of six components, one at a time.
SPECIFICATION Spec
CONSTANTS
  None = None
  r1 = r1  r2 = r2  r3 = r3  s1 = s1  s2 = s2
  m1 = m1  m2 = m2  m3 = m3  Root = Root  Absent = Absent
  ta = ta  tb = tb  tc = tc  x = x  y = y  z = z
  ca = ca  cb = cb  cc = cc  cd = cd  ce = ce  Plain = Plain  Cut = Cut
  q1 = q1  q2 = q2  p1 = p1  p2 = p2
  u1 = u1  ga = ga  gb = gb
  e1 = e1  e2 = e2  e3 = e3
  Ids = {r1, r2, r3}  New = {r3}  Kinds = {"task", "quartz", "user", "storage"}
  Slots = {s1, s2}  MaxRev = 1
  Menus = {m1, m2, m3}  FirstMenus = {m1}  Calls = {s1}
  Users = {u1}  Groups = {ga, gb}  LeafMenus = {m1}  Loaders = {p1}  RoleCalls = {s1, s2}
  FirstGranted <- GrantedFirst  FirstHeld <- HeldFirst
  PageTables = {ta, tb, tc}  TableIn <- ThreeTexts  Columns = {ca, cb, cc, cd, ce}
  ColumnsOf <- ThreeTables  CommentOf <- Comments  WithComma = {z}  Lookups = {s1, s2}
  Tables = {ta, tb}  Aliases = {x}  Requesters = {q1, q2}  MaxDeaths = 1
  Entries = {e1, e2, e3}  Tasks = {ta, tb}  TaskOf <- ThreeEntries  Removers = {p1, p2}
INVARIANTS
  TypeOK ContentStays TreeIsFlat TakesWhatWasGiven CacheIsCurrent SendsWhatIsChecked HeadersFit StatusHasTable
  ListingsAgree SyncAllSparesRows MissesNeedRemovals OneAnswerPerEntry
PROPERTIES AimKept DeletesLeaveNoOrphans
CHECK_DEADLOCK FALSE
