\* Two computers of one user load and upload his results, and repeat it.
SPECIFICATION ClientSpec
CONSTANTS
  t1 = t1  t2 = t2
  c1 = c1  c2 = c2
  admin = admin  key = key  png = png  cat = cat
  singleton = singleton  adapter = adapter
  Thread = {t1, t2}
  Client = {c1, c2}
  login = admin
  password = key
  Login = {admin}
  Password = {key}
  ImgType = {png}
  Image = {cat}
  Pattern = {singleton, adapter}
  PatternImages = {singleton, adapter}
  Name = {singleton, adapter}
  Result = {1}
  Malformed = {}
  FileOf <- AsWritten
  Uploads <- LocalLists
  Taken <- OneTest
  Kinds = {"unreadable", "authorization", "set_all_result"}
  InitialUser <- OneAccount
  None = None
PROPERTIES UploadedIsStored LoadedIsStored RepeatedOnlyUntilSuccess
