\* Uploads of all results, single results and authorizations of one user.
SPECIFICATION Spec
CONSTANTS
  t1 = t1  t2 = t2  t3 = t3
  admin = admin  ann = ann  Ann = Ann  key = key  word = word
  png = png  jpg = jpg  cat = cat  dog = dog
  singleton = singleton  adapter = adapter  visitor = visitor  text = text
  Thread = {t1, t2, t3}
  Login = {admin}
  Password = {key}
  ImgType = {png}
  Image = {cat}
  Pattern = {singleton, adapter}
  PatternImages = {singleton, adapter}
  Name = {singleton, adapter, visitor}
  Result = {1, 2}
  Malformed = {text}
  FileOf <- WindowsFile
  Uploads <- SomeUploads
  Kinds = {"set_all_result", "result", "authorization"}
  InitialUser <- OneAccount
  None = None
SYMMETRY Symmetry
INVARIANTS RefusalsJustified OneRowUnlessUploadsOverlap LastResultWins
PROPERTIES UploadIsExact AuthorizationIsExact
