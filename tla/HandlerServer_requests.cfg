\* Registrations, authorizations and results, without uploads, of two logins that
\* differ in case only.
SPECIFICATION Spec
CONSTANTS
  t1 = t1  t2 = t2  t3 = t3
  admin = admin  ann = ann  Ann = Ann  key = key  word = word
  png = png  jpg = jpg  cat = cat  dog = dog
  singleton = singleton  adapter = adapter  visitor = visitor  text = text
  Thread = {t1, t2, t3}
  Login = {ann, Ann}
  Password = {key, word}
  ImgType = {png}
  Image = {cat, dog}
  Pattern = {singleton}
  PatternImages = {singleton}
  Name = {singleton}
  Result = {1, 2}
  Malformed = {text}
  FileOf <- WindowsFile
  Uploads = {}
  Kinds = {"registration", "authorization", "result"}
  InitialUser <- NoAccount
  None = None
SYMMETRY Symmetry
INVARIANTS MutexLeakedOnlyByThrow RegisteredOnce AvatarIntact OneRowPerResult
PROPERTIES ImplementsBook
