\* Every kind of request is answered, unless the mutex is leaked.
SPECIFICATION Spec
CONSTANTS
  t1 = t1  t2 = t2  t3 = t3
  admin = admin  ann = ann  Ann = Ann  key = key  word = word
  png = png  jpg = jpg  cat = cat  dog = dog
  singleton = singleton  adapter = adapter  visitor = visitor  text = text
  Thread = {t1, t2}
  Login = {admin, ann}
  Password = {key, word}
  ImgType = {png}
  Image = {cat}
  Pattern = {singleton, adapter}
  PatternImages = {singleton, adapter}
  Name = {singleton, adapter, visitor}
  Result = {1, 2}
  Malformed = {text}
  FileOf <- WindowsFile
  Uploads <- SomeUploads
  Kinds = {"registration", "authorization", "result", "set_all_result",
           "patterns", "unreadable"}
  InitialUser <- OneAccount
  None = None
PROPERTY AnsweredUnlessLeaked
