CONSTANTS
  Name = {"a"}
  Text = {"empty", "blank", "hi"}
  ItemsPerBlock = 2
  MaxBlocks <- MCMaxBlocks
  MaxNodes <- MCMaxNodes
  MaxTree = 4
  MaxCut = 3
  MaxDepth = 4
  Foreign <- MCForeign
  Received <- Messages
  Doc = Doc
  None = None
SPECIFICATION Spec
INVARIANTS
  LinksAgree
  PoolsBalanced
  PrintedReadsBack
  CutReadsPrefix
PROPERTIES
  ImplementsForest
  AllowedCallsOnly
