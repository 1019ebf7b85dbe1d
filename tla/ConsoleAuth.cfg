CONSTANTS
  Users = {u1}
  u1 = u1
  Pages = {"/", "/sessions"}
  Home = "/"
  Lists = {"stats"}
  FirstSetup <- MCFirstSetup
  MaxTokens = 2
  MaxCalls = 2
  None = None
SPECIFICATION FairSpec
INVARIANTS
  TypeOK
  TokensAgree
  StaysSignedOut
PROPERTIES
  
  RevokedLeaves

