SPECIFICATION Spec
CONSTANTS
  Run = {r1, r2}
  alex = alex
  chat = chat
  ann = ann
  Session = {chat}
  User = {ann}
  Fact = {alex}
  None = None
  SessionOf <- OneSession
  UserOf <- OneUser
  FactOf <- SameFact
  Replies <- Degraded
  LastN = 1
  MaxRounds = 2
  MaxResults = 1
INVARIANTS
  TypeOK TurnsOnceInOrder RepeatsOnlyUnseen
PROPERTIES
  ContinuesConversation
  ScratchpadPrivate
  EveryRunEnds
