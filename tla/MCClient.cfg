SPECIFICATION ClientFairSpec
CONSTANTS
  Processes = {"client"}
  ui = ui
  login1 = login1
  login2 = login2
  register = register
  send = send
  add = add
  list = list
  remove = remove
  logoff = logoff
  Senders = {ui}
  Ui = ui
  Receivers = {}
  Requests = {login1, login2, register, send, add, list, remove, logoff}
  To <- MCTo
  Id <- MCId
  Froms = {0}
  Others <- MCOthers
  SocketBuffer = 2
  MaxArrivals = 2
  LoginSize = 10
  RegisterSize = 76
  Type <- MCType
  UserIds <- MCUserIds
  Replies <- MCReplies
  Junk = {0, 1}
INVARIANTS
  ClientTypeOK
  EndedByOwnOrPast
PROPERTIES
  IdentityKept
  OneIsRefused
  ImplementsExchange
  CommandReturns
CHECK_DEADLOCK FALSE
