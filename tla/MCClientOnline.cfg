SPECIFICATION ClientSpec
CONSTANTS
  Processes = {"client"}
  ui = ui
  login1 = login1
  login2 = login2
  register = register
  send = send
  add = add
  list = list
  remove = remove
  logoff = logoff
  Senders = {ui}
  Ui = ui
  Receivers = {}
  Requests = {login1, register}
  To <- MCTo
  Id <- MCId
  Froms = {0}
  Others <- NoOthers
  SocketBuffer = 2
  MaxArrivals = 2
  LoginSize = 10
  RegisterSize = 76
  Type <- MCType
  UserIds <- MCUserIds
  Replies <- MCReplies
  Junk = {0, 1}
INVARIANT OnlineIsConfirmed
CHECK_DEADLOCK FALSE
