SPECIFICATION FairSpec
CONSTANTS
  Processes = {"client", "server"}
  Senders = {ui, s2}
  Ui = ui
  Receivers = {r1}
  login = login
  register = register
  send = send
  Requests = {login, register, send}
  To <- SameTo
  Id <- SomeId
  Froms = {0, 1}
  Others <- Forwarded
  SocketBuffer = 2
  MaxArrivals = 4
INVARIANTS
  ExchangeTypeOK
  EndedByLike
  AllAccounted
PROPERTY SendReturns
CHECK_DEADLOCK FALSE
