\* One message is posted, its task deleted, and the message posted again.
SPECIFICATION IntakeSpec
CONSTANTS
  Columns = {c1}
  Titles = {x}
  Tasks = {t1, t2}
  Requests = {r1, r2}
  NoColumn = NoColumn
  NoTitle = NoTitle
  NoTask = NoTask
  Messages = {m1}
  SupportMessages = {}
  Payloads = {h1}
  NoMessage = NoMessage
  NoPayload = NoPayload
PROPERTY RepostsReturnTheTask
