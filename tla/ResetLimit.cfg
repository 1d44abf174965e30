\* One background thread and the hourly sweep: no race is needed.
SPECIFICATION ResetsSpec
CONSTANTS
  Threads = {r1}  Ips = {i1, i2}
  Owners = {u1}  LinksPerUser = 2  LinksPerIp = 2  SubmitMax = 1  LinkTtl = 0
  ResetWindow = 1  MaxMails = 4
INVARIANTS MailLimit
