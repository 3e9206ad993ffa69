\* Two clients, two users, every action, one failing statement.
SPECIFICATION Spec
CONSTANTS
  t1 = t1
  t2 = t2
  u1 = u1
  u2 = u2
  none = none
  Threads = {t1, t2}
  Users = {u1, u2}
  NoUser = none
  MaxConns = 2
  MaxMessages = 2
  MaxFailures = 1
  Actions = {"login", "chat", "chat_to_room", "log_out", "request_chat_his_from_client", "sign_in"}
INVARIANTS AddressHonest StatusExplained FeedbackHonest OfflineAtTheEnd
CHECK_DEADLOCK FALSE
SYMMETRY Symmetry
