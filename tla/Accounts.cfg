\* Every route, two requests at a time, restarts with and without ADMIN_RESET.
SPECIFICATION Spec
CONSTANTS
  Threads = {r1, r2}  Ips = {}  RequireTotp = "off"
  Routes = {"logout", "create_user", "set_role", "delete_user", "reset_user", "change_password", "totp_reset", "totp_setup", "totp_enable", "totp_disable"}
  MaxUsers = 2  MaxFresh = 2
SYMMETRY ThreadSymmetry
INVARIANTS TypeOK AtLeastOneAdmin ResetOnce
PROPERTY NewestLinkSets
