\* AUTH_REQUIRE_TOTP=all and the generated first password.
SPECIFICATION Spec
CONSTANTS
  Threads = {r1, r2}  Ips = {}  RequireTotp = "all"
  Routes = {"logout", "change_password", "totp_setup", "totp_enable"}
  MaxUsers = 1  MaxFresh = 3
SYMMETRY ThreadSymmetry
INVARIANTS ChangePasswordReachable
