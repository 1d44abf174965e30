\* A sign-in and a set-up of the same account.
SPECIFICATION ServeSpec
CONSTANTS
  Threads = {r1, r2}  Ips = {}  RequireTotp = "off"
  Routes = {"logout", "totp_setup", "totp_enable", "totp_disable"}
  MaxUsers = 1  MaxFresh = 3
SYMMETRY ThreadSymmetry
INVARIANTS SecondFactorSessions
