SPECIFICATION Spec
CONSTANTS
    pilot1 = pilot1
    drone42 = drone42
    k1 = k1
    k2 = k2
    k3 = k3
    pw1 = pw1
    pw2 = pw2
    Username = {pilot1, drone42, nobody}
    Password = {pw1, pw2}
    PasswordOf <- MCPasswordOf
    Client = {c1, c2}
    Account = {pilot1, drone42}
    Role = {"user", "drone"}
    RoleOf <- MCRoleOf
    Secret = {k1, k2}
    Key = {k1, k2, k3}
    Foreign <- MCForeign
    NoExp = NoExp
    Second = 2
    AccessTTL = 3
    MaxTime = 6
    MaxLogins = 2
    MaxRestarts = 2
INVARIANTS
    AcceptedFromLogin
    ExpiresWhenReported
