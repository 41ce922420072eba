SPECIFICATION FairSpec
CONSTANTS
    root = root
    bob = bob
    jr = jr
    jb = jb
    jn = jn
    ra = ra
    rb = rb
    rc = rc
    None = None
    Workers = {w1, w2}
    Users = {root, bob}
    Superusers = {root}
    Jtis = {jr, jb, jn}
    SignedIn = {jr, jb}
    RoleIds = {ra, rb, rc}
    Perms = {"users.manage", "users.ban", "content.read"}
    SeedPerms = {"users.manage", "content.read"}
    TTL = 2
    MaxChanges = 2
    Faults = {"crash"}
    Enabled = {"me", "logout", "login", "assign_role", "revoke_role", "delete_role", "create_role", "grant_permission", "revoke_permission", "create_permission", "ban", "unban"}
    Owner <- MCOwner
    Name <- MCName
    SeedGrants <- MCGrants
    SeedHeld <- MCHeld
    Calls <- MCCalls
INVARIANT TypeOK
INVARIANT SessionEndsAccess
INVARIANT StaleOnlyByLateSet
INVARIANT NoOrphanLinks
INVARIANT NamesUnique
PROPERTY RevokedEventuallyGone
