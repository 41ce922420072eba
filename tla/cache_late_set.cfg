SPECIFICATION Spec
CONSTANTS
    root = root
    bob = bob
    jr = jr
    jb = jb
    jn = jn
    ra = ra
    rb = rb
    rc = rc
    None = None
    Workers = {w1, w2}
    Users = {root, bob}
    Superusers = {root}
    Jtis = {jr, jb, jn}
    SignedIn = {jr, jb}
    RoleIds = {ra, rb, rc}
    Perms = {"users.manage", "users.ban", "content.read"}
    SeedPerms = {"users.manage", "content.read"}
    TTL = 2
    MaxChanges = 2
    Faults = {}
    Enabled = {"me", "assign_role", "revoke_role"}
    Owner <- MCOwner
    Name <- MCName
    SeedGrants <- MCGrants
    SeedHeld <- MCHeld
    Calls <- MCCalls
INVARIANT ChangeVisible
