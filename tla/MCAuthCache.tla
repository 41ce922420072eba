---------------------------- MODULE MCAuthCache -----------------------------
(***************************************************************************)
(* Small instances of AuthCache: a superuser root with session jr, and bob,*)
(* who holds the role of administrators and has session jb; jn is the      *)
(* session of a later login.                                               *)
(***************************************************************************)
EXTENDS AuthCache, TLC

CONSTANTS root, bob, jr, jb, jn, ra, rb, rc, Enabled

MCOwner == (jr :> root) @@ (jb :> bob) @@ (jn :> bob)
MCName == (ra :> "admin") @@ (rb :> "editor") @@ (rc :> "editor")
MCGrants == (ra :> {"users.manage"}) @@ (rb :> {}) @@ (rc :> {})
MCHeld == (root :> {}) @@ (bob :> {ra})

Named(op, j, u, ro, p) ==
    [op |-> op, jti |-> j, user |-> u, role |-> ro, perm |-> p]

MCCalls == {c \in
    {Named("me", j, None, None, None) : j \in {jb, jn}}
    \cup {Named("logout", jb, None, None, None),
          Named("login", jn, None, None, None)}
    \cup {Named("revoke_role", jb, bob, ra, None)}
    \cup {Named("assign_role", jr, u, ra, None) : u \in Users}
    \cup {Named("delete_role", jr, None, ra, None),
          Named("create_role", jr, None, rb, None),
          Named("create_role", jr, None, rc, None)}
    \cup {Named("grant_permission", jr, None, ra, "content.read"),
          Named("revoke_permission", jr, None, ra, "users.manage")}
    \cup {Named("create_permission", jr, None, None, "users.ban")}
    \cup {Named(op, jr, bob, None, None) : op \in {"ban", "unban"}}
    : c.op \in Enabled}

=============================================================================
