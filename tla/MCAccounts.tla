----------------------------- MODULE MCAccounts -----------------------------
(***************************************************************************)
(* Small instances of Accounts.  u1 is a moderator, u2 an ordinary account *)
(* with one session and one live link of each purpose.                     *)
(***************************************************************************)
EXTENDS Accounts, TLC

CONSTANTS u1, u2, s1, s2, p1, v1, e1, e2, e3, a, b,
          Enabled   \* endpoints the clients of this instance use

MCAddress == (u1 :> e1) @@ (u2 :> e2)
MCSecret  == (u1 :> a) @@ (u2 :> a)
MCOwner   == (s1 :> u1) @@ (s2 :> u2)
MCLink    == (p1 :> [user |-> u2, purpose |-> "password_reset"])
          @@ (v1 :> [user |-> u2, purpose |-> "email_verification"])

Own == [op : {"logout", "me", "delete_me", "revoke_all", "revoke_others",
              "refresh"},
        jti : Jtis \ {s1}, sid : {None}, tok : {None}, user : {None},
        email : {None}, password : {None}, new : {None}]
Named == [op : {"revoke_session"}, jti : {s2}, sid : Jtis, tok : {None},
          user : {None}, email : {None}, password : {None}, new : {None}]
\* The moderator acts on u2 and tries to ban itself; u2 tries to moderate.
ModeratedBy(s, ops, u) ==
    [op : ops, jti : {s}, sid : {None}, tok : {None}, user : {u},
     email : {None}, password : {None}, new : {None}]
Moderation == ModeratedBy(s1, ModerationOps, u2)
              \cup ModeratedBy(s1, {"ban"}, u1)
              \cup ModeratedBy(s2, ModerationOps, u2)
Credentials == [op : {"login"}, jti : {None}, sid : {None}, tok : {None},
                user : {None}, email : {e2}, password : Passwords,
                new : {None}]
Signup == [op : {"register"}, jti : {None}, sid : {None}, tok : {None},
           user : {None}, email : {e2, e3}, password : {a}, new : {None}]
Forgotten == [op : {"forgot_password"}, jti : {None}, sid : {None},
              tok : {None}, user : {None}, email : {e2},
              password : {None}, new : {None}]
Resets == [op : {"reset_password"}, jti : {None}, sid : {None}, tok : Toks,
           user : {None}, email : {None}, password : {None}, new : {b}]
Verifies == [op : {"verify_email"}, jti : {None}, sid : {None}, tok : Toks,
             user : {None}, email : {None}, password : {None}, new : {None}]
Profile == [op : {"update_me"}, jti : {s2}, sid : {None}, tok : {None},
            user : {None}, email : {None, e3}, password : {None},
            new : {None}]
Change == [op : {"change_password"}, jti : {s2}, sid : {None}, tok : {None},
           user : {None}, email : {None}, password : {a}, new : {a, b}]

MCCalls == {c \in Own \cup Named \cup Moderation \cup Credentials \cup Signup
                \cup Forgotten \cup Resets \cup Verifies \cup Profile
                \cup Change : c.op \in Enabled}

Symmetry == Permutations(Requests)

=============================================================================
