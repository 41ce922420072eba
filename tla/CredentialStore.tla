-------------------------- MODULE CredentialStore --------------------------
(***************************************************************************)
(* What users_service promises about credentials, whatever requests run    *)
(* side by side and whatever crashes: sessions and mailed links are        *)
(* created once, end once and never come back, never change hands, and     *)
(* what one request does to them appears at once and concerns one account. *)
(* Accounts implements it.                                                 *)
(*                                                                         *)
(* It does not promise that a session is rotated once only, or that none   *)
(* is opened while its account is being signed out: the code does not keep *)
(* either.                                                                 *)
(***************************************************************************)
CONSTANTS Users, Jtis, Toks, Purposes

VARIABLES
    session,   \* [Jtis -> [state, user]]
    link,      \* [Toks -> [state, user, purpose]]
    mailed     \* links whose plaintext has left the service

svars == <<session, link, mailed>>

SessionStates == {"none", "open", "revoked"}
LinkStates == {"none", "unused", "used"}

\* Some sessions and links may be there from the start.
Init ==
    /\ session \in [Jtis -> [state : SessionStates, user : Users]]
    /\ link \in [Toks -> [state : LinkStates, user : Users,
                          purpose : Purposes]]
    /\ mailed \in SUBSET {t \in Toks : link[t].state # "none"}

OpenOf(u) == {j \in Jtis : session[j] = [state |-> "open", user |-> u]}
UnusedOf(u) == {t \in Toks : link[t].state = "unused" /\ link[t].user = u}

Revoked(R) ==
    [j \in Jtis |-> IF j \in R THEN [session[j] EXCEPT !.state = "revoked"]
                    ELSE session[j]]
Used(L) ==
    [t \in Toks |-> IF t \in L THEN [link[t] EXCEPT !.state = "used"]
                    ELSE link[t]]

\* A new session.
Login(u, j) ==
    /\ session[j].state = "none"
    /\ session' = [session EXCEPT ![j] = [state |-> "open", user |-> u]]
    /\ UNCHANGED <<link, mailed>>

\* A new session j for the owner of i, which ends if it had not ended before.
Rotate(i, j) ==
    /\ session[i].state # "none" /\ session[j].state = "none"
    /\ session' = [Revoked({i}) EXCEPT
                      ![j] = [state |-> "open", user |-> session[i].user]]
    /\ UNCHANGED <<link, mailed>>

\* Sessions and links of one account end.
End(u, R, L) ==
    /\ session' = Revoked(R)
    /\ link' = Used(L)
    /\ UNCHANGED mailed

\* A new link, which replaces older ones of its purpose.
Issue(u, p, t, L) ==
    /\ link[t].state = "none"
    /\ \A l \in L : link[l].purpose = p
    /\ link' = [Used(L) EXCEPT ![t] = [state |-> "unused", user |-> u,
                                       purpose |-> p]]
    /\ UNCHANGED <<session, mailed>>

\* A link reaches a mailbox.
Mail(t) ==
    /\ link[t].state # "none"
    /\ mailed' = mailed \cup {t}
    /\ UNCHANGED <<session, link>>

Next ==
    \/ \E u \in Users :
          \/ \E j \in Jtis : Login(u, j)
          \/ \E R \in SUBSET OpenOf(u), L \in SUBSET UnusedOf(u) : End(u, R, L)
          \/ \E L \in SUBSET UnusedOf(u), p \in Purposes, t \in Toks :
                Issue(u, p, t, L)
    \/ \E i, j \in Jtis : Rotate(i, j)
    \/ \E t \in Toks : Mail(t)

Spec == Init /\ [][Next]_svars

=============================================================================
