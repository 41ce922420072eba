----------------------------- MODULE MCGateway ------------------------------
(***************************************************************************)
(* Small instances of Gateway: s1 is signed in, s2 is the session of a     *)
(* login that goes through the gateway.                                    *)
(***************************************************************************)
EXTENDS Gateway

CONSTANTS s1, s2

Ask(o, s, k, b, c) ==
    [op |-> o, session |-> s, cookie |-> k, bearer |-> b, claims |-> c]

MCCalls ==
    {Ask("content", None, k, None, FALSE) : k \in {Bare, s1, s2}}
    \cup {Ask("content", None, k, None, TRUE) : k \in {None, s1}}
    \cup {Ask("content", None, None, s1, FALSE)}
    \cup {Ask("login", s2, k, None, FALSE) : k \in {None, s1}}
    \cup {Ask("logout", None, s1, None, FALSE),
          Ask("logout", None, None, s1, FALSE)}
    \cup {Ask("me", None, s1, None, FALSE),
          Ask("ready", None, None, None, FALSE),
          Ask("nowhere", None, None, None, FALSE)}

AllConfigs == [content : BOOLEAN, secure : {TRUE}]
DevConfigs == [content : {TRUE}, secure : {FALSE}]

=============================================================================
