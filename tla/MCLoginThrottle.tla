-------------------------- MODULE MCLoginThrottle --------------------------
(***************************************************************************)
(* Small instances of LoginThrottle: the rules of a login per account and  *)
(* per client address, and the gate of forgot-password per mailbox; its    *)
(* gate per client address is switched off.                                *)
(***************************************************************************)
EXTENDS LoginThrottle

CONSTANTS PerAccount, PerAddress, PerGate

MCKeys == (IpRules \X IPs) \cup (MailRules \X Mailboxes)
MCLimit == [k \in MCKeys |->
    CASE k[1] = "login:user" -> PerAccount
      [] k[1] = "login:ip" -> PerAddress
      [] k[1] = "forgot-password" -> PerGate
      [] OTHER -> 0]

=============================================================================
