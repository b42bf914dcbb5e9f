----------------------------- MODULE MCEdgeLimits -----------------------------
(* Instances of EdgeLimits for TLC. *)
EXTENDS EdgeLimits, TLC

(* c1 and c2 are two addresses of one IPv6 network; c2 is blocked by the   *)
(* geo list, c3 is too but is on the whitelist; both are internal.         *)
ThreeClients == {"c1", "c2", "c3"}
SharedNet == [c \in Clients |-> IF c = "c3" THEN "lan" ELSE "net"]
OnlyC3   == {"c3"}
C2AndC3  == {"c2", "c3"}
OneMail  == {"mail"}

Ask(ip, host, path, base, health, mail) ==
  [ip |-> ip, host |-> host, path |-> path, base |-> base,
   health |-> health, mail |-> mail]

(* Besides the API in the spelling of the ACLs: c3 writes its path with    *)
(* capitals or asks for no API at all, and c2 asks with capitals too.      *)
SomeRequests == {
  Ask("c1", "api", "reqcode", "api_primaer", FALSE, {"mail"}),
  Ask("c1", "api", "primaer", "api_primaer", FALSE, {}),
  Ask("c1", "api", "reqcode", "api_primaer", TRUE, {}),
  Ask("c2", "api", "other", "api_primaer", FALSE, {}),
  Ask("c3", "api", "other", "api_primaer", FALSE, {}),
  Ask("c3", "api", "other", "none", FALSE, {}) }

OneEach  == [id \in Routes \cup MailRoutes |-> 1]
OneToEach == [id \in Apis |-> 1]
Periods  == [id \in Routes \cup MailRoutes \cup {Overload} |->
               IF id = "api_primaer_reqcode_mail" THEN 2 ELSE 1]
=============================================================================
