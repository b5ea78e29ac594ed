-------------------------- MODULE MCServerSessions --------------------------
(* Two connections and an account database in which both accounts exist,
   under ids the session counter does not reach.  "Own" accounts: each client
   logs in to its own.  "One": c2 logs in to the account that c1 used. *)
EXTENDS ServerSessions

CONSTANTS c1, c2, alice, bob

OwnAccounts == [c \in Clients |-> IF c = c1 THEN alice ELSE bob]
OneAccount  == [c \in Clients |-> alice]

HighIds == [a \in Accounts |-> IF a = alice THEN 4 ELSE 5]
=============================================================================
