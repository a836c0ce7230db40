---------------------------- MODULE MCAuthRoutes ----------------------------
(***************************************************************************)
(* Small instances of AuthRoutes for TLC: requests 1 to 3 work on          *)
(* credentials, 4 and 5 are other calls.                                   *)
(***************************************************************************)
EXTENDS AuthRoutes

\* The first supports "basic"; the second has a list of the other kind and an
\* expiry; the third passes no schema.
Open == [domains |-> [whitelist |-> {"home"}], basic |-> TRUE, exp |-> FALSE, valid |-> TRUE]
ThreeConfigs ==
  {Open,
   [domains |-> [blacklist |-> {"home"}], basic |-> FALSE, exp |-> TRUE, valid |-> TRUE],
   [domains |-> <<>>, basic |-> TRUE, exp |-> FALSE, valid |-> FALSE]}

TwoNeeds == {NIL, {"CREATE_PREFERENCE"}}
AllClaimed == {{"CREATE_PREFERENCE"}}

Server(ops) == [deployment |-> "server", ops |-> ops]
Serverless(ops) == [deployment |-> "serverless", ops |-> ops]

\* What the requests do in one process: REST calls beside log-ins and a log-out, a
\* log-out beside two log-ins, and requests that compile the configuration beside
\* each other.
MCScenes ==
  {Server(<<"create_super", "log_in", "absent", "call", "absent">>),
   Server(<<"sign_in", "log_in", "absent", "call", "absent">>),
   Server(<<"absent", "absent", "absent", "call", "log_out">>),
   Server(<<"sign_in", "log_in", "log_in", "absent", "log_out">>),
   Serverless(<<"absent", "absent", "absent", "fortune", "fortune">>),
   Serverless(<<"sign_in", "absent", "absent", "log_out", "absent">>),
   Serverless(<<"absent", "absent", "absent", "call", "absent">>),
   Serverless(<<"absent", "absent", "absent", "fortune", "sign_out">>)}

\* Of two log-ins beside a log-out both ask as a client, since nobody is super in
\* that scene and one that asks as a manager is refused, and both arrive when the
\* sign-in is over.  Other scenes show how a log-in is refused or overlaps one.
AfterSignIn ==
  http[3].op = "log_in" =>
    /\ \A r \in {2, 3} : req[r].ask = "client"
    /\ At(1, "done") \/ (At(2, "idle") /\ At(3, "idle"))
=============================================================================
