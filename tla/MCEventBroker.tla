--------------------------- MODULE MCEventBroker ---------------------------
(* One websocket and two API processes.  Two events happen in the process   *)
(* of the socket; one in the other, which the topics of the client leave    *)
(* out.                                                                     *)
EXTENDS EventBroker

CONSTANTS here, there, s1, a1, a2, b1

MCHome == s1 :> here
MCOrigin == a1 :> here @@ a2 :> here @@ b1 :> there
MCTopics == s1 :> {a1, a2}
=============================================================================
