----------------------------- MODULE MCRequests -----------------------------
(* Instance of Requests for TLC: a transaction, a peer that answers and a  *)
(* silent one.                                                             *)
EXTENDS Requests

CONSTANTS t, p, q
=============================================================================
