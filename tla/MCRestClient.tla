---------------------------- MODULE MCRestClient ----------------------------
(* RestClient for credentials with a password and with a token, a cache of *)
(* one Connection, and requests that may and may not be replayed.          *)
EXTENDS RestClient

MCRequests == {[key |-> "password", method |-> "PUT"],
               [key |-> "password", method |-> "POST"],
               [key |-> "token", method |-> "DELETE"]}

=============================================================================
