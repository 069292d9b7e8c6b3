---------------------------- MODULE MCOAuthProxy ----------------------------
(* Model checking OAuthProxy: the rates, and the requests clients send.      *)
EXTENDS OAuthProxy

CONSTANTS a, b, c

MCRate == [r \in Routes |-> IF r = "token" THEN 1 ELSE 2]

\* Three addresses on /token, named by the first header, the second one, or the
\* peer; one on each of the other routes, where the one of /register has none.
MCRequests ==
  {[route |-> "token", headers |-> <<a, b>>, peer |-> a],
   [route |-> "token", headers |-> <<Absent, b>>, peer |-> c],
   [route |-> "token", headers |-> <<Absent, Absent>>, peer |-> c],
   [route |-> "authorize", headers |-> <<a, Absent>>, peer |-> c],
   [route |-> "register", headers |-> <<Absent, Absent>>, peer |-> Absent]}
=============================================================================
