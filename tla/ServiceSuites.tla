---------------------------- MODULE ServiceSuites ----------------------------
(* The services are many and share no state: a behaviour is about one of them,
   "suite", and the variables of the others stay as they began.              *)
CONSTANT Suites
VARIABLE suite

Off == <<>>      \* what a variable of another suite holds
=============================================================================
