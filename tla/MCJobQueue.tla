------------------------------ MODULE MCJobQueue ------------------------------
(* Model-checking instance of JobQueue: one job with the three attempts of  *)
(* the code, a breaker that opens after two timeouts, and other requests    *)
(* that use it.                                                             *)
EXTENDS JobQueue

==============================================================================
