------------------------------- MODULE MCJobs -------------------------------
(* One month in advance and one month of retention instead of 3 and 25.    *)
EXTENDS Jobs
=============================================================================
