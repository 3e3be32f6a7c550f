------------------------ MODULE MCSubmissionRequests ------------------------
(* SubmissionRequests on small instances. *)
EXTENDS SubmissionRequests

=============================================================================
