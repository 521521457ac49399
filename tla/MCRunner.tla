------------------------------ MODULE MCRunner -------------------------------
(* Three tests with any statuses, both handlers, both Allure formats.       *)
EXTENDS Runner
=============================================================================
