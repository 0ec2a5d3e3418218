------------------------------ MODULE MC_Logger ------------------------------
(* The enumerators in declaration order Debug, Info, Critical; eight      *)
(* tokens are enough for two lines with suppressed output between them.   *)
EXTENDS Logger

=============================================================================
