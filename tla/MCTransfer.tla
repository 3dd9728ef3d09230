---------------------------- MODULE MCTransfer ----------------------------
(* Contents of two, three and one chunk follow each other; two attempts.     *)
EXTENDS Transfer

MCSizes == <<2, 3, 1>>
MCRetries == 2
MCMaxPart == 4
=============================================================================
