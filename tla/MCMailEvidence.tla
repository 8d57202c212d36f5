--------------------------- MODULE MCMailEvidence ---------------------------
(* Instances of MailEvidence for TLC.                                        *)
EXTENDS MailEvidence
=============================================================================
