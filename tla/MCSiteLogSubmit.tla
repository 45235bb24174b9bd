--------------------------- MODULE MCSiteLogSubmit ---------------------------
(* A phone with one capture, on small instances.                            *)
EXTENDS SiteLogSubmit
=============================================================================
