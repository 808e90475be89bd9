------------------------------- MODULE MCRisk -------------------------------
(* Small instances of Risk.                                                *)
EXTENDS Risk

MCExposures == {-100, 0, 100}
=============================================================================
