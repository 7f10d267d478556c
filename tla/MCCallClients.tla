--------------------------- MODULE MCCallClients ---------------------------
(* Small instances of CallClients for TLC: an admin's page and an employee's *)
(* phone, which may lose its connection.                                     *)
EXTENDS CallClients

CONSTANTS web, phone

MCWebs == {web}
MCPhones == {phone}
=============================================================================
