----------------------------- MODULE MCHttpClients -----------------------------
(***************************************************************************)
(* Four URLs: robots.txt, an allowed and a disallowed page, another host.  *)
(***************************************************************************)
EXTENDS HttpClients

MCOnHost == {"robots", "page", "denied"}
MCUrls   == MCOnHost \cup {"elsewhere"}
=============================================================================
