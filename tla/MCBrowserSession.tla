-------------------------- MODULE MCBrowserSession --------------------------
(* A small instance of BrowserSession for TLC. *)
EXTENDS BrowserSession

CONSTANTS t1, r1, r2

OneTab == {t1}
MCRequests == {r1, r2}
BothClients == {"api", "enterprise"}
=============================================================================
