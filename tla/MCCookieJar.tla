---------------------------- MODULE MCCookieJar -----------------------------
(***************************************************************************)
(* CookieJar for TLC: exchanges a and b, editors d and e.                  *)
(***************************************************************************)
EXTENDS CookieJar, TLC

CONSTANTS a, b, d, e

=============================================================================
