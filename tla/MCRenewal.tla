----------------------------- MODULE MCRenewal -----------------------------
(* One subscription that two workers bill at the same time: long enough for *)
(* a renewal, its grace time, a suspension and the expiry.                  *)
EXTENDS Renewal
=============================================================================
