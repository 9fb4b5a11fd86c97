-------------------------- MODULE MCIpmbdRequests --------------------------
(* IpmbdRequests for TLC.                                                  *)
EXTENDS IpmbdRequests
=============================================================================
