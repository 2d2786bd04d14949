------------------------------- MODULE MCGateways -------------------------------
(***************************************************************************)
(* An instance of Gateways: localhost, the tests' domain, a domain, and a  *)
(* name under it.                                                          *)
(***************************************************************************)
EXTENDS Gateways

CONSTANTS site, sub

MCHosts == {localhost, example, site, sub}
MCUnder == {<<sub, site>>}

================================================================================
