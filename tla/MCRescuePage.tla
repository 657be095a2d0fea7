----------------------------- MODULE MCRescuePage -----------------------------
(* Two networks; on the one the position is on, the node the page offers and   *)
(* another the owner may name.                                                 *)
EXTENDS RescuePage

TwoClusters == {"devnet", "mainnet"}
ThreeEndpoints == {"offered", "named", "elsewhere"}
Offers == [devnet |-> "offered", mainnet |-> "elsewhere"]
Serves == [offered |-> "devnet", named |-> "devnet", elsewhere |-> "mainnet"]
==============================================================================
