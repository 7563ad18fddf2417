------------------------------- MODULE MCLinks -------------------------------
(***************************************************************************)
(* Small instances of Links.                                               *)
(***************************************************************************)
EXTENDS Links, TLC

\* Two clients for one peer, of which discovery announces one after the
\* other, and the node's own server
AllConvs == {"c1", "c2", "s1"}
TheAddresses == ("c1" :> "peer") @@ ("c2" :> "peer") @@ ("s1" :> "here")
TheEndpoints == ("c1" :> "them") @@ ("c2" :> "them") @@ ("s1" :> "us")

\* A node with a single client
OneClient == {"c1"}
OneAddress == "c1" :> "peer"
OneEndpoint == "c1" :> "them"

\* Two clients for one peer
TwoClients == {"c1", "c2"}
TwoAddresses == ("c1" :> "peer") @@ ("c2" :> "peer")
TwoEndpoints == ("c1" :> "them") @@ ("c2" :> "them")
=============================================================================
