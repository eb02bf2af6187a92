----------------------------- MODULE MCLifecycle -----------------------------
(* An instance of Lifecycle for TLC.                                       *)
EXTENDS Lifecycle, TLC

CONSTANTS h, f, conf1, k1, k2, a1, a2, all, dns1, c1, c2, v0, v1, v2

L(key, val) == [key |-> key, val |-> val]
MCIsDir == h :> TRUE @@ f :> FALSE @@ conf1 :> FALSE

MCTexts ==
  {\* Two peers, one of them cut in two by a second [Interface].
   << L("publickey", k2), L(Header, "interface"), L("privatekey", k1), L("address", <<a1, a2>>),
      L("dns", <<Bad, a1>>), L("listenport", 1), L("mtu", 0),
      L(Header, "peer"), L("publickey", k1), L("persistentkeepalive", 25),
      L(Header, "interface"), L("publickey", k2),
      L(Header, "peer"), L("publickey", k1), L("publickey", k2), L("presharedkey", k1),
      L("endpoint", a1), L("allowedips", <<a1>>), L("allowedips", <<a2>>) >>,
   \* No address, a section nobody knows, an endpoint that does not parse.
   << L(Header, "interface"), L("privatekey", k1) >>,
   << L(Header, "interface"), L("privatekey", k1), L("address", <<a1>>), L(Header, "wg") >>,
   << L(Header, "interface"), L("privatekey", k1), L("address", <<a1>>),
      L(Header, "peer"), L("endpoint", Bad) >> }

MCEverything == <<all>>
Symmetry == Permutations({c1, c2}) \cup Permutations({v1, v2})
MCDefaultDNS == <<dns1>>
=============================================================================
