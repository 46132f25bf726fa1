----------------------------- MODULE MCProbers -----------------------------
(* Every configuration a probe can tell from another.                       *)
EXTENDS Probers

MCConfigs == [protocol : Protocols, valid : BOOLEAN, extra : BOOLEAN,
              follow : BOOLEAN]
=============================================================================
