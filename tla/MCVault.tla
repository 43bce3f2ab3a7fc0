------------------------------ MODULE MCVault ------------------------------
(* One node, two recovery phrases; a key of bytes, a passphrase and none.  *)
EXTENDS Vault

CONSTANTS s1, s2, raw, pass

MCSeeds == {s1, s2}
MCRawKeys == {raw}
MCPassphrases == {pass}
=============================================================================
