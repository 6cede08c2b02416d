---------------------------- MODULE TaprootVault ----------------------------
(***************************************************************************)
(* A taproot vault over SecurosysBackend: its account xpub is read over    *)
(* PKCS#11, and its spends are signed over TSB by the name of the master   *)
(* and the full path (SecurosysTaprootSigner, src/tsb/mod.rs).  The two    *)
(* transports meet only in the label, the path and the token.              *)
(***************************************************************************)
EXTENDS SecurosysBackend

CONSTANTS
  VaultNames,  \* EmVault labels of signers
  LeafPaths    \* paths below the account that are signed with

ASSUME VaultNamesAssumption == VaultNames \subseteq Names
ASSUME LeafPathsAssumption == LeafPaths \subseteq Seq(Nat)

VARIABLES
  origin,       \* the label of the master each call derives from
  vault,        \* the account a signer has published, or None; sure is
                \* history: how the backend had come by its point
  provisioned,  \* labels derive_master_key has returned with TSB configured
  signed        \* the last answer to a signing request, or None

vaultVars == <<origin, vault, provisioned, signed>>
allVars == <<vars, vaultVars>>

(* key_ops::priv_label: "emvault.v1.<name>.priv".                          *)
PrivLabel(name) == <<name, "priv">>

-----------------------------------------------------------------------------
VaultInit ==
  /\ Init
  /\ origin = [t \in Threads |-> NoLabel]
  /\ vault = None
  /\ provisioned = {}
  /\ signed = None

(* derive_path of an account, remembering which master the caller named.   *)
DeriveAccount(t) ==
  /\ DerivePath(t)
  /\ origin' = [origin EXCEPT ![t] = store[call'[t].priv].label]
  /\ UNCHANGED <<vault, provisioned, signed>>

(* The signer takes what the backend returned: an account it publishes as  *)
(* the vault's key, a master it may from now on use over TSB.              *)
Publishes(c) == c.op = "account" /\ c.res = "ok"

TakeResult(t) ==
  LET c     == call[t]
      names == {n \in VaultNames : origin[t] = PrivLabel(n)}
  IN
  /\ Take(t)
  /\ \/ /\ Publishes(c)
        /\ \E n \in names : vault' = [name |-> n, path |-> c.path,
                                     point |-> c.point, chain |-> c.chain,
                                     sure |-> Sure(c)]
     \/ ~(Publishes(c) /\ names # {}) /\ UNCHANGED vault
  /\ provisioned' = provisioned \cup
       (IF c.op = "master" /\ c.res = "ok" /\ taproot THEN {c.label} ELSE {})
  /\ origin' = [origin EXCEPT ![t] = NoLabel]
  /\ signed' = None

(* A step of the backend that concerns neither.                            *)
BackendStep ==
  /\ \/ \E t \in Threads : DeriveMasterKey(t) \/ ReadXpub(t) \/ Step(t)
     \/ TsbApply \/ LoseSession
  /\ UNCHANGED vaultVars

(* The signer comes back with its vault's descriptor after a restart.      *)
RestartSigner ==
  /\ Restart
  /\ origin' = [t \in Threads |-> NoLabel]
  /\ signed' = None
  /\ UNCHANGED <<vault, provisioned>>

-----------------------------------------------------------------------------
(* sign_key_name.  Mutant: the path of the account is left out.            *)
SignKeyNameLeafOnly(name, account, leaf) ==
  [master |-> PrivLabel(name), path |-> leaf]
SignKeyName(name, account, leaf) ==
  [master |-> PrivLabel(name), path |-> account \o leaf]

(* sign_schnorr of a leaf of the vault: possible only if taproot_signer is *)
(* there.  TSB signs with the child of a master it has registered under    *)
(* the label, or does not know the key.                                    *)
SignSchnorr ==
  /\ taproot
  /\ vault # None
  /\ \E leaf \in LeafPaths :
       LET name   == SignKeyName(vault.name, vault.path, leaf)
           found  == {h \in Matching(store, "private", name.master) : store[h].tsb}
       IN
       \/ \E h \in found :
            signed' = [leaf |-> leaf, res |-> "ok",
                       key |-> Child(store[h].key, name.path)]
       \/ /\ found = {}
          /\ signed' = [leaf |-> leaf, res |-> "unknownKey", key |-> None]
  /\ UNCHANGED <<vars, origin, vault, provisioned>>

VaultNext ==
  \/ BackendStep \/ RestartSigner \/ SignSchnorr
  \/ \E t \in Threads : DeriveAccount(t) \/ TakeResult(t)

VaultSpec == VaultInit /\ [][VaultNext]_allVars

-----------------------------------------------------------------------------
(* Properties.                                                             *)

(* A Schnorr signature verifies under the vault's descriptor: TSB signed   *)
(* with the leaf of the very xpub that was read over PKCS#11, before or    *)
(* after restarts, with a master from either transport (mod.rs:347-384);   *)
(* of an account whose entry in the map may have been evicted before its   *)
(* xpub was read, or outdated, this holds of the chain code.               *)
SchnorrVerifies ==
  signed # None /\ signed.res = "ok" =>
    /\ signed.key = Child(vault.chain, signed.leaf)
    /\ vault.sure => signed.key = Child(vault.point, signed.leaf)

(* A vault whose master derive_master_key returned with TSB configured can *)
(* be signed for ever after: TSB knows the key, however the import went.   *)
ProvisionedSigns ==
  signed # None /\ PrivLabel(vault.name) \in provisioned =>
    signed.res = "ok"
=============================================================================
