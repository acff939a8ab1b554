---------------------------- MODULE ProfileBundle ----------------------------
(***************************************************************************)
(* A profile bundle directory and the tools that work on it: packaging     *)
(* (the end of perceptshift_forge/orchestration/__init__.py and `bundle    *)
(* create` of the CLI), verify, sign, MAC and import (bundle.py, `bundle   *)
(* verify | inspect | sign | import`), and the loader of the runtime       *)
(* (cpp/src/bundle/bundle_loader.cpp) as the ROS node calls it.  Nothing   *)
(* locks the directory: a packager rewrites it file by file under the      *)
(* readers, and every process may be killed between two writes.            *)
(*                                                                         *)
(* A directory is a function from the paths it holds to their contents.    *)
(* The content of a model, an attestation or a profile is the number of    *)
(* the packaging that wrote it, Torn while a copy is under way or cut      *)
(* short; a digest is the text it was computed from, a signature or MAC    *)
(* the digest it covers.                                                   *)
(***************************************************************************)
EXTENDS Integers, FiniteSets

CONSTANTS
  Profiles,     (* ids of the profiles that may be packaged                *)
  Clients,      (* processes that verify, sign, MAC or import the bundle   *)
  None,         (* nothing                                                 *)
  Calls,        (* the calls each of them makes                            *)
  Selections,   (* sets of profiles that are packaged together             *)
  MaxBuilds,    (* bound on packagings                                     *)
  MaxKills      (* bound on kills and failures                             *)

Operations == {"verify", "sign", "mac", "import"}

ASSUME BundleAssumption ==
  /\ Calls \in [Clients -> SUBSET Operations]
  /\ Selections \subseteq (SUBSET Profiles) \ {{}} /\ IsFiniteSet(Profiles)
  /\ MaxBuilds \in Nat /\ MaxKills \in Nat /\ None \notin Profiles

Torn == 0

Model(p)       == <<"model", p>>
Profile(p)     == <<"profile", p>>
Attestation(p) == <<"attestation", p>>   (* of quality and certification   *)
Temp(path) == <<"temp", path>>     (* <path>.tmp of write_atomic_text *)
Manifest   == <<"meta", "manifest.json">>
Digest     == <<"meta", "manifest.sha256">>
Sig        == <<"meta", "manifest.sig">>
Mac        == <<"meta", "manifest.mac">>

VARIABLES
  src,          (* the bundle directory                                    *)
  dst,          (* the import target, also when it is partial              *)
  dstExists,    (* there is a target directory                             *)
  imported,     (* an import has ended with it, its source undisturbed     *)
  builds,       (* packagings started                                      *)
  packer,       (* the packaging process                                   *)
  client,       (* the other processes                                     *)
  kills

bundleVars == <<src, dst, dstExists, imported, builds, packer, client, kills>>

Empty == [path \in {} |-> Torn]

NoPacker == [pc |-> "idle", forge |-> FALSE, chosen |-> {}, todo |-> {},
             now |-> None, lists |-> Empty]
NoClient == [pc |-> "idle", lists |-> Empty, todo |-> {}, payload |-> Empty,
             disturbed |-> FALSE]

Has(dir, path) == path \in DOMAIN dir
Put(dir, path, content) ==
  [q \in DOMAIN dir \cup {path} |-> IF q = path THEN content ELSE dir[q]]
Without(dir, path) == [q \in DOMAIN dir \ {path} |-> dir[q]]

(* write_atomic_text: the rename takes <path>.tmp away, also one that was   *)
(* left by a killed process.                                                *)
Replaced(dir, path, content) == Put(Without(dir, Temp(path)), path, content)

Paths ==
  LET named == {Model(p) : p \in Profiles} \cup {Profile(p) : p \in Profiles}
                 \cup {Attestation(p) : p \in Profiles}
                 \cup {Manifest, Digest, Sig, Mac}
  IN  named \cup {Temp(path) : path \in named}

(* Where a packager is at work on one profile. *)
AtProfile == {"copying", "attesting", "endorsing", "describing"}

BundleTypeOK ==
  /\ DOMAIN src \subseteq Paths /\ DOMAIN dst \subseteq Paths
  /\ dstExists \in BOOLEAN /\ imported \in BOOLEAN
  /\ imported => dstExists
  /\ builds \in 0..MaxBuilds /\ kills \in 0..MaxKills
  /\ packer.pc \in AtProfile \cup {"idle", "packing", "sealing", "packed"}
  /\ packer.forge \in BOOLEAN
  /\ packer.todo \subseteq packer.chosen /\ packer.chosen \subseteq Profiles
  /\ packer.pc \in AtProfile <=> packer.now # None
  /\ DOMAIN packer.lists \subseteq Paths
  /\ \A c \in Clients :
       /\ client[c].pc \in {"idle", "manifest", "digest", "files", "verified",
                            "signing", "free", "copying"}
       /\ client[c].pc = "copying" => dstExists
       /\ client[c].pc = "idle" => client[c] = NoClient

BundleInit ==
  /\ src = Empty /\ dst = Empty /\ dstExists = FALSE /\ imported = FALSE
  /\ builds = 0 /\ packer = NoPacker
  /\ client = [c \in Clients |-> NoClient]
  /\ kills = 0
------------------------------------------------------------------------------
(***************************************************************************)
(* What the readers check.                                                 *)
(***************************************************************************)
HasDigest(dir) ==
  /\ Has(dir, Manifest) /\ Has(dir, Digest)
  /\ dir[Digest] = dir[Manifest]

Inventory(dir) == dir[Manifest].lists

Intact(dir, lists, path) == Has(dir, path) /\ dir[path] = lists[path]

(* The one kind of file that verify_bundle does not accept undeclared. *)
NoUndeclaredModel(dir, lists) ==
  \A path \in DOMAIN dir : path[1] = "model" => path \in DOMAIN lists

(* verify_bundle_signature with the key that the signature carries. *)
SignatureHolds(dir) == Has(dir, Sig) => dir[Sig] = dir[Digest]

(* verify_bundle on a directory nobody is changing. *)
Verifies(dir) ==
  /\ HasDigest(dir)
  /\ \A path \in DOMAIN Inventory(dir) : Intact(dir, Inventory(dir), path)
  /\ NoUndeclaredModel(dir, Inventory(dir))
  /\ SignatureHolds(dir)

(* load_bundle in strict inventory mode: no undeclared file at all, besides *)
(* the manifest, its digest and its signature.  The node passes no key, and *)
(* without one neither the optional nor the required policy accepts what    *)
(* it is about: a present signature, or a bundle at all.                    *)
NodeLoads(dir, requireSignature) ==
  /\ ~requireSignature
  /\ HasDigest(dir)
  /\ \A path \in DOMAIN Inventory(dir) : Intact(dir, Inventory(dir), path)
  /\ DOMAIN dir \subseteq DOMAIN Inventory(dir) \cup {Manifest, Digest, Sig}
  /\ ~Has(dir, Sig)
------------------------------------------------------------------------------
(***************************************************************************)
(* Packaging.  Whoever changes the source disturbs the clients at work.    *)
(***************************************************************************)
Disturbing(working) ==
  [c \in Clients |-> [working[c] EXCEPT !.disturbed = working[c].pc # "idle"]]

importVars == <<dst, dstExists, imported>>

(* A forge run packages its frontier with attestations, `bundle create` one *)
(* profile without.  The manifest shows which of them wrote it.  What        *)
(* follows at once, the verification that `create` prints and the signature *)
(* that a forge run may be asked for, is the work of a client.              *)
StartPacking(chosen, forge) ==
  /\ packer.pc = "idle" /\ builds < MaxBuilds
  /\ forge \/ Cardinality(chosen) = 1
  /\ builds' = builds + 1
  /\ packer' = [NoPacker EXCEPT !.pc = "packing", !.forge = forge,
                                !.chosen = chosen, !.todo = chosen]
  /\ UNCHANGED <<src, client, importVars, kills>>

(* The model is copied in place, not through a temporary file. *)
StartModel(p) ==
  /\ packer.pc = "packing" /\ p \in packer.todo
  /\ src' = Put(src, Model(p), Torn)
  /\ client' = Disturbing(client)
  /\ packer' = [packer EXCEPT !.pc = "copying", !.now = p, !.todo = @ \ {p}]
  /\ UNCHANGED <<builds, importVars, kills>>

EndModel ==
  /\ packer.pc = "copying"
  /\ src' = Put(src, Model(packer.now), builds)
  /\ client' = Disturbing(client)
  /\ packer' = [packer EXCEPT !.pc = IF packer.forge THEN "attesting"
                                                     ELSE "describing"]
  /\ UNCHANGED <<builds, importVars, kills>>

(* A forge run copies the attestations of a profile from the run, and lists *)
(* each at once.  The two files of a profile go the same way: one stands for *)
(* both.                                                                     *)
StartAttestation ==
  /\ packer.pc = "attesting"
  /\ src' = Put(src, Attestation(packer.now), Torn)
  /\ client' = Disturbing(client)
  /\ packer' = [packer EXCEPT !.pc = "endorsing"]
  /\ UNCHANGED <<builds, importVars, kills>>

(* Deviation: an attestation is copied but not listed. *)
AttestUnlisted ==
  /\ packer.pc = "endorsing"
  /\ src' = Put(src, Attestation(packer.now), builds)
  /\ client' = Disturbing(client)
  /\ packer' = [packer EXCEPT !.pc = "describing"]
  /\ UNCHANGED <<builds, importVars, kills>>

EndAttestation ==
  /\ packer.pc = "endorsing"
  /\ src' = Put(src, Attestation(packer.now), builds)
  /\ client' = Disturbing(client)
  /\ packer' = [packer EXCEPT !.pc = "describing",
                              !.lists = Put(@, Attestation(packer.now), builds)]
  /\ UNCHANGED <<builds, importVars, kills>>

(* Deviation: the inventory is taken before the profile is written. *)
InventoryFirst ==
  LET m == Model(packer.now)
      d == Profile(packer.now)
  IN
  /\ packer.pc = "describing"
  /\ src' = Replaced(src, d, builds)
  /\ client' = Disturbing(client)
  /\ packer' = [packer EXCEPT
       !.pc = "packing", !.now = None,
       !.lists = Put(Put(@, m, src[m]), d, IF Has(src, d) THEN src[d] ELSE Torn)]
  /\ UNCHANGED <<builds, importVars, kills>>

(* The profile, and the inventory of both files as they are then. *)
DescribeProfile ==
  LET m == Model(packer.now)
      d == Profile(packer.now)
  IN
  /\ packer.pc = "describing"
  /\ src' = Replaced(src, d, builds)
  /\ client' = Disturbing(client)
  /\ packer' = [packer EXCEPT !.pc = "packing", !.now = None,
                              !.lists = Put(Put(@, m, src'[m]), d, src'[d])]
  /\ UNCHANGED <<builds, importVars, kills>>

(* The manifest is stamped with the time of the packaging. *)
WriteManifest ==
  /\ packer.pc = "packing" /\ packer.todo = {}
  /\ src' = Replaced(src, Manifest, [stamp |-> builds, forge |-> packer.forge,
                                     lists |-> packer.lists])
  /\ client' = Disturbing(client)
  /\ packer' = [packer EXCEPT !.pc = "sealing"]
  /\ UNCHANGED <<builds, importVars, kills>>

WriteDigest ==
  /\ packer.pc = "sealing"
  /\ src' = Replaced(src, Digest, src[Manifest])
  /\ client' = Disturbing(client)
  /\ packer' = [packer EXCEPT !.pc = "packed"]
  /\ UNCHANGED <<builds, importVars, kills>>

EndPacking ==
  /\ packer.pc = "packed"
  /\ packer' = NoPacker
  /\ UNCHANGED <<src, client, builds, importVars, kills>>

(* The file that the packer writes next through a temporary file. *)
PackerTemp ==
  CASE packer.pc = "describing" -> {Temp(Profile(packer.now))}
    [] packer.pc = "packing" /\ packer.todo = {} -> {Temp(Manifest)}
    [] packer.pc = "sealing" -> {Temp(Digest)}
    [] OTHER -> {}

PackerKilled ==
  /\ packer.pc # "idle"
  /\ kills < MaxKills /\ kills' = kills + 1
  /\ \/ UNCHANGED <<src, client>>
     \/ \E path \in PackerTemp : /\ src' = Put(src, path, Torn)
                                 /\ client' = Disturbing(client)
  /\ packer' = NoPacker
  /\ UNCHANGED <<builds, importVars>>
------------------------------------------------------------------------------
(***************************************************************************)
(* verify_bundle, one read after the other, and what its callers go on to  *)
(* do.  A check that fails raises: the call ends.  All calls begin alike,  *)
(* so which one it is shows only when the bundle is verified.              *)
(***************************************************************************)
packerVars == <<builds, packer>>

Becomes(c, state) ==
  /\ client' = [client EXCEPT ![c] = state]
  /\ UNCHANGED <<packerVars, kills>>

Call(c) ==
  /\ client[c].pc = "idle"
  /\ Becomes(c, [NoClient EXCEPT !.pc = "manifest"])
  /\ UNCHANGED <<src, importVars>>

ReadManifest(c) ==
  /\ client[c].pc = "manifest" /\ Has(src, Manifest) /\ Has(src, Digest)
  /\ Becomes(c, [client[c] EXCEPT !.pc = "digest", !.lists = Inventory(src)])
  /\ UNCHANGED <<src, importVars>>

CheckDigest(c) ==
  /\ client[c].pc = "digest" /\ HasDigest(src)
  /\ Becomes(c, [client[c] EXCEPT !.pc = "files",
                                  !.todo = DOMAIN client[c].lists])
  /\ UNCHANGED <<src, importVars>>

(* The files of an inventory are read in its order. *)
NextOf(paths) == CHOOSE path \in paths : TRUE

CheckFile(c) ==
  /\ client[c].pc = "files" /\ client[c].todo # {}
  /\ Intact(src, client[c].lists, NextOf(client[c].todo))
  /\ Becomes(c, [client[c] EXCEPT !.todo = @ \ {NextOf(@)}])
  /\ UNCHANGED <<src, importVars>>

(* No undeclared model, and the signature if there is one. *)
CheckRest(c) ==
  /\ client[c].pc = "files" /\ client[c].todo = {}
  /\ NoUndeclaredModel(src, client[c].lists) /\ SignatureHolds(src)
  /\ Becomes(c, [client[c] EXCEPT !.pc = "verified", !.lists = Empty])
  /\ UNCHANGED <<src, importVars>>

CheckFails(c) ==
  \/ client[c].pc = "manifest" /\ ~(Has(src, Manifest) /\ Has(src, Digest))
  \/ client[c].pc = "digest" /\ ~HasDigest(src)
  \/ /\ client[c].pc = "files"
     /\ \/ /\ client[c].todo # {}
           /\ ~Intact(src, client[c].lists, NextOf(client[c].todo))
        \/ /\ client[c].todo = {}
           /\ ~(NoUndeclaredModel(src, client[c].lists) /\ SignatureHolds(src))
  \/ client[c].pc = "verified" /\ "import" \in Calls[c] /\ dstExists
  \/ client[c].pc = "free" /\ dstExists
  \/ /\ client[c].pc = "copying" /\ client[c].todo # {}
     /\ ~Has(src, NextOf(client[c].todo))

(* What an import has copied that raises, is killed or was disturbed is not *)
(* looked at any more: the directory stays and is in the way.               *)
Abandoned(c) == dst' = IF client[c].pc = "copying" THEN Empty ELSE dst

Raise(c) ==
  /\ CheckFails(c)
  /\ Becomes(c, NoClient)
  /\ Abandoned(c)
  /\ UNCHANGED <<src, dstExists, imported>>

(* `bundle verify`, `bundle inspect` and the end of `bundle create`. *)
Report(c) ==
  /\ client[c].pc = "verified" /\ "verify" \in Calls[c]
  /\ Becomes(c, NoClient)
  /\ UNCHANGED <<src, importVars>>

(* sign_bundle and integrity_mac_blake2b read the digest again. *)
ReadPayload(c) ==
  /\ client[c].pc = "verified" /\ "sign" \in Calls[c]
  /\ Becomes(c, [client[c] EXCEPT !.pc = "signing", !.payload = src[Digest]])
  /\ UNCHANGED <<src, importVars>>

WriteSignature(c) ==
  /\ client[c].pc = "signing"
  /\ src' = Replaced(src, Sig, client[c].payload)
  /\ client' = [Disturbing(client) EXCEPT ![c] = NoClient]
  /\ UNCHANGED <<packerVars, importVars, kills>>

(* Nothing ever reads a MAC: what it covers is left out. *)
WriteMac(c) ==
  /\ client[c].pc = "verified" /\ "mac" \in Calls[c]
  /\ src' = Replaced(src, Mac, Torn)
  /\ client' = [Disturbing(client) EXCEPT ![c] = NoClient]
  /\ UNCHANGED <<packerVars, importVars, kills>>

(* import_bundle looks for the target, and copytree creates it. *)
FindFree(c) ==
  /\ client[c].pc = "verified" /\ "import" \in Calls[c] /\ ~dstExists
  /\ Becomes(c, [client[c] EXCEPT !.pc = "free"])
  /\ UNCHANGED <<src, importVars>>

(* Deviation: copytree goes into an existing target (dirs_exist_ok). *)
MakeTargetOrMerge(c) ==
  /\ client[c].pc = "free"
  /\ dstExists' = TRUE
  /\ Becomes(c, [client[c] EXCEPT !.pc = "copying", !.todo = DOMAIN src])
  /\ UNCHANGED <<src, dst, imported>>

MakeTarget(c) ==
  /\ client[c].pc = "free" /\ ~dstExists
  /\ dstExists' = TRUE
  /\ Becomes(c, [client[c] EXCEPT !.pc = "copying", !.todo = DOMAIN src])
  /\ UNCHANGED <<src, dst, imported>>

(* The order does not show: a copy is only looked at when it is complete. *)
CopyFile(c) ==
  LET path == NextOf(client[c].todo) IN
  /\ client[c].pc = "copying" /\ client[c].todo # {} /\ Has(src, path)
  /\ dst' = Put(dst, path, src[path])
  /\ Becomes(c, [client[c] EXCEPT !.todo = @ \ {path}])
  /\ UNCHANGED <<src, dstExists, imported>>

EndImport(c) ==
  /\ client[c].pc = "copying" /\ client[c].todo = {}
  /\ imported' = ~client[c].disturbed
  /\ dst' = IF client[c].disturbed THEN Empty ELSE dst
  /\ Becomes(c, NoClient)
  /\ UNCHANGED <<src, dstExists>>

(* Killed, or failed: no key, no space.  What is written stays. *)
ClientKilled(c) ==
  /\ client[c].pc # "idle"
  /\ kills < MaxKills /\ kills' = kills + 1
  /\ \/ src' = src /\ client' = [client EXCEPT ![c] = NoClient]
     \/ /\ client[c].pc = "signing"
        /\ src' = Put(src, Temp(Sig), Torn)
        /\ client' = [Disturbing(client) EXCEPT ![c] = NoClient]
  /\ Abandoned(c)
  /\ UNCHANGED <<packerVars, dstExists, imported>>
------------------------------------------------------------------------------
Pack ==
  \/ \E chosen \in Selections, forge \in BOOLEAN : StartPacking(chosen, forge)
  \/ \E p \in Profiles : StartModel(p)
  \/ EndModel \/ StartAttestation \/ EndAttestation
  \/ DescribeProfile \/ WriteManifest \/ WriteDigest
  \/ EndPacking \/ PackerKilled

Serve(c) ==
  \/ Call(c)
  \/ ReadManifest(c) \/ CheckDigest(c)
  \/ CheckFile(c) \/ CopyFile(c)
  \/ CheckRest(c) \/ Raise(c) \/ Report(c)
  \/ ReadPayload(c) \/ WriteSignature(c) \/ WriteMac(c)
  \/ FindFree(c) \/ MakeTarget(c) \/ EndImport(c)
  \/ ClientKilled(c)

BundleNext == Pack \/ \E c \in Clients : Serve(c)

BundleSpec == BundleInit /\ [][BundleNext]_bundleVars
------------------------------------------------------------------------------
(* A packaging that ends has made a bundle that verifies, over whatever     *)
(* killed predecessors left, unless it was given a directory with another   *)
(* profile's model or with a signature over an earlier manifest: neither is *)
(* ever taken away.                                                         *)
PackedBundleVerifies ==
  packer.pc = "packed" =>
    \/ Verifies(src)
    \/ \E p \in Profiles \ packer.chosen : Has(src, Model(p))
    \/ ~SignatureHolds(src)

(* An import that reports success delivers, at once and for good, a copy    *)
(* that verifies although import_bundle verifies its source only: as long   *)
(* as nobody wrote to the source meanwhile (see EndImport), whatever other  *)
(* imports do, fail or leave behind.                                        *)
Delivery == INSTANCE BundleDelivery WITH
  Verified  <- Verifies,
  delivered <- IF imported THEN {dst} ELSE {}

ImportIsDelivery == Delivery!DeliverySpec

(* Once packaging is over, the runtime loads what verify_bundle accepts,     *)
(* although it looks for undeclared files of every kind: over the leftovers  *)
(* of other packagings and of killed ones, except for a signature or a MAC,  *)
(* a temporary file, and the attestations that `bundle create` leaves        *)
(* undeclared in a directory that a forge run packaged before.               *)
VerifiedBundleLoads ==
  packer.pc = "idle" /\ Verifies(src) =>
    \/ NodeLoads(src, FALSE)
    \/ Has(src, Sig) \/ Has(src, Mac)
    \/ \E path \in DOMAIN src : path[1] = "temp"
    \/ ~src[Manifest].forge /\ \E p \in Profiles : Has(src, Attestation(p))
==============================================================================
