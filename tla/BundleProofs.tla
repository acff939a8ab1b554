----------------------------- MODULE BundleProofs -----------------------------
(***************************************************************************)
(* Proofs about ProfileBundle.  ReaderInv says what each client has read   *)
(* or copied so far as long as nobody has disturbed it; every action that  *)
(* writes to the source disturbs whoever is at work.  So what an           *)
(* undisturbed import has read one file after the other holds of the       *)
(* directory as a whole, and `bundle import` implements BundleDelivery.    *)
(* PackerInv says that the inventory a packager carries describes the      *)
(* files as they are, so that what it packs verifies, and PairsInv that no *)
(* profile or attestation is without its model, so that what verifies the  *)
(* runtime loads.                                                          *)
(***************************************************************************)
EXTENDS ProfileBundle, TLAPS

Fields == {"pc", "lists", "todo", "payload", "disturbed"}

ClientShape ==
  /\ DOMAIN client = Clients
  /\ \A c \in Clients : DOMAIN client[c] = Fields
                        /\ client[c].disturbed \in BOOLEAN

(* What client k has read of directory dir and copied to directory copy.    *)
ReadSoFar(k, dir) ==
  /\ k.pc \in {"digest", "files"} =>
       Has(dir, Manifest) /\ Has(dir, Digest) /\ k.lists = Inventory(dir)
  /\ k.pc = "files" =>
       /\ HasDigest(dir)
       /\ \A path \in DOMAIN k.lists \ k.todo : Intact(dir, k.lists, path)
  /\ k.pc \in {"verified", "signing", "free", "copying"} => Verifies(dir)

CopiedSoFar(k, dir, copy) ==
  k.pc = "copying" =>
    /\ k.todo \subseteq DOMAIN dir
    /\ DOMAIN copy = DOMAIN dir \ k.todo
    /\ \A path \in DOMAIN copy : copy[path] = dir[path]

ClientOK(k, dir, copy) ==
  ~k.disturbed => ReadSoFar(k, dir) /\ CopiedSoFar(k, dir, copy)

OneImport ==
  /\ imported => dstExists /\ Verifies(dst)
  /\ ~dstExists => DOMAIN dst = {}
  /\ \A c \in Clients : client[c].pc = "copying" => dstExists /\ ~imported
  /\ \A b, c \in Clients :
       client[b].pc = "copying" /\ client[c].pc = "copying" => b = c

ReaderInv ==
  /\ ClientShape
  /\ OneImport
  /\ \A c \in Clients : ClientOK(client[c], src, dst)

------------------------------------------------------------------------------
(* A client that becomes state leaves the others alone.                     *)
LEMMA Becoming ==
  ASSUME ClientShape, NEW c \in Clients, NEW state,
         DOMAIN state = Fields, state.disturbed \in BOOLEAN,
         client' = [client EXCEPT ![c] = state]
  PROVE  /\ ClientShape'
         /\ client'[c] = state
         /\ \A b \in Clients \ {c} : client'[b] = client[b]
BY DEF ClientShape

(* A step that only one client takes, over a source that stays as it is,    *)
(* keeps the invariant if it keeps the client's part of it.                 *)
LEMMA OneClientSteps ==
  ASSUME ReaderInv, NEW c \in Clients, NEW state,
         DOMAIN state = Fields, state.disturbed \in BOOLEAN,
         client' = [client EXCEPT ![c] = state],
         UNCHANGED <<src, importVars>>,
         state.pc = "copying" => client[c].pc = "copying",
         ClientOK(state, src, dst)
  PROVE  ReaderInv'
<1>1. /\ ClientShape'
      /\ client'[c] = state
      /\ \A b \in Clients \ {c} : client'[b] = client[b]
  BY Becoming DEF ReaderInv
<1>2. src' = src /\ dst' = dst /\ dstExists' = dstExists /\ imported' = imported
  BY DEF importVars
<1>3. \A b \in Clients : ClientOK(client'[b], src', dst')
  BY <1>1, <1>2 DEF ReaderInv
<1>4. OneImport'
  BY <1>1, <1>2 DEF ReaderInv, OneImport
<1> QED
  BY <1>1, <1>3, <1>4 DEF ReaderInv

(* A step that writes to the source leaves nobody at work undisturbed; who   *)
(* makes it may become idle.                                                *)
LEMMA DisturbingSteps ==
  ASSUME ReaderInv, UNCHANGED importVars,
         \/ client' = Disturbing(client)
         \/ \E c \in Clients : client' = [Disturbing(client) EXCEPT ![c] = NoClient]
  PROVE  ReaderInv'
<1>1. dst' = dst /\ dstExists' = dstExists /\ imported' = imported
  BY DEF importVars
<1>2. ASSUME NEW b \in Clients
      PROVE  /\ DOMAIN Disturbing(client)[b] = Fields
             /\ Disturbing(client)[b].pc = client[b].pc
             /\ Disturbing(client)[b].disturbed = (client[b].pc # "idle")
  BY DEF Disturbing, ReaderInv, ClientShape, Fields
<1>3. /\ DOMAIN NoClient = Fields
      /\ NoClient.pc = "idle" /\ NoClient.disturbed = FALSE
  BY DEF NoClient, Fields
<1>4. DOMAIN Disturbing(client) = Clients
  BY DEF Disturbing
<1>5. /\ DOMAIN client' = Clients
      /\ \A b \in Clients : client'[b] \in {Disturbing(client)[b], NoClient}
  BY <1>4
<1>6. ASSUME NEW b \in Clients
      PROVE  /\ DOMAIN client'[b] = Fields
             /\ client'[b].disturbed \in BOOLEAN
             /\ client'[b].pc \in {"idle", client[b].pc}
             /\ ~client'[b].disturbed => client'[b].pc = "idle"
  <2>1. CASE client'[b] = Disturbing(client)[b]
    BY <2>1, <1>2
  <2>2. CASE client'[b] = NoClient
    BY <2>2, <1>3
  <2> QED BY <1>5, <2>1, <2>2
<1>7. ClientShape'
  BY <1>5, <1>6 DEF ClientShape
<1>8. \A b \in Clients : ClientOK(client'[b], src', dst')
  BY <1>6 DEF ClientOK, ReadSoFar, CopiedSoFar
<1>9. OneImport'
  BY <1>1, <1>6 DEF ReaderInv, OneImport
<1> QED
  BY <1>7, <1>8, <1>9 DEF ReaderInv

(* A client that gives up leaves an import nobody looks at any more.         *)
LEMMA GivingUp ==
  ASSUME ReaderInv, NEW c \in Clients, Abandoned(c),
         client' = [client EXCEPT ![c] = NoClient],
         UNCHANGED <<src, dstExists, imported>>
  PROVE  ReaderInv'
<1>1. /\ DOMAIN NoClient = Fields
      /\ NoClient.pc = "idle" /\ NoClient.disturbed = FALSE
  BY DEF NoClient, Fields
<1>2. /\ ClientShape'
      /\ client'[c] = NoClient
      /\ \A b \in Clients \ {c} : client'[b] = client[b]
  BY <1>1, Becoming DEF ReaderInv
<1>3. \A b \in Clients : ClientOK(client'[b], src', dst')
  <2>1. ClientOK(client'[c], src', dst')
    BY <1>1, <1>2 DEF ClientOK, ReadSoFar, CopiedSoFar
  <2>2. ASSUME NEW b \in Clients \ {c} PROVE ClientOK(client'[b], src', dst')
    <3>1. CASE client[c].pc = "copying"
      BY <3>1, <1>2, <2>2 DEF ReaderInv, OneImport, ClientOK, CopiedSoFar
    <3>2. CASE client[c].pc # "copying"
      BY <3>2, <1>2, <2>2 DEF Abandoned, ReaderInv
    <3> QED BY <3>1, <3>2
  <2> QED BY <2>1, <2>2
<1>4. OneImport'
  <2>1. CASE client[c].pc = "copying"
    <3>1. dst' = Empty /\ ~imported /\ dstExists
      BY <2>1 DEF Abandoned, ReaderInv, OneImport
    <3> QED BY <3>1, <1>1, <1>2 DEF ReaderInv, OneImport
  <2>2. CASE client[c].pc # "copying"
    <3>1. dst' = dst
      BY <2>2 DEF Abandoned
    <3> QED BY <3>1, <1>1, <1>2 DEF ReaderInv, OneImport
  <2> QED BY <2>1, <2>2
<1> QED
  BY <1>2, <1>3, <1>4 DEF ReaderInv
------------------------------------------------------------------------------
(***************************************************************************)
(* The reads of verify_bundle and its callers.                             *)
(***************************************************************************)
LEMMA CallKeeps ==
  ASSUME ReaderInv, NEW c \in Clients, Call(c)
  PROVE  ReaderInv'
<1> DEFINE k == [NoClient EXCEPT !.pc = "manifest"]
<1>1. DOMAIN k = Fields /\ k.pc = "manifest" /\ k.disturbed = FALSE
  BY DEF NoClient, Fields
<1>2. ClientOK(k, src, dst)
  BY <1>1 DEF ClientOK, ReadSoFar, CopiedSoFar
<1>3. client' = [client EXCEPT ![c] = k] /\ UNCHANGED <<src, importVars>>
  BY DEF Call, Becomes
<1> HIDE DEF k
<1> QED
  BY <1>1, <1>2, <1>3, OneClientSteps

LEMMA ReadManifestKeeps ==
  ASSUME ReaderInv, NEW c \in Clients, ReadManifest(c)
  PROVE  ReaderInv'
<1> DEFINE k == [client[c] EXCEPT !.pc = "digest", !.lists = Inventory(src)]
<1>1. /\ DOMAIN k = Fields /\ k.pc = "digest" /\ k.lists = Inventory(src)
      /\ k.disturbed = client[c].disturbed /\ k.disturbed \in BOOLEAN
  BY DEF ReaderInv, ClientShape, Fields
<1>2. ClientOK(k, src, dst)
  BY <1>1 DEF ReadManifest, ClientOK, ReadSoFar, CopiedSoFar
<1>3. client' = [client EXCEPT ![c] = k] /\ UNCHANGED <<src, importVars>>
  BY DEF ReadManifest, Becomes
<1> HIDE DEF k
<1> QED
  BY <1>1, <1>2, <1>3, OneClientSteps

LEMMA CheckDigestKeeps ==
  ASSUME ReaderInv, NEW c \in Clients, CheckDigest(c)
  PROVE  ReaderInv'
<1> DEFINE k == [client[c] EXCEPT !.pc = "files", !.todo = DOMAIN client[c].lists]
<1>1. /\ DOMAIN k = Fields /\ k.pc = "files"
      /\ k.lists = client[c].lists /\ k.todo = DOMAIN client[c].lists
      /\ k.disturbed = client[c].disturbed /\ k.disturbed \in BOOLEAN
  BY DEF ReaderInv, ClientShape, Fields
<1>2. ClientOK(client[c], src, dst) /\ client[c].pc = "digest" /\ HasDigest(src)
  BY DEF CheckDigest, ReaderInv
<1>3. ClientOK(k, src, dst)
  BY <1>1, <1>2 DEF ClientOK, ReadSoFar, CopiedSoFar
<1>4. client' = [client EXCEPT ![c] = k] /\ UNCHANGED <<src, importVars>>
  BY DEF CheckDigest, Becomes
<1> HIDE DEF k
<1> QED
  BY <1>1, <1>3, <1>4, OneClientSteps

LEMMA CheckFileKeeps ==
  ASSUME ReaderInv, NEW c \in Clients, CheckFile(c)
  PROVE  ReaderInv'
<1> DEFINE read == NextOf(client[c].todo)
           k == [client[c] EXCEPT !.todo = @ \ {NextOf(@)}]
<1>1. /\ DOMAIN k = Fields /\ k.pc = client[c].pc
      /\ k.lists = client[c].lists /\ k.todo = client[c].todo \ {read}
      /\ k.disturbed = client[c].disturbed /\ k.disturbed \in BOOLEAN
  BY DEF ReaderInv, ClientShape, Fields
<1>2. /\ ClientOK(client[c], src, dst) /\ client[c].pc = "files"
      /\ Intact(src, client[c].lists, read)
  BY DEF CheckFile, ReaderInv
<1>3. client' = [client EXCEPT ![c] = k] /\ UNCHANGED <<src, importVars>>
  BY DEF CheckFile, Becomes
<1> HIDE DEF k, read
<1>4. ClientOK(k, src, dst)
  BY <1>1, <1>2 DEF ClientOK, ReadSoFar, CopiedSoFar
<1> QED
  BY <1>1, <1>2, <1>3, <1>4, OneClientSteps

(* All reads taken together: the directory verifies. *)
LEMMA CheckRestKeeps ==
  ASSUME ReaderInv, NEW c \in Clients, CheckRest(c)
  PROVE  ReaderInv'
<1> DEFINE k == [client[c] EXCEPT !.pc = "verified", !.lists = Empty]
<1>1. /\ DOMAIN k = Fields /\ k.pc = "verified"
      /\ k.disturbed = client[c].disturbed /\ k.disturbed \in BOOLEAN
  BY DEF ReaderInv, ClientShape, Fields
<1>2. /\ ClientOK(client[c], src, dst) /\ client[c].pc = "files"
      /\ client[c].todo = {}
      /\ NoUndeclaredModel(src, client[c].lists) /\ SignatureHolds(src)
  BY DEF CheckRest, ReaderInv
<1>3. ~client[c].disturbed => Verifies(src)
  BY <1>2 DEF ClientOK, ReadSoFar, Verifies
<1>4. ClientOK(k, src, dst)
  BY <1>1, <1>3 DEF ClientOK, ReadSoFar, CopiedSoFar
<1>5. client' = [client EXCEPT ![c] = k] /\ UNCHANGED <<src, importVars>>
  BY DEF CheckRest, Becomes
<1> HIDE DEF k
<1> QED
  BY <1>1, <1>4, <1>5, OneClientSteps

LEMMA ReportKeeps ==
  ASSUME ReaderInv, NEW c \in Clients, Report(c)
  PROVE  ReaderInv'
<1>1. /\ DOMAIN NoClient = Fields
      /\ NoClient.pc = "idle" /\ NoClient.disturbed = FALSE
  BY DEF NoClient, Fields
<1>2. ClientOK(NoClient, src, dst)
  BY <1>1 DEF ClientOK, ReadSoFar, CopiedSoFar
<1>3. client' = [client EXCEPT ![c] = NoClient] /\ UNCHANGED <<src, importVars>>
  BY DEF Report, Becomes
<1> QED
  BY <1>1, <1>2, <1>3, OneClientSteps

(* A verified client that goes on to sign, or to look for its target.       *)
LEMMA VerifiedGoesOn ==
  ASSUME ReaderInv, NEW c \in Clients, ReadPayload(c) \/ FindFree(c)
  PROVE  ReaderInv'
<1>1. PICK k : /\ client' = [client EXCEPT ![c] = k]
               /\ DOMAIN k = Fields /\ k.pc \in {"signing", "free"}
               /\ k.disturbed = client[c].disturbed /\ k.disturbed \in BOOLEAN
  <2>1. CASE ReadPayload(c)
    <3> DEFINE k == [client[c] EXCEPT !.pc = "signing", !.payload = src[Digest]]
    <3>1. /\ DOMAIN k = Fields /\ k.pc = "signing"
          /\ k.disturbed = client[c].disturbed /\ k.disturbed \in BOOLEAN
      BY DEF ReaderInv, ClientShape, Fields
    <3>2. client' = [client EXCEPT ![c] = k]
      BY <2>1 DEF ReadPayload, Becomes
    <3> QED BY <3>1, <3>2
  <2>2. CASE FindFree(c)
    <3> DEFINE k == [client[c] EXCEPT !.pc = "free"]
    <3>1. /\ DOMAIN k = Fields /\ k.pc = "free"
          /\ k.disturbed = client[c].disturbed /\ k.disturbed \in BOOLEAN
      BY DEF ReaderInv, ClientShape, Fields
    <3>2. client' = [client EXCEPT ![c] = k]
      BY <2>2 DEF FindFree, Becomes
    <3> QED BY <3>1, <3>2
  <2> QED BY <2>1, <2>2
<1>2. ClientOK(client[c], src, dst) /\ client[c].pc = "verified"
  BY DEF ReadPayload, FindFree, ReaderInv
<1>3. ClientOK(k, src, dst)
  BY <1>1, <1>2 DEF ClientOK, ReadSoFar, CopiedSoFar
<1>4. UNCHANGED <<src, importVars>>
  BY DEF ReadPayload, FindFree
<1> QED
  BY <1>1, <1>3, <1>4, OneClientSteps
------------------------------------------------------------------------------
(***************************************************************************)
(* The import.                                                             *)
(***************************************************************************)
LEMMA MakeTargetKeeps ==
  ASSUME ReaderInv, NEW c \in Clients, MakeTarget(c)
  PROVE  ReaderInv'
<1> DEFINE k == [client[c] EXCEPT !.pc = "copying", !.todo = DOMAIN src]
<1>1. /\ DOMAIN k = Fields /\ k.pc = "copying" /\ k.todo = DOMAIN src
      /\ k.disturbed = client[c].disturbed /\ k.disturbed \in BOOLEAN
  BY DEF ReaderInv, ClientShape, Fields
<1>2. /\ client[c].pc = "free" /\ ~dstExists /\ dstExists'
      /\ client' = [client EXCEPT ![c] = k]
      /\ src' = src /\ dst' = dst /\ imported' = imported
  BY DEF MakeTarget, Becomes
<1> HIDE DEF k
<1>3. /\ ClientShape'
      /\ client'[c] = k
      /\ \A b \in Clients \ {c} : client'[b] = client[b]
  BY <1>1, <1>2, Becoming DEF ReaderInv
<1>4. DOMAIN dst = {} /\ ~imported /\ \A b \in Clients : client[b].pc # "copying"
  BY <1>2 DEF ReaderInv, OneImport
<1>5. ClientOK(k, src, dst)
  <2>1. ClientOK(client[c], src, dst)
    BY DEF ReaderInv
  <2> QED BY <2>1, <1>1, <1>2, <1>4 DEF ClientOK, ReadSoFar, CopiedSoFar
<1>6. \A b \in Clients : ClientOK(client'[b], src', dst')
  BY <1>2, <1>3, <1>5 DEF ReaderInv
<1>7. OneImport'
  BY <1>2, <1>3, <1>4 DEF OneImport
<1> QED
  BY <1>3, <1>6, <1>7 DEF ReaderInv

LEMMA CopyFileKeeps ==
  ASSUME ReaderInv, NEW c \in Clients, CopyFile(c)
  PROVE  ReaderInv'
<1> DEFINE path == NextOf(client[c].todo)
           k == [client[c] EXCEPT !.todo = @ \ {path}]
<1>1. /\ DOMAIN k = Fields /\ k.pc = client[c].pc
      /\ k.todo = client[c].todo \ {path}
      /\ k.disturbed = client[c].disturbed /\ k.disturbed \in BOOLEAN
  BY DEF ReaderInv, ClientShape, Fields
<1>2. /\ client[c].pc = "copying" /\ path \in DOMAIN src
      /\ client' = [client EXCEPT ![c] = k]
      /\ dst' = Put(dst, path, src[path])
      /\ src' = src /\ dstExists' = dstExists /\ imported' = imported
  BY DEF CopyFile, Becomes, Has
<1> HIDE DEF k, path
<1>3. /\ DOMAIN dst' = DOMAIN dst \cup {path}
      /\ \A q \in DOMAIN dst' : dst'[q] = IF q = path THEN src[path] ELSE dst[q]
  BY <1>2 DEF Put
<1>4. /\ ClientShape'
      /\ client'[c] = k
      /\ \A b \in Clients \ {c} : client'[b] = client[b]
  BY <1>1, <1>2, Becoming DEF ReaderInv
<1>5. /\ dstExists /\ ~imported
      /\ \A b \in Clients \ {c} : client[b].pc # "copying"
  BY <1>2 DEF ReaderInv, OneImport
<1>6. ClientOK(k, src, dst')
  <2>1. ClientOK(client[c], src, dst)
    BY DEF ReaderInv
  <2>2. SUFFICES ASSUME ~k.disturbed
                 PROVE  ReadSoFar(k, src) /\ CopiedSoFar(k, src, dst')
    BY DEF ClientOK
  <2>3. ReadSoFar(client[c], src) /\ CopiedSoFar(client[c], src, dst)
    BY <2>1, <2>2, <1>1 DEF ClientOK
  <2>4. ReadSoFar(k, src)
    BY <2>3, <1>1, <1>2 DEF ReadSoFar
  <2>5. CopiedSoFar(k, src, dst')
    BY <2>3, <1>1, <1>2, <1>3 DEF CopiedSoFar
  <2> QED BY <2>4, <2>5
<1>7. \A b \in Clients : ClientOK(client'[b], src', dst')
  BY <1>2, <1>4, <1>5, <1>6 DEF ReaderInv, ClientOK, CopiedSoFar
<1>8. OneImport'
  BY <1>1, <1>2, <1>4, <1>5 DEF ReaderInv, OneImport
<1> QED
  BY <1>4, <1>7, <1>8 DEF ReaderInv

(* Two directories that hold the same files verify alike.                   *)
LEMMA CopyVerifies ==
  ASSUME NEW dir, NEW copy, Verifies(dir), DOMAIN copy = DOMAIN dir,
         \A path \in DOMAIN copy : copy[path] = dir[path]
  PROVE  Verifies(copy)
<1>1. HasDigest(copy) /\ Inventory(copy) = Inventory(dir)
  BY DEF Verifies, HasDigest, Has, Inventory
<1>2. \A path \in DOMAIN Inventory(copy) : Intact(copy, Inventory(copy), path)
  BY <1>1 DEF Verifies, Intact, Has
<1>3. NoUndeclaredModel(copy, Inventory(copy))
  BY <1>1 DEF Verifies, NoUndeclaredModel
<1>4. SignatureHolds(copy)
  BY DEF Verifies, SignatureHolds, Has, HasDigest
<1> QED BY <1>1, <1>2, <1>3, <1>4 DEF Verifies

(* A copy that nobody disturbed is complete, and verifies.                  *)
LEMMA CompleteCopyVerifies ==
  ASSUME ReaderInv, NEW c \in Clients, EndImport(c), ~client[c].disturbed
  PROVE  Verifies(dst)
<1>1. ReadSoFar(client[c], src) /\ CopiedSoFar(client[c], src, dst)
  BY DEF ReaderInv, ClientOK
<1>2. client[c].pc = "copying" /\ client[c].todo = {}
  BY DEF EndImport
<1>3. /\ Verifies(src) /\ DOMAIN dst = DOMAIN src
      /\ \A path \in DOMAIN dst : dst[path] = src[path]
  BY <1>1, <1>2 DEF ReadSoFar, CopiedSoFar
<1> QED BY <1>3, CopyVerifies

LEMMA EndImportKeeps ==
  ASSUME ReaderInv, NEW c \in Clients, EndImport(c)
  PROVE  ReaderInv'
<1>1. /\ DOMAIN NoClient = Fields
      /\ NoClient.pc = "idle" /\ NoClient.disturbed = FALSE
  BY DEF NoClient, Fields
<1>2. /\ client[c].pc = "copying" /\ client' = [client EXCEPT ![c] = NoClient]
      /\ imported' = ~client[c].disturbed
      /\ dst' = (IF client[c].disturbed THEN Empty ELSE dst)
      /\ src' = src /\ dstExists' = dstExists
  BY DEF EndImport, Becomes
<1>3. /\ ClientShape'
      /\ client'[c] = NoClient
      /\ \A b \in Clients \ {c} : client'[b] = client[b]
  BY <1>1, <1>2, Becoming DEF ReaderInv
<1>4. dstExists /\ \A b \in Clients : client'[b].pc # "copying"
  BY <1>1, <1>2, <1>3 DEF ReaderInv, OneImport
<1>5. \A b \in Clients : ClientOK(client'[b], src', dst')
  BY <1>1, <1>2, <1>3, <1>4 DEF ReaderInv, ClientOK, ReadSoFar, CopiedSoFar
<1>6. imported' => Verifies(dst')
  BY <1>2, CompleteCopyVerifies
<1>7. OneImport'
  BY <1>2, <1>4, <1>6 DEF OneImport
<1> QED
  BY <1>3, <1>5, <1>7 DEF ReaderInv

LEMMA ClientKilledKeeps ==
  ASSUME ReaderInv, NEW c \in Clients, ClientKilled(c)
  PROVE  ReaderInv'
<1>1. CASE src' = src /\ client' = [client EXCEPT ![c] = NoClient]
  BY <1>1, GivingUp DEF ClientKilled
<1>2. CASE /\ client[c].pc = "signing"
           /\ client' = [Disturbing(client) EXCEPT ![c] = NoClient]
  <2>1. UNCHANGED importVars
    BY <1>2 DEF ClientKilled, Abandoned, importVars
  <2> QED BY <1>2, <2>1, DisturbingSteps
<1> QED BY <1>1, <1>2 DEF ClientKilled
------------------------------------------------------------------------------
LEMMA ReadersStart ==
  ASSUME BundleInit
  PROVE  ReaderInv
<1>1. /\ DOMAIN NoClient = Fields
      /\ NoClient.pc = "idle" /\ NoClient.disturbed = FALSE
  BY DEF NoClient, Fields
<1>2. DOMAIN client = Clients /\ \A c \in Clients : client[c] = NoClient
  BY DEF BundleInit
<1>3. ClientShape
  BY <1>1, <1>2 DEF ClientShape
<1>4. \A c \in Clients : ClientOK(client[c], src, dst)
  BY <1>1, <1>2 DEF ClientOK, ReadSoFar, CopiedSoFar
<1>5. OneImport
  <2>1. dst = Empty /\ dstExists = FALSE /\ imported = FALSE
    BY DEF BundleInit
  <2> QED BY <1>1, <1>2, <2>1 DEF OneImport, Empty
<1> QED BY <1>3, <1>4, <1>5 DEF ReaderInv

(* What packaging does either is no business of the clients or disturbs them.*)
LEMMA PackKeepsReaders ==
  ASSUME ReaderInv, Pack
  PROVE  ReaderInv'
<1>1. \/ UNCHANGED <<src, client, importVars>>
      \/ client' = Disturbing(client) /\ UNCHANGED importVars
  BY DEF Pack, StartPacking, StartModel, EndModel, StartAttestation,
         EndAttestation, DescribeProfile, WriteManifest,
         WriteDigest, EndPacking, PackerKilled
<1>2. CASE UNCHANGED <<src, client, importVars>>
  BY <1>2 DEF importVars, ReaderInv, ClientShape, OneImport
<1>3. CASE client' = Disturbing(client) /\ UNCHANGED importVars
  BY <1>3, DisturbingSteps
<1> QED BY <1>1, <1>2, <1>3

LEMMA ServeKeepsReaders ==
  ASSUME ReaderInv, NEW c \in Clients, Serve(c)
  PROVE  ReaderInv'
<1>1. CASE Call(c)          BY <1>1, CallKeeps
<1>2. CASE ReadManifest(c)  BY <1>2, ReadManifestKeeps
<1>3. CASE CheckDigest(c)   BY <1>3, CheckDigestKeeps
<1>4. CASE CheckFile(c)     BY <1>4, CheckFileKeeps
<1>5. CASE CopyFile(c)      BY <1>5, CopyFileKeeps
<1>6. CASE CheckRest(c)     BY <1>6, CheckRestKeeps
<1>7. CASE Raise(c)         BY <1>7, GivingUp DEF Raise, Becomes
<1>8. CASE Report(c)        BY <1>8, ReportKeeps
<1>9. CASE ReadPayload(c) \/ FindFree(c)
  BY <1>9, VerifiedGoesOn
<1>10. CASE WriteSignature(c) \/ WriteMac(c)
  BY <1>10, DisturbingSteps DEF WriteSignature, WriteMac
<1>11. CASE MakeTarget(c)   BY <1>11, MakeTargetKeeps
<1>12. CASE EndImport(c)    BY <1>12, EndImportKeeps
<1>13. CASE ClientKilled(c) BY <1>13, ClientKilledKeeps
<1> QED
  BY <1>1, <1>2, <1>3, <1>4, <1>5, <1>6, <1>7, <1>8, <1>9, <1>10, <1>11, <1>12,
     <1>13 DEF Serve

LEMMA ReadersKeep ==
  ASSUME ReaderInv, [BundleNext]_bundleVars
  PROVE  ReaderInv'
<1>1. CASE BundleNext
  BY <1>1, PackKeepsReaders, ServeKeepsReaders DEF BundleNext
<1>2. CASE UNCHANGED bundleVars
  BY <1>2 DEF bundleVars, ReaderInv, ClientShape, OneImport
<1> QED BY <1>1, <1>2

THEOREM ReaderInvariance == BundleSpec => []ReaderInv
<1>1. BundleInit => ReaderInv
  BY ReadersStart
<1>2. ReaderInv /\ [BundleNext]_bundleVars => ReaderInv'
  BY ReadersKeep
<1> QED BY <1>1, <1>2, PTL DEF BundleSpec

(* What the abstract specification sees of a step: the target appears with  *)
(* the end of an undisturbed import and is not touched otherwise.           *)
LEMMA StepDelivers ==
  ASSUME ReaderInv, [BundleNext]_bundleVars
  PROVE  Delivery!Deliver \/ UNCHANGED (IF imported THEN {dst} ELSE {})
<1>1. \/ \E c \in Clients : EndImport(c)
      \/ imported' = imported /\ (imported => dst' = dst)
  <2>1. CASE \E c \in Clients : CopyFile(c) \/ Raise(c) \/ ClientKilled(c)
    BY <2>1 DEF CopyFile, Raise, ClientKilled, Abandoned, ReaderInv, OneImport
  <2>2. CASE Pack
    BY <2>2 DEF Pack, StartPacking, StartModel, EndModel, StartAttestation,
         EndAttestation, DescribeProfile,
                WriteManifest, WriteDigest, EndPacking, PackerKilled, importVars
  <2>3. CASE \E c \in Clients :
               \/ Call(c) \/ ReadManifest(c) \/ CheckDigest(c) \/ CheckFile(c)
               \/ CheckRest(c) \/ Report(c) \/ ReadPayload(c)
               \/ WriteSignature(c) \/ WriteMac(c) \/ FindFree(c) \/ MakeTarget(c)
    BY <2>3 DEF Call, ReadManifest, CheckDigest, CheckFile, CheckRest, Report,
                ReadPayload, WriteSignature, WriteMac, FindFree, MakeTarget,
                importVars
  <2>4. CASE UNCHANGED bundleVars
    BY <2>4 DEF bundleVars
  <2> QED BY <2>1, <2>2, <2>3, <2>4 DEF BundleNext, Serve
<1>2. ASSUME NEW c \in Clients, EndImport(c)
      PROVE  Delivery!Deliver \/ UNCHANGED (IF imported THEN {dst} ELSE {})
  <2>1. ~imported /\ imported' = ~client[c].disturbed
    BY <1>2 DEF EndImport, ReaderInv, OneImport
  <2>2. CASE client[c].disturbed
    BY <2>1, <2>2
  <2>3. CASE ~client[c].disturbed
    <3>1. imported' /\ dst' = dst /\ Verifies(dst)
      BY <1>2, <2>1, <2>3, CompleteCopyVerifies DEF EndImport
    <3> QED BY <2>1, <3>1 DEF Delivery!Deliver
  <2> QED BY <2>2, <2>3, <2>1 DEF ReaderInv, ClientShape
<1>3. CASE imported' = imported /\ (imported => dst' = dst)
  BY <1>3
<1> QED BY <1>1, <1>2, <1>3

(* `bundle import` implements what it promises: the target appears as a     *)
(* whole, verifies although only its source was verified, and stays.        *)
THEOREM ImportImplementsDelivery == BundleSpec => ImportIsDelivery
<1>1. BundleInit => Delivery!DeliveryInit
  BY DEF BundleInit, Delivery!DeliveryInit
<1>2. ReaderInv /\ [BundleNext]_bundleVars
        => [Delivery!Deliver]_(IF imported THEN {dst} ELSE {})
  BY StepDelivers
<1> QED
  BY <1>1, <1>2, ReaderInvariance, PTL
     DEF BundleSpec, ImportIsDelivery, Delivery!DeliverySpec
------------------------------------------------------------------------------
(***************************************************************************)
(* Packaging.  PackerInv says what the packager has written so far, over   *)
(* whatever the directory held before.                                     *)
(***************************************************************************)
PackerFields == {"pc", "forge", "chosen", "todo", "now", "lists"}

(* The profiles whose files are in the inventory. *)
Described == (packer.chosen \ packer.todo) \ {packer.now}

OnlyModels == \A path \in DOMAIN src :
                path[1] = "model" => \E p \in Profiles : path = Model(p)

(* The profiles whose attestations are. *)
Attested == IF packer.forge
            THEN Described \cup (IF packer.pc = "describing" THEN {packer.now} ELSE {})
            ELSE {}

ListsDescribed ==
  packer.pc # "idle" =>
    /\ DOMAIN packer.lists = {Model(p) : p \in Described}
                               \cup {Profile(p) : p \in Described}
                               \cup {Attestation(p) : p \in Attested}
    /\ \A path \in DOMAIN packer.lists : Intact(src, packer.lists, path)

Progress ==
  /\ packer.chosen \subseteq Profiles /\ packer.todo \subseteq packer.chosen
  /\ packer.pc \in AtProfile \cup {"idle", "packing", "sealing", "packed"}
  /\ packer.forge \in BOOLEAN
  /\ packer.pc \in AtProfile => packer.now \in packer.chosen \ packer.todo
  /\ packer.pc \notin AtProfile => packer.now = None
  /\ packer.pc \in {"attesting", "endorsing", "describing"} =>
       Has(src, Model(packer.now))
  /\ packer.pc \in {"attesting", "endorsing"} => packer.forge

Sealing ==
  /\ packer.pc \in {"sealing", "packed"} =>
       packer.todo = {} /\ Has(src, Manifest) /\ Inventory(src) = packer.lists
  /\ packer.pc = "packed" => HasDigest(src)

PackerInv ==
  /\ DOMAIN packer = PackerFields
  /\ OnlyModels
  /\ Progress
  /\ ListsDescribed
  /\ Sealing

(* A directory that is written to changes at the given paths only.          *)
Spares(dir, new, paths) ==
  \A q : q \notin paths =>
    /\ q \in DOMAIN new <=> q \in DOMAIN dir
    /\ q \in DOMAIN dir => new[q] = dir[q]

LEMMA PutSpares ==
  ASSUME NEW dir, NEW path, NEW content
  PROVE  /\ Spares(dir, Put(dir, path, content), {path})
         /\ path \in DOMAIN Put(dir, path, content)
         /\ Put(dir, path, content)[path] = content
BY DEF Put, Spares

LEMMA ReplacedSpares ==
  ASSUME NEW dir, NEW path, NEW content
  PROVE  /\ Spares(dir, Replaced(dir, path, content), {path, Temp(path)})
         /\ path \in DOMAIN Replaced(dir, path, content)
         /\ Replaced(dir, path, content)[path] = content
         /\ DOMAIN Replaced(dir, path, content) \subseteq DOMAIN dir \cup {path}
BY DEF Replaced, Without, Put, Spares

(* The paths of a bundle are different files. *)
LEMMA PathsDiffer ==
  /\ \A p, q : /\ Model(p) # Profile(q) /\ Model(p) # Temp(q)
               /\ Profile(p) # Temp(q)
               /\ Model(p) = Model(q) => p = q
               /\ Profile(p) = Profile(q) => p = q
               /\ Attestation(p) # Model(q) /\ Attestation(p) # Profile(q)
               /\ Attestation(p) # Temp(q)
               /\ Attestation(p) = Attestation(q) => p = q
  /\ \A p : /\ Model(p) \notin {Manifest, Digest, Sig, Mac}
            /\ Profile(p) \notin {Manifest, Digest, Sig, Mac}
            /\ Attestation(p) \notin {Manifest, Digest, Sig, Mac}
            /\ Temp(p) \notin {Manifest, Digest, Sig, Mac}
            /\ Model(p)[1] = "model" /\ Profile(p)[1] # "model"
            /\ Attestation(p)[1] # "model" /\ Temp(p)[1] # "model"
  /\ Manifest # Digest /\ Sig \notin {Manifest, Digest}
  /\ Mac \notin {Manifest, Digest}
  /\ Manifest[1] # "model" /\ Digest[1] # "model"
  /\ Sig[1] # "model" /\ Mac[1] # "model"
BY DEF Model, Profile, Attestation, Temp, Manifest, Digest, Sig, Mac

(* What clients write is nothing a manifest lists. *)
ClientPaths == {Sig, Mac, Temp(Sig), Temp(Mac)}

LEMMA OtherFilesKeepPacker ==
  ASSUME PackerInv, packer' = packer, Spares(src, src', ClientPaths)
  PROVE  PackerInv'
<1>1. /\ \A p : /\ Model(p) \notin ClientPaths /\ Profile(p) \notin ClientPaths
                /\ Attestation(p) \notin ClientPaths
      /\ Manifest \notin ClientPaths /\ Digest \notin ClientPaths
      /\ \A q \in ClientPaths : q[1] # "model"
  BY PathsDiffer DEF ClientPaths
<1>2. \A q : q \notin ClientPaths =>
        /\ q \in DOMAIN src' <=> q \in DOMAIN src
        /\ q \in DOMAIN src => src'[q] = src[q]
  BY DEF Spares
<1>3. OnlyModels'
  BY <1>1, <1>2 DEF PackerInv, OnlyModels
<1>4. Progress'
  BY <1>1, <1>2 DEF PackerInv, Progress, Has
<1>5. ListsDescribed'
  <2>1. Described' = Described /\ Attested' = Attested
    BY DEF Described, Attested
  <2> QED BY <1>1, <1>2, <2>1 DEF PackerInv, ListsDescribed, Intact, Has
<1>6. Sealing'
  BY <1>1, <1>2 DEF PackerInv, Sealing, Inventory, HasDigest, Has
<1> QED BY <1>3, <1>4, <1>5, <1>6 DEF PackerInv

LEMMA ServeKeepsPacker ==
  ASSUME PackerInv, NEW c \in Clients, Serve(c)
  PROVE  PackerInv'
<1>1. packer' = packer
  BY DEF Serve, Call, ReadManifest, CheckDigest, CheckFile, CopyFile, CheckRest,
         Raise, Report, ReadPayload, WriteSignature, WriteMac, FindFree,
         MakeTarget, EndImport, ClientKilled, Becomes, packerVars
<1>2. CASE WriteSignature(c)
  BY <1>1, <1>2, ReplacedSpares, OtherFilesKeepPacker
     DEF WriteSignature, Spares, ClientPaths
<1>3. CASE WriteMac(c)
  BY <1>1, <1>3, ReplacedSpares, OtherFilesKeepPacker
     DEF WriteMac, Spares, ClientPaths
<1>4. CASE ClientKilled(c) /\ src' = Put(src, Temp(Sig), Torn)
  BY <1>1, <1>4, PutSpares, OtherFilesKeepPacker DEF Spares, ClientPaths
<1>5. CASE src' = src
  BY <1>1, <1>5, OtherFilesKeepPacker DEF Spares
<1> QED
  BY <1>2, <1>3, <1>4, <1>5
     DEF Serve, Call, ReadManifest, CheckDigest, CheckFile, CopyFile, CheckRest,
         Raise, Report, ReadPayload, FindFree, MakeTarget, EndImport, ClientKilled

LEMMA PackerStarts ==
  ASSUME BundleInit
  PROVE  PackerInv
<1>1. packer = NoPacker /\ src = Empty
  BY DEF BundleInit
<1> QED
  BY <1>1 DEF PackerInv, PackerFields, OnlyModels, Progress, ListsDescribed,
              Sealing, NoPacker, Empty, AtProfile

LEMMA StartPackingKeeps ==
  ASSUME PackerInv, NEW chosen \in Selections, NEW forge \in BOOLEAN,
         StartPacking(chosen, forge)
  PROVE  PackerInv'
<1> DEFINE k == [NoPacker EXCEPT !.pc = "packing", !.forge = forge,
                                 !.chosen = chosen, !.todo = chosen]
<1>1. /\ DOMAIN k = PackerFields /\ k.pc = "packing" /\ k.chosen = chosen
      /\ k.forge = forge /\ k.todo = chosen /\ k.now = None /\ k.lists = Empty
  BY DEF NoPacker, PackerFields
<1>2. packer' = k /\ src' = src
  BY DEF StartPacking
<1> HIDE DEF k
<1>3. OnlyModels'
  BY <1>2 DEF PackerInv, OnlyModels
<1>4. Progress'
  BY <1>1, <1>2, BundleAssumption DEF Progress, AtProfile
<1>5. ListsDescribed'
  BY <1>1, <1>2 DEF ListsDescribed, Described, Attested, Empty
<1>6. Sealing'
  BY <1>1, <1>2 DEF Sealing
<1> QED BY <1>1, <1>2, <1>3, <1>4, <1>5, <1>6 DEF PackerInv

(* A killed or finished packager leaves models of profiles only. *)
LEMMA PackerGone ==
  ASSUME PackerInv, packer' = NoPacker,
         \/ src' = src
         \/ \E path : src' = Put(src, Temp(path), Torn)
  PROVE  PackerInv'
<1>1. \A q \in DOMAIN src' : q[1] = "model" => q \in DOMAIN src
  BY PutSpares, PathsDiffer DEF Spares
<1>2. OnlyModels'
  BY <1>1 DEF PackerInv, OnlyModels
<1>3. /\ DOMAIN NoPacker = PackerFields /\ NoPacker.pc = "idle"
      /\ NoPacker.chosen = {} /\ NoPacker.todo = {} /\ NoPacker.now = None
      /\ NoPacker.forge = FALSE
  BY DEF NoPacker, PackerFields
<1> QED
  BY <1>2, <1>3 DEF PackerInv, Progress, ListsDescribed, Sealing, AtProfile

LEMMA StartModelKeeps ==
  ASSUME PackerInv, NEW p \in Profiles, StartModel(p)
  PROVE  PackerInv'
<1> DEFINE k == [packer EXCEPT !.pc = "copying", !.now = p, !.todo = @ \ {p}]
<1>1. /\ DOMAIN k = PackerFields /\ k.pc = "copying" /\ k.now = p
      /\ k.todo = packer.todo \ {p}
      /\ k.chosen = packer.chosen /\ k.lists = packer.lists
      /\ k.forge = packer.forge
  BY DEF PackerInv, PackerFields
<1>2. /\ packer' = k /\ src' = Put(src, Model(p), Torn)
      /\ packer.pc = "packing" /\ p \in packer.todo
  BY DEF StartModel
<1> HIDE DEF k
<1>3. \A q : q # Model(p) =>
        /\ q \in DOMAIN src' <=> q \in DOMAIN src
        /\ q \in DOMAIN src => src'[q] = src[q]
  BY <1>2, PutSpares DEF Spares
<1>4. /\ Described' = Described /\ Attested' = Attested
      /\ p \notin Described /\ packer.now = None
  <2>1. /\ packer.now = None /\ packer.chosen \subseteq Profiles
        /\ packer.todo \subseteq packer.chosen
    BY <1>2 DEF PackerInv, Progress, AtProfile
  <2>2. Described' = Described /\ p \notin Described
    BY <1>1, <1>2, <2>1, BundleAssumption DEF Described
  <2>3. Attested' = Attested
    BY <1>1, <1>2, <2>2 DEF Attested
  <2> QED BY <2>1, <2>2, <2>3
<1>5. OnlyModels'
  BY <1>3 DEF PackerInv, OnlyModels
<1>6. Progress'
  BY <1>1, <1>2, BundleAssumption DEF PackerInv, Progress, AtProfile
<1>7. ListsDescribed'
  <2>1. Model(p) \notin DOMAIN packer.lists
    BY <1>2, <1>4, PathsDiffer DEF PackerInv, ListsDescribed
  <2> QED
    BY <1>1, <1>2, <1>3, <1>4, <2>1 DEF PackerInv, ListsDescribed, Intact, Has
<1>8. Sealing'
  BY <1>1, <1>2 DEF Sealing
<1> QED BY <1>1, <1>2, <1>5, <1>6, <1>7, <1>8 DEF PackerInv

LEMMA EndModelKeeps ==
  ASSUME PackerInv, EndModel
  PROVE  PackerInv'
<1> DEFINE next == IF packer.forge THEN "attesting" ELSE "describing"
           k == [packer EXCEPT !.pc = next]
           p == packer.now
<1>1. /\ DOMAIN k = PackerFields /\ k.pc = next /\ k.now = p
      /\ k.forge = packer.forge
      /\ k.todo = packer.todo
      /\ k.chosen = packer.chosen /\ k.lists = packer.lists
  BY DEF PackerInv, PackerFields
<1>2. /\ packer' = k /\ src' = Put(src, Model(p), builds)
      /\ packer.pc = "copying"
      /\ p \in packer.chosen \ packer.todo /\ p \in Profiles
  BY DEF EndModel, PackerInv, Progress, AtProfile
<1> HIDE DEF k
<1>3. /\ Model(p) \in DOMAIN src'
      /\ \A q : q # Model(p) =>
           /\ q \in DOMAIN src' <=> q \in DOMAIN src
           /\ q \in DOMAIN src => src'[q] = src[q]
  BY <1>2, PutSpares DEF Spares
<1>4. Described' = Described /\ Attested' = Attested /\ p \notin Described
  BY <1>1, <1>2 DEF Described, Attested
<1>5. OnlyModels'
  BY <1>2, <1>3 DEF PackerInv, OnlyModels
<1>6. Progress'
  BY <1>1, <1>2, <1>3 DEF PackerInv, Progress, AtProfile, Has
<1>7. ListsDescribed'
  <2>1. Model(p) \notin DOMAIN packer.lists
    BY <1>2, <1>4, PathsDiffer DEF PackerInv, ListsDescribed
  <2> QED
    BY <1>1, <1>2, <1>3, <1>4, <2>1 DEF PackerInv, ListsDescribed, Intact, Has
<1>8. Sealing'
  BY <1>1, <1>2 DEF Sealing
<1> QED BY <1>1, <1>2, <1>5, <1>6, <1>7, <1>8 DEF PackerInv

(* The attestation is copied in place, and listed when it is whole. *)
LEMMA StartAttestationKeeps ==
  ASSUME PackerInv, StartAttestation
  PROVE  PackerInv'
<1> DEFINE k == [packer EXCEPT !.pc = "endorsing"]
           p == packer.now
<1>1. /\ DOMAIN k = PackerFields /\ k.pc = "endorsing" /\ k.now = p
      /\ k.forge = packer.forge /\ k.todo = packer.todo
      /\ k.chosen = packer.chosen /\ k.lists = packer.lists
  BY DEF PackerInv, PackerFields
<1>2. /\ packer' = k /\ src' = Put(src, Attestation(p), Torn)
      /\ packer.pc = "attesting" /\ packer.forge
      /\ p \in packer.chosen \ packer.todo /\ p \in Profiles
      /\ Model(p) \in DOMAIN src
  BY DEF StartAttestation, PackerInv, Progress, AtProfile, Has
<1> HIDE DEF k
<1>3. \A q : q # Attestation(p) =>
        /\ q \in DOMAIN src' <=> q \in DOMAIN src
        /\ q \in DOMAIN src => src'[q] = src[q]
  BY <1>2, PutSpares DEF Spares
<1>4. /\ Described' = Described /\ Attested' = Attested
      /\ p \notin Described /\ p \notin Attested
  BY <1>1, <1>2 DEF Described, Attested
<1>5. OnlyModels'
  BY <1>3, PathsDiffer DEF PackerInv, OnlyModels
<1>6. Progress'
  <2>1. Model(p) \in DOMAIN src'
    BY <1>2, <1>3, PathsDiffer
  <2>2. /\ packer.chosen \subseteq Profiles /\ packer.todo \subseteq packer.chosen
        /\ packer.forge \in BOOLEAN
    BY DEF PackerInv, Progress
  <2> HIDE DEF p
  <2> QED BY <1>1, <1>2, <2>1, <2>2 DEF Progress, AtProfile, Has
<1>7. ListsDescribed'
  <2>1. Attestation(p) \notin DOMAIN packer.lists
    BY <1>2, <1>4, PathsDiffer DEF PackerInv, ListsDescribed
  <2> QED
    BY <1>1, <1>2, <1>3, <1>4, <2>1 DEF PackerInv, ListsDescribed, Intact, Has
<1>8. Sealing'
  BY <1>1, <1>2 DEF Sealing
<1> QED BY <1>1, <1>2, <1>5, <1>6, <1>7, <1>8 DEF PackerInv

LEMMA EndAttestationKeeps ==
  ASSUME PackerInv, EndAttestation
  PROVE  PackerInv'
<1> DEFINE p == packer.now
           a == Attestation(p)
           lists == Put(packer.lists, a, builds)
           k == [packer EXCEPT !.pc = "describing", !.lists = lists]
<1>1. /\ DOMAIN k = PackerFields /\ k.pc = "describing" /\ k.now = p
      /\ k.forge = packer.forge /\ k.todo = packer.todo
      /\ k.chosen = packer.chosen /\ k.lists = lists
  BY DEF PackerInv, PackerFields
<1>2. /\ packer' = k /\ src' = Put(src, a, builds)
      /\ packer.pc = "endorsing" /\ packer.forge
      /\ p \in packer.chosen \ packer.todo /\ p \in Profiles
      /\ Model(p) \in DOMAIN src
  BY DEF EndAttestation, PackerInv, Progress, AtProfile, Has
<1>3. /\ DOMAIN lists = DOMAIN packer.lists \cup {a} /\ lists[a] = builds
      /\ \A q \in DOMAIN packer.lists \ {a} : lists[q] = packer.lists[q]
  BY DEF Put
<1> HIDE DEF k, lists
<1>4. /\ a \in DOMAIN src' /\ src'[a] = builds
      /\ \A q : q # a =>
           /\ q \in DOMAIN src' <=> q \in DOMAIN src
           /\ q \in DOMAIN src => src'[q] = src[q]
  BY <1>2, PutSpares DEF Spares
<1>5. /\ Described' = Described /\ Attested' = Attested \cup {p}
  BY <1>1, <1>2 DEF Described, Attested
<1>6. OnlyModels'
  BY <1>4, PathsDiffer DEF PackerInv, OnlyModels
<1>7. Progress'
  BY <1>1, <1>2, <1>4, PathsDiffer DEF PackerInv, Progress, AtProfile, Has
<1>8. ListsDescribed'
  <2>1. /\ DOMAIN packer.lists = {Model(q) : q \in Described}
                                  \cup {Profile(q) : q \in Described}
                                  \cup {Attestation(q) : q \in Attested}
        /\ \A q \in DOMAIN packer.lists : Intact(src, packer.lists, q)
    BY <1>2 DEF PackerInv, ListsDescribed
  <2>2. DOMAIN lists = {Model(q) : q \in Described}
                         \cup {Profile(q) : q \in Described}
                         \cup {Attestation(q) : q \in Attested \cup {p}}
    BY <1>3, <2>1
  <2>3. ASSUME NEW q \in DOMAIN lists PROVE Intact(src', lists, q)
    BY <1>3, <1>4, <2>1 DEF Intact, Has
  <2> HIDE DEF a, p
  <2> QED BY <1>1, <1>2, <1>5, <2>2, <2>3 DEF ListsDescribed
<1>9. Sealing'
  BY <1>1, <1>2 DEF Sealing
<1> QED BY <1>1, <1>2, <1>6, <1>7, <1>8, <1>9 DEF PackerInv

(* The profile is written, and both files get an inventory of what they are. *)
LEMMA DescribeProfileKeeps ==
  ASSUME PackerInv, DescribeProfile
  PROVE  PackerInv'
<1> DEFINE p == packer.now
           m == Model(p)
           d == Profile(p)
           lists == Put(Put(packer.lists, m, src'[m]), d, src'[d])
           k == [packer EXCEPT !.pc = "packing", !.now = None, !.lists = lists]
<1>1. /\ DOMAIN k = PackerFields /\ k.pc = "packing" /\ k.now = None
      /\ k.todo = packer.todo /\ k.chosen = packer.chosen /\ k.lists = lists
      /\ k.forge = packer.forge
  BY DEF PackerInv, PackerFields
<1>2. /\ packer' = k /\ src' = Replaced(src, d, builds)
      /\ packer.pc = "describing" /\ p \in packer.chosen \ packer.todo
      /\ p \in Profiles /\ m \in DOMAIN src
  BY DEF DescribeProfile, PackerInv, Progress, AtProfile, Has
<1>3. /\ DOMAIN lists = DOMAIN packer.lists \cup {m, d}
      /\ lists[m] = src'[m] /\ lists[d] = src'[d]
      /\ \A q \in DOMAIN packer.lists \ {m, d} : lists[q] = packer.lists[q]
  BY PathsDiffer DEF Put
<1> HIDE DEF k, lists
<1>4. /\ d \in DOMAIN src' /\ DOMAIN src' \subseteq DOMAIN src \cup {d}
      /\ \A q : q # d /\ q # Temp(d) =>
           /\ q \in DOMAIN src' <=> q \in DOMAIN src
           /\ q \in DOMAIN src => src'[q] = src[q]
  BY <1>2, ReplacedSpares DEF Spares
<1>5. /\ Described' = Described \cup {p} /\ p \notin Described
      /\ Attested' = Attested /\ m \in DOMAIN src'
  <2>1. Described' = Described \cup {p} /\ p \notin Described
    <3>1. None \notin packer.chosen
      BY BundleAssumption DEF PackerInv, Progress
    <3> QED BY <1>1, <1>2, <3>1 DEF Described
  <2>2. Attested' = Attested
    BY <1>1, <1>2, <2>1 DEF Attested
  <2>3. m \in DOMAIN src'
    BY <1>2, <1>4, PathsDiffer
  <2> QED BY <2>1, <2>2, <2>3
<1>6. OnlyModels'
  BY <1>4, PathsDiffer DEF PackerInv, OnlyModels
<1>7. Progress'
  BY <1>1, <1>2 DEF PackerInv, Progress, AtProfile
<1>8. ListsDescribed'
  <2>1. /\ DOMAIN packer.lists = {Model(q) : q \in Described}
                                  \cup {Profile(q) : q \in Described}
                                  \cup {Attestation(q) : q \in Attested}
        /\ \A q \in DOMAIN packer.lists : Intact(src, packer.lists, q)
    BY <1>2 DEF PackerInv, ListsDescribed
  <2>2. DOMAIN lists = {Model(q) : q \in Described \cup {p}}
                         \cup {Profile(q) : q \in Described \cup {p}}
                         \cup {Attestation(q) : q \in Attested}
    BY <1>3, <2>1
  <2>3. ASSUME NEW q \in DOMAIN lists PROVE Intact(src', lists, q)
    <3>1. CASE q \in {m, d}
      BY <3>1, <1>3, <1>4, <1>5 DEF Intact, Has
    <3>2. CASE q \notin {m, d}
      <4>1. q \in DOMAIN packer.lists /\ q # Temp(d)
        BY <3>2, <1>3, <2>1, PathsDiffer
      <4> QED BY <4>1, <3>2, <1>3, <1>4, <2>1 DEF Intact, Has
    <3> QED BY <3>1, <3>2
  <2> QED BY <1>1, <1>2, <1>5, <2>2, <2>3 DEF ListsDescribed
<1>9. Sealing'
  BY <1>1, <1>2 DEF Sealing
<1> QED BY <1>1, <1>2, <1>6, <1>7, <1>8, <1>9 DEF PackerInv

(* The manifest and its digest leave models and profiles alone.              *)
LEMMA SealingSpares ==
  ASSUME PackerInv, NEW path \in {Manifest, Digest},
         Spares(src, src', {path, Temp(path)}),
         DOMAIN src' \subseteq DOMAIN src \cup {path},
         NEW pc, packer' = [packer EXCEPT !.pc = pc],
         packer.pc \in {"packing", "sealing"}, pc \in {"sealing", "packed"}
  PROVE  OnlyModels' /\ Progress' /\ ListsDescribed'
<1>1. /\ packer'.pc = pc /\ packer'.todo = packer.todo
      /\ packer'.chosen = packer.chosen /\ packer'.lists = packer.lists
      /\ packer'.now = packer.now /\ packer'.forge = packer.forge
  BY DEF PackerInv, PackerFields
<1>2. /\ \A p : Model(p) \notin {path, Temp(path)}
      /\ \A p : Profile(p) \notin {path, Temp(path)}
      /\ \A p : Attestation(p) \notin {path, Temp(path)}
      /\ path[1] # "model"
  BY PathsDiffer
<1>3. OnlyModels'
  BY <1>2 DEF PackerInv, OnlyModels, Spares
<1>4. Progress'
  BY <1>1 DEF PackerInv, Progress, AtProfile
<1>5. ListsDescribed'
  <2>1. Described' = Described /\ Attested' = Attested
    BY <1>1 DEF Described, Attested
  <2> QED BY <1>1, <1>2, <2>1 DEF PackerInv, ListsDescribed, Intact, Has, Spares
<1> QED BY <1>3, <1>4, <1>5

LEMMA WriteManifestKeeps ==
  ASSUME PackerInv, WriteManifest
  PROVE  PackerInv'
<1>1. /\ DOMAIN packer' = PackerFields /\ packer'.pc = "sealing"
      /\ packer'.todo = packer.todo /\ packer'.lists = packer.lists
  BY DEF WriteManifest, PackerInv, PackerFields
<1>2. /\ Spares(src, src', {Manifest, Temp(Manifest)})
      /\ DOMAIN src' \subseteq DOMAIN src \cup {Manifest}
      /\ Manifest \in DOMAIN src'
      /\ src'[Manifest].lists = packer.lists
  BY ReplacedSpares DEF WriteManifest
<1>3. OnlyModels' /\ Progress' /\ ListsDescribed'
  BY <1>2, SealingSpares DEF WriteManifest
<1>4. Sealing'
  BY <1>1, <1>2 DEF Sealing, WriteManifest, Inventory, Has
<1> QED BY <1>1, <1>3, <1>4 DEF PackerInv

LEMMA WriteDigestKeeps ==
  ASSUME PackerInv, WriteDigest
  PROVE  PackerInv'
<1>1. /\ DOMAIN packer' = PackerFields /\ packer'.pc = "packed"
      /\ packer'.todo = packer.todo /\ packer'.lists = packer.lists
  BY DEF WriteDigest, PackerInv, PackerFields
<1>2. /\ Spares(src, src', {Digest, Temp(Digest)})
      /\ DOMAIN src' \subseteq DOMAIN src \cup {Digest}
      /\ Digest \in DOMAIN src' /\ src'[Digest] = src[Manifest]
  BY ReplacedSpares DEF WriteDigest
<1>3. OnlyModels' /\ Progress' /\ ListsDescribed'
  BY <1>2, SealingSpares DEF WriteDigest
<1>4. Manifest \notin {Digest, Temp(Digest)}
  BY PathsDiffer
<1>5. Sealing'
  BY <1>1, <1>2, <1>4
     DEF PackerInv, Sealing, WriteDigest, Inventory, Has, HasDigest, Spares
<1> QED BY <1>1, <1>3, <1>5 DEF PackerInv

LEMMA PackerKeeps ==
  ASSUME PackerInv, [BundleNext]_bundleVars
  PROVE  PackerInv'
<1>1. CASE \E chosen \in Selections, forge \in BOOLEAN : StartPacking(chosen, forge)
  BY <1>1, StartPackingKeeps
<1>2. CASE \E p \in Profiles : StartModel(p)
  BY <1>2, StartModelKeeps
<1>3. CASE EndModel         BY <1>3, EndModelKeeps
<1>4. CASE DescribeProfile  BY <1>4, DescribeProfileKeeps
<1>11. CASE StartAttestation  BY <1>11, StartAttestationKeeps
<1>12. CASE EndAttestation  BY <1>12, EndAttestationKeeps
<1>5. CASE WriteManifest    BY <1>5, WriteManifestKeeps
<1>6. CASE WriteDigest      BY <1>6, WriteDigestKeeps
<1>7. CASE EndPacking       BY <1>7, PackerGone DEF EndPacking
<1>8. CASE PackerKilled     BY <1>8, PackerGone DEF PackerKilled, PackerTemp
<1>9. CASE \E c \in Clients : Serve(c)
  BY <1>9, ServeKeepsPacker
<1>10. CASE UNCHANGED bundleVars
  BY <1>10, OtherFilesKeepPacker DEF bundleVars, Spares
<1> QED
  BY <1>1, <1>2, <1>3, <1>4, <1>5, <1>6, <1>7, <1>8, <1>9, <1>10, <1>11, <1>12
     DEF BundleNext, Pack

THEOREM PackerInvariance == BundleSpec => []PackerInv
<1>1. BundleInit => PackerInv
  BY PackerStarts
<1>2. PackerInv /\ [BundleNext]_bundleVars => PackerInv'
  BY PackerKeeps
<1> QED BY <1>1, <1>2, PTL DEF BundleSpec

(* A packaging that ends over whatever killed predecessors left has made a  *)
(* bundle that verifies, apart from a foreign model or a stale signature,   *)
(* for any set of profiles and any number of clients at work.               *)
THEOREM PackedBundleAlwaysVerifies == BundleSpec => []PackedBundleVerifies
<1>1. PackerInv => PackedBundleVerifies
  <2> SUFFICES ASSUME PackerInv, packer.pc = "packed", SignatureHolds(src),
                      \A p \in Profiles \ packer.chosen : ~Has(src, Model(p))
               PROVE  Verifies(src)
    BY DEF PackedBundleVerifies
  <2>1. /\ HasDigest(src) /\ Inventory(src) = packer.lists
        /\ packer.todo = {} /\ packer.now = None
    BY DEF PackerInv, Sealing, Progress, AtProfile
  <2>2. Described = packer.chosen
    BY <2>1, BundleAssumption DEF Described, PackerInv, Progress
  <2>3. \A path \in DOMAIN Inventory(src) : Intact(src, Inventory(src), path)
    BY <2>1 DEF PackerInv, ListsDescribed
  <2>4. NoUndeclaredModel(src, Inventory(src))
    BY <2>1, <2>2 DEF NoUndeclaredModel, PackerInv, OnlyModels, ListsDescribed, Has
  <2> QED BY <2>1, <2>3, <2>4 DEF Verifies
<1> QED BY <1>1, PackerInvariance, PTL
------------------------------------------------------------------------------
(***************************************************************************)
(* Types.  Most of BundleTypeOK is part of the two invariants; the rest is *)
(* what the files, the counters and the processes at rest look like.       *)
(***************************************************************************)
FilesOK == DOMAIN src \subseteq Paths /\ DOMAIN dst \subseteq Paths

CountersOK ==
  /\ dstExists \in BOOLEAN /\ imported \in BOOLEAN
  /\ builds \in 0..MaxBuilds /\ kills \in 0..MaxKills

ClientPoints == {"idle", "manifest", "digest", "files", "verified", "signing",
                 "free", "copying"}

LEMMA KnownPaths ==
  /\ \A p \in Profiles : {Model(p), Profile(p), Attestation(p),
                         Temp(Profile(p))} \subseteq Paths
  /\ {Manifest, Digest, Sig, Mac} \subseteq Paths
  /\ {Temp(Manifest), Temp(Digest), Temp(Sig)} \subseteq Paths
BY DEF Paths

LEMMA WritingKeepsPaths ==
  ASSUME NEW dir, DOMAIN dir \subseteq Paths, NEW path \in Paths, NEW content
  PROVE  /\ DOMAIN Put(dir, path, content) \subseteq Paths
         /\ DOMAIN Replaced(dir, path, content) \subseteq Paths
<1>1. DOMAIN Put(dir, path, content) \subseteq Paths
  BY DEF Put
<1>2. DOMAIN Replaced(dir, path, content) \subseteq DOMAIN dir \cup {path}
  BY ReplacedSpares
<1> QED BY <1>1, <1>2

LEMMA PackKeepsFiles ==
  ASSUME FilesOK, PackerInv, Pack
  PROVE  FilesOK'
<1>1. \A p \in Profiles : {Model(p), Profile(p), Attestation(p),
                         Temp(Profile(p))} \subseteq Paths
  BY KnownPaths
<1>2. packer.pc \in AtProfile => packer.now \in Profiles
  BY DEF PackerInv, Progress
<1>3. CASE UNCHANGED <<src, dst>>
  BY <1>3 DEF FilesOK
<1>4. CASE \E p \in Profiles : StartModel(p)
  BY <1>1, <1>4, WritingKeepsPaths DEF FilesOK, StartModel, importVars
<1>5. CASE EndModel \/ StartAttestation \/ EndAttestation
  BY <1>1, <1>2, <1>5, WritingKeepsPaths
     DEF FilesOK, EndModel, StartAttestation, EndAttestation, importVars, AtProfile
<1>6. CASE DescribeProfile
  <2>1. /\ src' = Replaced(src, Profile(packer.now), builds) /\ dst' = dst
        /\ packer.now \in Profiles
    BY <1>2, <1>6 DEF DescribeProfile, importVars, AtProfile
  <2> QED BY <1>1, <2>1, WritingKeepsPaths DEF FilesOK
<1>7. CASE WriteManifest \/ WriteDigest
  BY <1>7, KnownPaths, WritingKeepsPaths
     DEF FilesOK, WriteManifest, WriteDigest, importVars
<1>8. CASE PackerKilled
  <2>1. PackerTemp \subseteq Paths
    BY <1>1, <1>2, KnownPaths DEF PackerTemp, AtProfile
  <2> QED
    BY <2>1, <1>8, WritingKeepsPaths DEF FilesOK, PackerKilled, importVars
<1> QED
  BY <1>3, <1>4, <1>5, <1>6, <1>7, <1>8
     DEF Pack, StartPacking, EndPacking, importVars

LEMMA ServeKeepsFiles ==
  ASSUME FilesOK, NEW c \in Clients, Serve(c)
  PROVE  FilesOK'
<1>1. CASE UNCHANGED <<src, dst>>
  BY <1>1 DEF FilesOK
<1>2. DOMAIN Empty \subseteq Paths
  BY DEF Empty
<1>3. CASE WriteSignature(c) \/ WriteMac(c)
  BY <1>3, KnownPaths, WritingKeepsPaths
     DEF FilesOK, WriteSignature, WriteMac, importVars
<1>4. CASE CopyFile(c)
  <2> DEFINE path == NextOf(client[c].todo)
  <2>1. src' = src /\ path \in DOMAIN src /\ dst' = Put(dst, path, src[path])
    BY <1>4 DEF CopyFile, Has
  <2> HIDE DEF path
  <2> QED BY <2>1, WritingKeepsPaths DEF FilesOK
<1>5. CASE Raise(c) \/ EndImport(c)
  BY <1>2, <1>5 DEF FilesOK, Raise, EndImport, Abandoned
<1>6. CASE ClientKilled(c)
  BY <1>2, <1>6, KnownPaths, WritingKeepsPaths
     DEF FilesOK, ClientKilled, Abandoned
<1> QED
  BY <1>1, <1>3, <1>4, <1>5, <1>6
     DEF Serve, Call, ReadManifest, CheckDigest, CheckFile, CheckRest, Report,
         ReadPayload, FindFree, MakeTarget, importVars

LEMMA CountersKeep ==
  ASSUME CountersOK, ClientShape, BundleNext
  PROVE  CountersOK'
<1>1. MaxBuilds \in Nat /\ MaxKills \in Nat
  BY BundleAssumption
<1>2. CASE Pack
  <2>1. UNCHANGED importVars
    BY <1>2 DEF Pack, StartPacking, StartModel, EndModel, StartAttestation,
         EndAttestation, DescribeProfile,
         WriteManifest, WriteDigest, EndPacking, PackerKilled
  <2>2. \/ builds' = builds
        \/ builds < MaxBuilds /\ builds' = builds + 1
    BY <1>2 DEF Pack, StartPacking, StartModel, EndModel, StartAttestation,
         EndAttestation, DescribeProfile,
         WriteManifest, WriteDigest, EndPacking, PackerKilled
  <2>4. \/ kills' = kills
        \/ kills < MaxKills /\ kills' = kills + 1
    BY <1>2 DEF Pack, StartPacking, StartModel, EndModel, StartAttestation,
         EndAttestation, DescribeProfile,
         WriteManifest, WriteDigest, EndPacking, PackerKilled
  <2>3. builds' \in 0..MaxBuilds /\ kills' \in 0..MaxKills
    BY <1>1, <2>2, <2>4 DEF CountersOK
  <2> QED BY <2>1, <2>3 DEF CountersOK, importVars
<1>3. ASSUME NEW c \in Clients, Serve(c) PROVE CountersOK'
  <2>1. CASE EndImport(c)
    BY <2>1 DEF CountersOK, ClientShape, EndImport, Becomes, packerVars
  <2>2. CASE ClientKilled(c)
    BY <1>1, <2>2 DEF CountersOK, ClientKilled, packerVars
  <2>3. CASE ~EndImport(c) /\ ~ClientKilled(c)
    BY <1>3, <2>3
       DEF CountersOK, Serve, Call, ReadManifest, CheckDigest, CheckFile,
           CopyFile, CheckRest, Raise, Report, ReadPayload, WriteSignature,
           WriteMac, FindFree, MakeTarget, Becomes, packerVars, importVars
  <2> QED BY <2>1, <2>2, <2>3
<1> QED BY <1>2, <1>3 DEF BundleNext

(* Where the clients are, whichever of them steps or is disturbed. *)
PointsOK(k) == k.pc \in ClientPoints /\ (k.pc = "idle" => k = NoClient)

LEMMA ADisturbedClient ==
  ASSUME ClientShape, NEW b \in Clients, PointsOK(client[b])
  PROVE  PointsOK(Disturbing(client)[b])
<1> DEFINE old == client[b]
           k == [old EXCEPT !.disturbed = old.pc # "idle"]
<1>1. DOMAIN old = Fields /\ PointsOK(old) /\ Disturbing(client)[b] = k
  BY DEF ClientShape, Disturbing
<1> HIDE DEF old
<1>2. k.pc = old.pc
  BY <1>1 DEF Fields
<1>3. ASSUME old = NoClient PROVE k = NoClient
  <2>1. (NoClient.pc # "idle") = FALSE
    BY DEF NoClient
  <2>2. [NoClient EXCEPT !.disturbed = FALSE] = NoClient
    <3>1. ASSUME NEW v
          PROVE  [NoClient EXCEPT !.disturbed = v]
                   = [pc |-> "idle", lists |-> Empty, todo |-> {},
                      payload |-> Empty, disturbed |-> v]
      BY DEF NoClient
    <3>2. [NoClient EXCEPT !.disturbed = FALSE]
            = [pc |-> "idle", lists |-> Empty, todo |-> {},
               payload |-> Empty, disturbed |-> FALSE]
      BY <3>1, Zenon
    <3> QED BY <3>2, Zenon DEF NoClient
  <2>3. k = [NoClient EXCEPT !.disturbed = NoClient.pc # "idle"]
    BY <1>3
  <2> HIDE DEF k
  <2> QED BY <2>1, <2>2, <2>3, Zenon
<1> QED BY <1>1, <1>2, <1>3 DEF PointsOK

LEMMA PointsKeep ==
  ASSUME ClientShape, \A b \in Clients : PointsOK(client[b]),
         \/ UNCHANGED client
         \/ client' = Disturbing(client)
         \/ \E c \in Clients : client' = [Disturbing(client) EXCEPT ![c] = NoClient]
         \/ \E c \in Clients : \E k : /\ client' = [client EXCEPT ![c] = k]
                                      /\ PointsOK(k)
  PROVE  \A b \in Clients : PointsOK(client'[b])
<1>1. PointsOK(NoClient)
  BY DEF PointsOK, NoClient, ClientPoints
<1>2. \A b \in Clients : PointsOK(Disturbing(client)[b])
  BY ADisturbedClient
<1>3. DOMAIN Disturbing(client) = Clients /\ DOMAIN client = Clients
  BY DEF Disturbing, ClientShape
<1> QED BY <1>1, <1>2, <1>3

LEMMA ServeKeepsPoints ==
  ASSUME ClientShape, \A b \in Clients : PointsOK(client[b]),
         NEW c \in Clients, Serve(c)
  PROVE  \A b \in Clients : PointsOK(client'[b])
<1>1. PointsOK(NoClient)
  BY DEF PointsOK, NoClient, ClientPoints
<1>2. CASE Call(c)
  <2> DEFINE k == [NoClient EXCEPT !.pc = "manifest"]
  <2>1. client' = [client EXCEPT ![c] = k] /\ k.pc = "manifest"
    BY <1>2 DEF Call, Becomes, NoClient
  <2> QED BY <2>1, PointsKeep DEF PointsOK, ClientPoints
<1>3. CASE ReadManifest(c) \/ CheckDigest(c) \/ CheckFile(c) \/ CheckRest(c)
           \/ ReadPayload(c) \/ FindFree(c) \/ MakeTarget(c) \/ CopyFile(c)
  <2> DEFINE Moves == \E k : /\ client' = [client EXCEPT ![c] = k]
                            /\ k.pc \in ClientPoints \ {"idle"}
  <2>1. DOMAIN client[c] = Fields
    BY DEF ClientShape
  <2>2. ASSUME NEW k, client' = [client EXCEPT ![c] = k],
               k.pc \in {"manifest", "digest", "files", "verified", "signing",
                         "free", "copying"}
        PROVE  Moves
    BY <2>2 DEF ClientPoints
  <2> HIDE DEF Moves
  <2>3. ASSUME ReadManifest(c) PROVE Moves
    <3> DEFINE k == [client[c] EXCEPT !.pc = "digest", !.lists = Inventory(src)]
    <3>1. client' = [client EXCEPT ![c] = k] /\ k.pc = "digest"
      BY <2>1, <2>3 DEF ReadManifest, Becomes, Fields
    <3> HIDE DEF k
    <3> QED BY <2>2, <3>1
  <2>4. ASSUME CheckDigest(c) PROVE Moves
    <3> DEFINE k == [client[c] EXCEPT !.pc = "files",
                                   !.todo = DOMAIN client[c].lists]
    <3>1. client' = [client EXCEPT ![c] = k] /\ k.pc = "files"
      BY <2>1, <2>4 DEF CheckDigest, Becomes, Fields
    <3> HIDE DEF k
    <3> QED BY <2>2, <3>1
  <2>5. ASSUME CheckFile(c) PROVE Moves
    <3> DEFINE k == [client[c] EXCEPT !.todo = @ \ {NextOf(@)}]
    <3>1. client' = [client EXCEPT ![c] = k] /\ k.pc = "files"
      BY <2>1, <2>5 DEF CheckFile, Becomes, Fields
    <3> HIDE DEF k
    <3> QED BY <2>2, <3>1
  <2>6. ASSUME CheckRest(c) PROVE Moves
    <3> DEFINE k == [client[c] EXCEPT !.pc = "verified", !.lists = Empty]
    <3>1. client' = [client EXCEPT ![c] = k] /\ k.pc = "verified"
      BY <2>1, <2>6 DEF CheckRest, Becomes, Fields
    <3> HIDE DEF k
    <3> QED BY <2>2, <3>1
  <2>7. ASSUME ReadPayload(c) PROVE Moves
    <3> DEFINE k == [client[c] EXCEPT !.pc = "signing", !.payload = src[Digest]]
    <3>1. client' = [client EXCEPT ![c] = k] /\ k.pc = "signing"
      BY <2>1, <2>7 DEF ReadPayload, Becomes, Fields
    <3> HIDE DEF k
    <3> QED BY <2>2, <3>1
  <2>8. ASSUME FindFree(c) PROVE Moves
    <3> DEFINE k == [client[c] EXCEPT !.pc = "free"]
    <3>1. client' = [client EXCEPT ![c] = k] /\ k.pc = "free"
      BY <2>1, <2>8 DEF FindFree, Becomes, Fields
    <3> HIDE DEF k
    <3> QED BY <2>2, <3>1
  <2>9. ASSUME MakeTarget(c) PROVE Moves
    <3> DEFINE k == [client[c] EXCEPT !.pc = "copying", !.todo = DOMAIN src]
    <3>1. client' = [client EXCEPT ![c] = k] /\ k.pc = "copying"
      BY <2>1, <2>9 DEF MakeTarget, Becomes, Fields
    <3> HIDE DEF k
    <3> QED BY <2>2, <3>1
  <2>10. ASSUME CopyFile(c) PROVE Moves
    <3> DEFINE k == [client[c] EXCEPT !.todo = @ \ {NextOf(client[c].todo)}]
    <3>1. client' = [client EXCEPT ![c] = k] /\ k.pc = "copying"
      BY <2>1, <2>10 DEF CopyFile, Becomes, Fields
    <3> HIDE DEF k
    <3> QED BY <2>2, <3>1
  <2>11. Moves
    BY <1>3, <2>3, <2>4, <2>5, <2>6, <2>7, <2>8, <2>9, <2>10
  <2>12. PICK k : /\ client' = [client EXCEPT ![c] = k]
                 /\ k.pc \in ClientPoints \ {"idle"}
    BY <2>11 DEF Moves
  <2> QED BY <2>12, PointsKeep DEF PointsOK
<1>4. CASE Raise(c) \/ Report(c) \/ EndImport(c) \/ WriteSignature(c)
           \/ WriteMac(c) \/ ClientKilled(c)
  BY <1>1, <1>4, PointsKeep
     DEF Raise, Report, EndImport, WriteSignature, WriteMac, ClientKilled, Becomes
<1> QED BY <1>2, <1>3, <1>4 DEF Serve

PackerRests == packer.pc = "idle" => packer = NoPacker

LEMMA PackerRestKeeps ==
  ASSUME PackerRests, PackerInv, BundleNext
  PROVE  PackerRests'
<1>1. CASE \E c \in Clients : Serve(c)
  BY <1>1 DEF PackerRests, Serve, Call, ReadManifest, CheckDigest, CheckFile,
       CopyFile, CheckRest, Raise, Report, ReadPayload, WriteSignature,
       WriteMac, FindFree, MakeTarget, EndImport, ClientKilled, Becomes,
       packerVars
<1>2. CASE Pack
  BY <1>2 DEF PackerInv, PackerFields, PackerRests, Pack, StartPacking,
       StartModel, EndModel, StartAttestation, EndAttestation,
       DescribeProfile, WriteManifest, WriteDigest,
       EndPacking, PackerKilled, NoPacker
<1> QED BY <1>1, <1>2 DEF BundleNext

TypeInv ==
  /\ FilesOK /\ CountersOK /\ PackerRests
  /\ \A b \in Clients : PointsOK(client[b])

LEMMA TypesStart == BundleInit => TypeInv
<1> SUFFICES ASSUME BundleInit PROVE TypeInv
  OBVIOUS
<1>1. FilesOK
  BY DEF BundleInit, FilesOK, Empty
<1>2. CountersOK
  <2>1. builds \in 0..MaxBuilds /\ kills \in 0..MaxKills
    BY BundleAssumption DEF BundleInit
  <2> QED BY <2>1 DEF BundleInit, CountersOK
<1>3. PackerRests
  BY DEF BundleInit, PackerRests
<1>4. \A b \in Clients : PointsOK(client[b])
  BY DEF BundleInit, PointsOK, ClientPoints, NoClient
<1> QED BY <1>1, <1>2, <1>3, <1>4 DEF TypeInv

LEMMA TypesKeep ==
  ASSUME TypeInv, PackerInv, ReaderInv, [BundleNext]_bundleVars
  PROVE  TypeInv'
<1>1. CASE UNCHANGED bundleVars
  BY <1>1 DEF TypeInv, FilesOK, CountersOK, PackerRests, PointsOK, bundleVars
<1>2. CASE BundleNext
  <2>1. FilesOK'
    BY <1>2, PackKeepsFiles, ServeKeepsFiles DEF TypeInv, BundleNext
  <2>2. CountersOK'
    BY <1>2, CountersKeep DEF TypeInv, ReaderInv
  <2>3. PackerRests'
    BY <1>2, PackerRestKeeps DEF TypeInv
  <2>4. \A b \in Clients : PointsOK(client'[b])
    <3>1. CASE Pack
      <4>1. UNCHANGED client \/ client' = Disturbing(client)
        BY <3>1 DEF Pack, StartPacking, StartModel, EndModel, StartAttestation,
         EndAttestation, DescribeProfile,
                    WriteManifest, WriteDigest, EndPacking, PackerKilled
      <4> QED BY <4>1, PointsKeep DEF TypeInv, ReaderInv
    <3> QED BY <1>2, <3>1, ServeKeepsPoints DEF BundleNext, TypeInv, ReaderInv
  <2> QED BY <2>1, <2>2, <2>3, <2>4 DEF TypeInv
<1> QED BY <1>1, <1>2

(* The directories hold only files of a bundle, and the packager and the    *)
(* clients are at the points of their calls with what those need.           *)
THEOREM BundleTypeCorrect == BundleSpec => []BundleTypeOK
<1>1. BundleInit => TypeInv
  BY TypesStart
<1>2. TypeInv /\ PackerInv /\ ReaderInv /\ [BundleNext]_bundleVars => TypeInv'
  BY TypesKeep
<1>3. TypeInv /\ PackerInv /\ ReaderInv => BundleTypeOK
  <2> SUFFICES ASSUME TypeInv, PackerInv, ReaderInv PROVE BundleTypeOK
    OBVIOUS
  <2>1. None \notin Profiles
    BY BundleAssumption
  <2>2. DOMAIN packer.lists \subseteq Paths
    <3>1. CASE packer.pc = "idle"
      BY <3>1 DEF TypeInv, PackerRests, NoPacker, Empty
    <3>2. CASE packer.pc # "idle"
      <4>1. Described \subseteq Profiles /\ Attested \subseteq Profiles
        BY DEF PackerInv, Progress, Described, Attested, AtProfile
      <4> QED BY <3>2, <4>1, KnownPaths DEF PackerInv, ListsDescribed
    <3> QED BY <3>1, <3>2
  <2>3. packer.pc \in AtProfile <=> packer.now # None
    BY <2>1 DEF PackerInv, Progress
  <2>4. \A c \in Clients :
          /\ client[c].pc \in ClientPoints
          /\ client[c].pc = "copying" => dstExists
          /\ client[c].pc = "idle" => client[c] = NoClient
    BY DEF TypeInv, PointsOK, ReaderInv, OneImport
  <2>5. imported => dstExists
    BY DEF ReaderInv, OneImport
  <2> QED
    BY <2>2, <2>3, <2>4, <2>5
       DEF BundleTypeOK, TypeInv, FilesOK, CountersOK, PackerInv, Progress,
           ClientPoints
<1> QED
  BY <1>1, <1>2, <1>3, PackerInvariance, ReaderInvariance, PTL DEF BundleSpec
------------------------------------------------------------------------------
(***************************************************************************)
(* What verify_bundle accepts beyond what it looks for: it only refuses    *)
(* undeclared models.  A profile or an attestation cannot be undeclared    *)
(* alone, because it is written after its model, no model is ever taken    *)
(* away, and a manifest that lists a model lists its profile and, if a     *)
(* forge run wrote it, its attestation.                                    *)
(***************************************************************************)
FilesHaveModels ==
  \A p \in Profiles :
    Has(src, Profile(p)) \/ Has(src, Attestation(p)) => Has(src, Model(p))

ManifestPairs ==
  Has(src, Manifest) =>
    \A p \in Profiles : Model(p) \in DOMAIN Inventory(src) =>
      /\ Profile(p) \in DOMAIN Inventory(src)
      /\ src[Manifest].forge => Attestation(p) \in DOMAIN Inventory(src)

PairsInv == FilesHaveModels /\ ManifestPairs

(* A write to none of the paths that the pairs are about. *)
LEMMA OtherFilesKeepPairs ==
  ASSUME PairsInv, NEW paths, Spares(src, src', paths),
         \A p \in Profiles : Profile(p) \notin paths /\ Attestation(p) \notin paths,
         \A p \in Profiles : Has(src, Model(p)) => Has(src', Model(p)),
         Manifest \notin paths
  PROVE  PairsInv'
<1>1. FilesHaveModels'
  BY DEF PairsInv, FilesHaveModels, Spares, Has
<1>2. ManifestPairs'
  BY DEF PairsInv, ManifestPairs, Inventory, Spares, Has
<1> QED BY <1>1, <1>2 DEF PairsInv

LEMMA ServeKeepsPairs ==
  ASSUME PairsInv, NEW c \in Clients, Serve(c)
  PROVE  PairsInv'
<1>1. /\ Manifest \notin ClientPaths
      /\ \A p : /\ Model(p) \notin ClientPaths /\ Profile(p) \notin ClientPaths
                /\ Attestation(p) \notin ClientPaths
  BY PathsDiffer DEF ClientPaths
<1>2. ASSUME Spares(src, src', ClientPaths) PROVE PairsInv'
  <2>1. \A p \in Profiles : Has(src, Model(p)) => Has(src', Model(p))
    BY <1>1, <1>2 DEF Spares, Has
  <2> QED BY <1>1, <1>2, <2>1, OtherFilesKeepPairs
<1>3. CASE WriteSignature(c)
  BY <1>2, <1>3, ReplacedSpares DEF WriteSignature, Spares, ClientPaths
<1>4. CASE WriteMac(c)
  BY <1>2, <1>4, ReplacedSpares DEF WriteMac, Spares, ClientPaths
<1>5. CASE ClientKilled(c) /\ src' = Put(src, Temp(Sig), Torn)
  BY <1>2, <1>5, PutSpares DEF Spares, ClientPaths
<1>6. CASE src' = src
  BY <1>2, <1>6 DEF Spares
<1> QED
  BY <1>3, <1>4, <1>5, <1>6
     DEF Serve, Call, ReadManifest, CheckDigest, CheckFile, CopyFile, CheckRest,
         Raise, Report, ReadPayload, FindFree, MakeTarget, EndImport, ClientKilled

(* A profile or an attestation that is written beside its model. *)
LEMMA WrittenBesideModel ==
  ASSUME PairsInv, NEW p \in Profiles, NEW path \in {Profile(p), Attestation(p)},
         Spares(src, src', {path, Temp(path)}), Has(src, Model(p))
  PROVE  PairsInv'
<1>1. /\ Manifest \notin {path, Temp(path)}
      /\ \A q : Model(q) \notin {path, Temp(path)}
      /\ \A q : Profile(q) # Temp(path) /\ Attestation(q) # Temp(path)
      /\ \A q : Profile(q) = path \/ Attestation(q) = path => q = p
  BY PathsDiffer
<1>2. FilesHaveModels'
  BY <1>1 DEF PairsInv, FilesHaveModels, Spares, Has
<1>3. ManifestPairs'
  BY <1>1 DEF PairsInv, ManifestPairs, Inventory, Spares, Has
<1> QED BY <1>2, <1>3 DEF PairsInv

LEMMA PackKeepsPairs ==
  ASSUME PairsInv, PackerInv, Pack
  PROVE  PairsInv'
<1>1. ASSUME NEW p \in Profiles, NEW content, src' = Put(src, Model(p), content)
      PROVE  PairsInv'
  <2>1. /\ Spares(src, src', {Model(p)}) /\ Model(p) \in DOMAIN src'
        /\ Manifest # Model(p)
        /\ \A q : Profile(q) # Model(p) /\ Attestation(q) # Model(p)
    BY <1>1, PutSpares, PathsDiffer
  <2>2. \A q \in Profiles : Has(src, Model(q)) => Has(src', Model(q))
    BY <2>1 DEF Spares, Has
  <2> QED BY <2>1, <2>2, OtherFilesKeepPairs
<1>2. ASSUME NEW path, src' = Put(src, Temp(path), Torn)
      PROVE  PairsInv'
  <2>1. /\ Spares(src, src', {Temp(path)}) /\ Manifest # Temp(path)
        /\ \A q : /\ Profile(q) # Temp(path) /\ Model(q) # Temp(path)
                  /\ Attestation(q) # Temp(path)
    BY <1>2, PutSpares, PathsDiffer
  <2>2. \A q \in Profiles : Has(src, Model(q)) => Has(src', Model(q))
    BY <2>1 DEF Spares, Has
  <2> QED BY <2>1, <2>2, OtherFilesKeepPairs
<1>3. CASE src' = src
  <2>1. Spares(src, src', {})
    BY <1>3 DEF Spares
  <2> QED BY <1>3, <2>1, OtherFilesKeepPairs
<1>4. CASE \E p \in Profiles : StartModel(p)
  BY <1>1, <1>4 DEF StartModel
<1>5. CASE EndModel
  <2>1. packer.now \in Profiles
    BY <1>5 DEF EndModel, PackerInv, Progress, AtProfile
  <2> QED BY <1>1, <1>5, <2>1 DEF EndModel
<1>6. CASE StartAttestation \/ EndAttestation \/ DescribeProfile
  <2> DEFINE p == packer.now
  <2>1. p \in Profiles /\ Has(src, Model(p))
    BY <1>6 DEF StartAttestation, EndAttestation, DescribeProfile, PackerInv,
                Progress, AtProfile
  <2>2. \/ Spares(src, src', {Attestation(p), Temp(Attestation(p))})
        \/ Spares(src, src', {Profile(p), Temp(Profile(p))})
    BY <1>6, PutSpares, ReplacedSpares
       DEF StartAttestation, EndAttestation, DescribeProfile, Spares
  <2> HIDE DEF p
  <2> QED BY <2>1, <2>2, WrittenBesideModel
<1>7. CASE WriteManifest
  <2> DEFINE content == [stamp |-> builds, forge |-> packer.forge,
                         lists |-> packer.lists]
  <2>8. src' = Replaced(src, Manifest, content)
    BY <1>7 DEF WriteManifest
  <2>6. content.lists = packer.lists /\ content.forge = packer.forge
    OBVIOUS
  <2> HIDE DEF content
  <2>1. /\ Spares(src, src', {Manifest, Temp(Manifest)})
        /\ src'[Manifest] = content
        /\ \A q : /\ Model(q) \notin {Manifest, Temp(Manifest)}
                  /\ Profile(q) \notin {Manifest, Temp(Manifest)}
                  /\ Attestation(q) \notin {Manifest, Temp(Manifest)}
    BY <2>8, ReplacedSpares, PathsDiffer
  <2>2. FilesHaveModels'
    BY <2>1 DEF PairsInv, FilesHaveModels, Spares, Has
  <2>3. DOMAIN packer.lists = {Model(q) : q \in Described}
                                \cup {Profile(q) : q \in Described}
                                \cup {Attestation(q) : q \in Attested}
    BY <1>7 DEF WriteManifest, PackerInv, ListsDescribed
  <2>4. packer.forge => Attested = Described
    BY <1>7 DEF WriteManifest, Attested
  <2>5. \A q : Model(q) \in DOMAIN packer.lists =>
          /\ Profile(q) \in DOMAIN packer.lists
          /\ packer.forge => Attestation(q) \in DOMAIN packer.lists
    BY <2>3, <2>4, PathsDiffer
  <2>7. ManifestPairs'
    BY <2>1, <2>5, <2>6 DEF ManifestPairs, Inventory
  <2> QED BY <2>2, <2>7 DEF PairsInv
<1>8. CASE WriteDigest
  <2>1. /\ Spares(src, src', {Digest, Temp(Digest)})
        /\ Manifest \notin {Digest, Temp(Digest)}
        /\ \A q : /\ Model(q) \notin {Digest, Temp(Digest)}
                  /\ Profile(q) \notin {Digest, Temp(Digest)}
                  /\ Attestation(q) \notin {Digest, Temp(Digest)}
    BY <1>8, ReplacedSpares, PathsDiffer DEF WriteDigest
  <2>2. \A q \in Profiles : Has(src, Model(q)) => Has(src', Model(q))
    BY <2>1 DEF Spares, Has
  <2> QED BY <2>1, <2>2, OtherFilesKeepPairs
<1>9. CASE PackerKilled
  <2>1. \A path \in PackerTemp : \E p : path = Temp(p)
    BY DEF PackerTemp
  <2> QED BY <1>2, <1>3, <1>9, <2>1 DEF PackerKilled
<1> QED
  BY <1>3, <1>4, <1>5, <1>6, <1>7, <1>8, <1>9 DEF Pack, StartPacking, EndPacking

(* Every file of a directory that verifies is listed, is the manifest, its  *)
(* digest, a signature or a MAC, is an attestation beside a manifest that    *)
(* `bundle create` wrote, or is left over from a killed process.            *)
LEMMA NothingUndeclared ==
  ASSUME FilesOK, PairsInv, Verifies(src), NEW path \in DOMAIN src
  PROVE  \/ path \in DOMAIN Inventory(src) \cup {Manifest, Digest, Sig, Mac}
         \/ path[1] = "temp"
         \/ ~src[Manifest].forge /\ \E p \in Profiles : path = Attestation(p)
<1>1. \A p \in Profiles : Has(src, Model(p)) => Model(p) \in DOMAIN Inventory(src)
  BY PathsDiffer DEF Verifies, NoUndeclaredModel, Has
<1>2. Has(src, Manifest)
  BY DEF Verifies, HasDigest
<1>3. \A p \in Profiles : Has(src, Profile(p)) => Profile(p) \in DOMAIN Inventory(src)
  BY <1>1, <1>2 DEF PairsInv, FilesHaveModels, ManifestPairs
<1>4. \A p \in Profiles : Has(src, Attestation(p)) /\ src[Manifest].forge
                            => Attestation(p) \in DOMAIN Inventory(src)
  BY <1>1, <1>2 DEF PairsInv, FilesHaveModels, ManifestPairs
<1>5. path \in Paths
  BY DEF FilesOK
<1>6. CASE \E p \in Profiles : path = Model(p) \/ path = Profile(p)
  BY <1>1, <1>3, <1>6 DEF Has
<1>7. CASE \E p \in Profiles : path = Attestation(p)
  BY <1>4, <1>7 DEF Has
<1>8. CASE \E p : path = Temp(p)
  BY <1>8 DEF Temp
<1> QED BY <1>5, <1>6, <1>7, <1>8 DEF Paths

(* verify_bundle and the runtime's loader agree: a directory that the first *)
(* accepts is loaded by the second, although it looks for undeclared files  *)
(* of every kind, unless somebody signed or MACed it, a killed process left *)
(* a temporary file, or `bundle create` came after a forge run and left its *)
(* attestations undeclared.                                                 *)
THEOREM VerifiedBundleAlwaysLoads == BundleSpec => []VerifiedBundleLoads
<1>1. BundleInit => PairsInv
  BY DEF BundleInit, PairsInv, FilesHaveModels, ManifestPairs, Has, Empty
<1>2. PairsInv /\ PackerInv /\ [BundleNext]_bundleVars => PairsInv'
  <2> SUFFICES ASSUME PairsInv, PackerInv, [BundleNext]_bundleVars PROVE PairsInv'
    OBVIOUS
  <2>1. CASE UNCHANGED bundleVars
    BY <2>1 DEF PairsInv, FilesHaveModels, ManifestPairs, Has, Inventory,
                bundleVars
  <2> QED BY <2>1, PackKeepsPairs, ServeKeepsPairs DEF BundleNext
<1>3. BundleInit => TypeInv
  BY TypesStart
<1>4. TypeInv /\ PackerInv /\ ReaderInv /\ [BundleNext]_bundleVars => TypeInv'
  BY TypesKeep
<1>5. TypeInv /\ PairsInv => VerifiedBundleLoads
  <2> SUFFICES ASSUME TypeInv, PairsInv, Verifies(src), ~Has(src, Sig),
                      ~Has(src, Mac), \A path \in DOMAIN src : path[1] # "temp",
                      src[Manifest].forge
                        \/ \A p \in Profiles : ~Has(src, Attestation(p))
               PROVE  NodeLoads(src, FALSE)
    BY DEF VerifiedBundleLoads
  <2>1. DOMAIN src \subseteq DOMAIN Inventory(src) \cup {Manifest, Digest, Sig}
    BY NothingUndeclared DEF TypeInv, Has
  <2> QED BY <2>1 DEF Verifies, NodeLoads
<1> QED
  BY <1>1, <1>2, <1>3, <1>4, <1>5, PackerInvariance, ReaderInvariance, PTL
     DEF BundleSpec
==============================================================================
