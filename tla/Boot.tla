-------------------------------- MODULE Boot --------------------------------
(***************************************************************************)
(* One agent's machine over many lives of its process: the vault key is    *)
(* loaded, the TEE identity and the role are resolved, a primary gets a    *)
(* wallet and registers itself, the key is sealed, the agent serves, and a *)
(* succession replaces key and database.  VaultKeyManager writes the key   *)
(* to two files, in place, one after the other, and reads the first one    *)
(* that opens.                                                             *)
(*                                                                         *)
(* Disk                                                                    *)
(*   lasting    which of the two files outlive the process: /data is a     *)
(*              volume, /dev/attestation/keys may be one                   *)
(*   file       their contents: a key encrypted under an identity          *)
(*   idFile     /data/tee-instance-id                                      *)
(*   walletRow, tokenRow   evm_mnemonic and erc8004_token_id               *)
(* Process                                                                 *)
(*   step       the await initialize() is suspended at, "off", "serving"   *)
(*   key, role, wallet, token                                              *)
(*   seals      calls of seal() in progress, and of /api/backup/confirm     *)
(* World                                                                   *)
(*   source     what the TEE's reports hash to in this life                *)
(*   minted     how many tokens the machine's own wallet registered        *)
(*   faults     faults so far (bounded by MaxFaults)                       *)
(* History, read by properties only                                        *)
(*   kept       keys a load may return: the last one sealed and the one    *)
(*              being sealed; empty until the first seal is complete       *)
(*   damage     copies of the key spoilt so far, see Spoils                *)
(***************************************************************************)
EXTENDS Naturals, FiniteSets

CONSTANTS
  Key,          \* keys, a finite set of naturals; names are taken again
  Id,           \* what the TEE's reports may hash to
  MaxFaults,    \* bound on crashes, failed writes and failed calls
  MaxConfirms,  \* bound on the calls of /api/backup/confirm in progress
  None, Torn    \* no file, and a file that does not parse

Path == {"tee", "file"}

ASSUME BootAssumption ==
  /\ Key \subseteq Nat
  /\ MaxFaults \in Nat /\ MaxConfirms \in Nat
  /\ None # Torn /\ None \notin Key /\ None \notin Id
  /\ {None, Torn} \cap [key : Key, id : Id] = {}

VARIABLES lasting, file, idFile, walletRow, tokenRow,
          step, key, role, wallet, token, seals, source, minted, faults,
          kept, damage

rowVars == <<walletRow, tokenRow>>
memoryVars == <<role, wallet, token>>
historyVars == <<kept, damage>>
vars == <<lasting, file, idFile, rowVars, step, key, memoryVars, seals, source,
          minted, faults, historyVars>>

Sealed == [key : Key, id : Id]
\* A call of seal() that is about to write at, and whether its first write
\* succeeded; a key received moves on through the rest of /api/backup/confirm.
Seal == [key : Key, id : Id, at : Path \cup {"applying", "rotating"},
         why : {"boot", "received", "rotated"}, wrote : BOOLEAN]
BootStep == {"tee", "file", "identify", "role", "wallet", "register",
             "receipt", "seal", "sealing"}

TypeOK ==
  /\ lasting \in {{"file"}, Path}
  /\ DOMAIN file = Path
  /\ \A p \in Path : file[p] \in Sealed \/ file[p] \in {None, Torn}
  /\ idFile \in Id \cup {None}
  /\ walletRow \in {"none", "own", "network"}
  /\ tokenRow \in {"none", "own", "network"}
  /\ step \in BootStep \cup {"off", "serving"}
  /\ key \in Key \cup {None}
  /\ role \in {"none", "primary", "backup"}
  /\ wallet \in {"none", "own", "network"}
  /\ token \in {"none", "own", "network"}
  /\ seals \subseteq Seal
  /\ source \in Id
  /\ minted \in Nat
  /\ faults \in 0 .. MaxFaults
  /\ kept \subseteq Key
  /\ damage \in 0 .. Cardinality(Path)

Init ==
  /\ lasting \in {{"file"}, Path}
  /\ file = [p \in Path |-> None]
  /\ idFile = None
  /\ walletRow = "none" /\ tokenRow = "none"
  /\ step = "off"
  /\ key = None
  /\ role = "none" /\ wallet = "none" /\ token = "none"
  /\ seals = {}
  /\ source \in Id
  /\ minted = 0
  /\ faults = 0
  /\ kept = {} /\ damage = 0

Fault == faults < MaxFaults /\ faults' = faults + 1

-----------------------------------------------------------------------------
(* Sealing.                                                                *)

\* resolveTeeInstanceId: the stored identity, or this life's report.
InstanceId == IF idFile \in Id THEN idFile ELSE source

\* damage, counted up to the number of copies.
Damaged(n) ==
  IF damage + n > Cardinality(Path) THEN Cardinality(Path) ELSE damage + n

\* It stores the identity unless the directory cannot be written.
IdStored ==
  \/ idFile' = InstanceId /\ UNCHANGED <<faults, damage>>
  \/ /\ idFile \notin Id /\ Fault /\ UNCHANGED idFile
     /\ damage' = Damaged(Cardinality(Path))

\* What a failed write of p costs.  A stale first copy shadows the second.
Spoils(p) ==
  IF p \notin lasting THEN 0 ELSE IF p = "tee" THEN Cardinality(Path) ELSE 1

InUse == {key} \cup kept \cup {s.key : s \in seals}
           \cup {file[p].key : p \in {q \in Path : file[q] \in Sealed}}

\* randomBytes(32), or a key received from the network.
NewKey(k) == k \in Key \ InUse /\ \A j \in Key \ InUse : k <= j

Begin(k, why) ==
  [key |-> k, id |-> InstanceId, at |-> "tee", why |-> why, wrote |-> FALSE]

\* A key that has been sealed once may from now on be found on disk again.
KeptDuring(k) == IF kept = {} THEN {} ELSE kept \cup {k}

-----------------------------------------------------------------------------
(* initialize().                                                           *)

Start ==
  /\ step = "off"
  /\ step' = "tee"
  /\ source' \in Id
  /\ UNCHANGED <<lasting, file, idFile, rowVars, key, memoryVars, seals, minted,
                 faults, historyVars>>

Opens(p) == file[p] \in Sealed /\ file[p].id = InstanceId

\* load(): the copy at p is read, or the next tier is tried.  The identity is
\* resolved once the file was parsed.
LoadFrom(p, next) ==
  /\ step = p
  /\ \/ file[p] \in Sealed /\ IdStored
     \/ file[p] \notin Sealed /\ UNCHANGED <<idFile, faults, damage>>
  /\ \/ Opens(p) /\ step' = "identify" /\ key' = file[p].key
     \/ ~Opens(p) /\ next
  /\ UNCHANGED <<lasting, file, rowVars, memoryVars, seals, source, minted, kept>>

LoadTee == LoadFrom("tee", step' = "file" /\ UNCHANGED key)

\* Mutant: the third tier forgets to make a key.
LoadFileNoKey == LoadFrom("file", step' = "identify" /\ UNCHANGED key)

\* The third tier: a new key.
LoadFile == LoadFrom("file", step' = "identify" /\ NewKey(key'))

Identify ==
  /\ step = "identify" /\ IdStored
  /\ step' = "role"
  /\ UNCHANGED <<lasting, file, rowVars, key, memoryVars, seals, source, minted,
                 kept>>

\* resolveRole: a backup only if the registry names another agent that answers
\* within 5 s.
ResolveRole(r) ==
  /\ step = "role"
  /\ role' = r
  /\ step' = IF r = "primary" THEN "wallet" ELSE "seal"
  /\ UNCHANGED <<lasting, file, idFile, rowVars, key, wallet, token, seals, source,
                 minted, faults, historyVars>>

\* resolveEvmWallet: the mnemonic of the database, or a new one, stored.
ResolveWallet ==
  LET w == IF walletRow = "none" THEN "own" ELSE walletRow IN
  /\ step = "wallet"
  /\ walletRow' = w /\ wallet' = w
  /\ token' = tokenRow
  /\ step' = IF tokenRow = "none" THEN "register" ELSE "seal"
  /\ UNCHANGED <<lasting, file, idFile, tokenRow, key, role, seals, source, minted,
                 faults, historyVars>>

\* register(): the transaction is sent; a failing call is not fatal, and may
\* have been carried out all the same.
Register ==
  /\ step = "register"
  /\ \/ minted' = minted + 1 /\ step' = "receipt" /\ UNCHANGED faults
     \/ minted' \in {minted, minted + 1} /\ step' = "seal" /\ Fault
  /\ UNCHANGED <<lasting, file, idFile, rowVars, key, memoryVars, seals, source,
                 historyVars>>

\* Mutant: the token id is kept in memory only.
ReceiptUnstored ==
  /\ step = "receipt"
  /\ \/ token' = wallet /\ UNCHANGED faults
     \/ Fault /\ UNCHANGED token
  /\ step' = "seal"
  /\ UNCHANGED <<lasting, file, idFile, rowVars, key, role, wallet, seals, source,
                 minted, historyVars>>

\* The receipt names the token, unless it cannot be fetched.
Receipt ==
  /\ step = "receipt"
  /\ \/ token' = wallet /\ tokenRow' = wallet /\ UNCHANGED faults
     \/ Fault /\ UNCHANGED <<token, tokenRow>>
  /\ step' = "seal"
  /\ UNCHANGED <<lasting, file, idFile, walletRow, key, role, wallet, seals, source,
                 minted, historyVars>>

SealAtBoot ==
  /\ step = "seal" /\ IdStored
  /\ step' = "sealing"
  /\ seals' = {Begin(key, "boot")}
  /\ kept' = KeptDuring(key)
  /\ UNCHANGED <<lasting, file, rowVars, key, memoryVars, source, minted>>

-----------------------------------------------------------------------------
(* seal(), and what its callers do next.                                   *)

Ok(s) == file' = [file EXCEPT ![s.at] = [key |-> s.key, id |-> s.id]]
         /\ UNCHANGED <<faults, damage>>

\* writeFile() truncates before it writes.
Failed(s) == /\ file' \in {file, [file EXCEPT ![s.at] = Torn]}
             /\ Fault /\ damage' = Damaged(Spoils(s.at))

WriteTee(s) ==
  /\ s \in seals /\ s.at = "tee"
  /\ \E ok \in BOOLEAN :
       /\ IF ok THEN Ok(s) ELSE Failed(s)
       /\ seals' = (seals \ {s}) \cup {[s EXCEPT !.at = "file", !.wrote = ok]}
  /\ UNCHANGED <<lasting, idFile, rowVars, step, key, memoryVars, source, minted,
                 kept>>

\* What the caller of seal() does when it returns.
Continue(s) ==
  CASE s.why = "boot" ->
         step' = "serving" /\ seals' = seals \ {s} /\ UNCHANGED memoryVars
    [] s.why = "received" ->
         /\ seals' = (seals \ {s}) \cup {[s EXCEPT !.at = "applying"]}
         /\ UNCHANGED <<step, memoryVars>>
    [] s.why = "rotated" ->
         /\ seals' = seals \ {s} /\ role' = "primary"
         /\ UNCHANGED <<step, wallet, token>>

\* Mutant: a key counts as sealed once the first path was tried.
WriteOnce(s) ==
  /\ s \in seals /\ s.at = "file"
  /\ Continue(s)
  /\ kept' = {s.key}
  /\ UNCHANGED <<lasting, file, idFile, rowVars, key, source, minted, faults,
                 damage>>

WriteFile(s) ==
  /\ s \in seals /\ s.at = "file"
  /\ Ok(s) \/ (s.wrote /\ Failed(s))
  /\ Continue(s)
  /\ kept' = {s.key}
  /\ UNCHANGED <<lasting, idFile, rowVars, key, source, minted>>

\* The process ends; what is in no volume is gone with the container.
Ended(contents) ==
  /\ file' = [p \in Path |-> IF p \in lasting THEN contents[p] ELSE None]
  /\ step' = "off" /\ key' = None
  /\ role' = "none" /\ wallet' = "none" /\ token' = "none"
  /\ seals' = {}
  /\ UNCHANGED <<lasting, idFile, rowVars, source, minted, kept>>

\* Neither path can be written: seal() throws.  At boot the process exits; a
\* handler answers 500; a rotation is given up.
SealFails(s) ==
  /\ s \in seals /\ s.at = "file" /\ ~s.wrote
  /\ \/ /\ s.why = "boot"
        /\ Fault /\ damage' = Damaged(Spoils("file"))
        /\ \E p \in {file["file"], Torn} : Ended([file EXCEPT !["file"] = p])
     \/ /\ s.why # "boot" /\ Failed(s)
        /\ seals' = seals \ {s}
        /\ role' = IF s.why = "rotated" THEN "primary" ELSE role
        /\ UNCHANGED <<lasting, idFile, rowVars, step, key, wallet, token, source,
                       minted, kept>>

\* Two seal() calls that overlap leave any mix of their keys.
Overlap == IF \E s \in seals : s.at \in Path THEN Cardinality(Path) ELSE 0

\* /api/backup/confirm hands the network's key over: replaceKey, seal.
Receive ==
  /\ step = "serving" /\ Cardinality(seals) < MaxConfirms
  /\ NewKey(key')
  /\ seals' = seals \cup {Begin(key', "received")}
  /\ kept' = kept \cup {key'}
  /\ damage' = Damaged(Overlap)
  /\ UNCHANGED <<lasting, file, idFile, rowVars, step, memoryVars, source, minted,
                 faults>>

\* applySnapshot: the network's database replaces this one.  A wallet or a token
\* the process already has stays.
TakeOver(s) ==
  /\ s \in seals /\ s.at = "applying"
  /\ \/ /\ walletRow' = "network" /\ tokenRow' = "network"
        /\ wallet' = IF wallet = "none" THEN "network" ELSE wallet
        /\ token' = IF token = "none" THEN "network" ELSE token
        /\ seals' = (seals \ {s}) \cup {[s EXCEPT !.at = "rotating"]}
        /\ UNCHANGED faults
     \/ /\ Fault /\ seals' = seals \ {s}
        /\ UNCHANGED <<rowVars, wallet, token>>
  /\ UNCHANGED <<lasting, file, idFile, step, key, role, source, minted,
                 historyVars>>

\* The end of rotateVaultKey: the new key replaces the received one.
Rotate(s) ==
  /\ s \in seals /\ s.at = "rotating"
  /\ NewKey(key')
  /\ seals' = (seals \ {s}) \cup {Begin(key', "rotated")}
  /\ kept' = kept \cup {key'}
  /\ damage' = Damaged(Overlap)
  /\ UNCHANGED <<lasting, file, idFile, rowVars, step, memoryVars, source, minted,
                 faults>>

-----------------------------------------------------------------------------
(* The process ends.                                                       *)

\* SIGTERM while nothing is being done.
Stop ==
  /\ step = "serving" /\ seals = {}
  /\ Ended(file) /\ UNCHANGED <<faults, damage>>

\* Anywhere else; a copy that is being written may be torn.
Crash ==
  LET writing == {s.at : s \in seals} \cap Path IN
  /\ step # "off" /\ Fault
  /\ \E torn \in SUBSET writing :
       /\ Ended([p \in Path |-> IF p \in torn THEN Torn ELSE file[p]])
       /\ damage' = Damaged(Cardinality(torn \cap lasting))

Next ==
  \/ Start \/ LoadTee \/ LoadFile \/ Identify
  \/ \E r \in {"primary", "backup"} : ResolveRole(r)
  \/ ResolveWallet \/ Register \/ Receipt \/ SealAtBoot
  \/ \E s \in seals : WriteTee(s) \/ WriteFile(s) \/ SealFails(s)
                      \/ TakeOver(s) \/ Rotate(s)
  \/ Receive \/ Stop \/ Crash

Spec == Init /\ [][Next]_vars

-----------------------------------------------------------------------------
(* Properties.                                                             *)

Loaded == step \notin {"off", "tee", "file"}

\* Once a seal() has returned, the key an agent holds is the one sealed last, or
\* the one being sealed: a process that loses the key (and makes up a new one,
\* under which no snapshot of the network can be opened) or comes up with an
\* older key has met as many spoilt copies as there are files that outlive it.
KeyKept ==
  kept # {} /\ damage < Cardinality(lasting) /\ Loaded => key \in kept

\* Restarts do not register the agent again: every token its own wallet pays for
\* beyond the first answers for a fault.
RegistrationsAreBounded == minted <= 1 + faults

=============================================================================
