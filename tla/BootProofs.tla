----------------------------- MODULE BootProofs -----------------------------
(***************************************************************************)
(* Proofs that Boot keeps its types, that a sealed vault key survives      *)
(* fewer spoilt copies than there are files that outlive the process, and  *)
(* that an agent registers itself once, and once more per fault.           *)
(*                                                                         *)
(* KeyKept is not inductive: it says nothing while the process is down.    *)
(* Custody says what the disk holds meanwhile, and Sealing what a call of  *)
(* seal() has done when it is between its two writes.                      *)
(***************************************************************************)
EXTENDS Boot, FiniteSetTheorems, TLAPS

\* The key was sealed and not every copy is spoilt.
Intact == kept # {} /\ (damage = 0 \/ (damage = 1 /\ "tee" \in lasting))

\* The identity of the sealed files is fixed as long as it can be stored.
Identified ==
  damage < 2 /\ (kept # {} \/ (Loaded /\ step # "identify")) => idFile \in Id

\* Where a process is, seen from what it is doing.
Placed ==
  /\ Loaded => key \in Key
  /\ seals # {} => step \in {"sealing", "serving"}
  /\ step = "serving" => kept # {}
  /\ \A s \in seals : s.at = "tee" \/ s.at = "file" \/ s.why = "received"
  /\ \A s \in seals : s.why # "boot" => step = "serving"

\* One call of seal() at a time writes, the key in memory under the stored
\* identity, and its first copy is in place before the second is touched.
Sealing ==
  damage < 2 =>
    /\ \A s, t \in seals : s.at \in Path /\ t.at \in Path => s = t
    /\ \A s \in seals : s.at \in Path => s.id = idFile /\ s.key = key
    /\ "tee" \in lasting =>
         \A s \in seals : s.at = "file" =>
           s.wrote /\ file["tee"] = [key |-> s.key, id |-> s.id]

Good(p) == Opens(p) /\ file[p].key \in kept

\* load() finds a good copy, and no other before it.
Custody ==
  Intact =>
    /\ Good("file") \/ ("tee" \in lasting /\ Good("tee"))
    /\ "tee" \in lasting => Good("tee") \/ ~Opens("tee")
    /\ damage = 0 => Good("file") /\ ("tee" \in lasting => Good("tee"))
    /\ step = "file" => ~Opens("tee")

Wiped == "tee" \notin lasting /\ step \in {"off", "tee"} => file["tee"] = None

InMemory == Intact /\ Loaded => key \in kept

IInv == Identified /\ Placed /\ Sealing /\ Custody /\ Wiped /\ InMemory

-----------------------------------------------------------------------------
(* Arithmetic of damage.                                                   *)

\* There are two copies, and the counter of the spoilt ones stops there.
LEMMA Copies ==
  /\ Cardinality(Path) = 2
  /\ Cardinality({"file"}) = 1
<1>1. Cardinality({"file"}) = 1
  BY FS_Singleton
<1>2. Cardinality({"file"} \cup {"tee"}) = 2
  <2>1. IsFiniteSet({"file"}) /\ "tee" \notin {"file"}
    BY FS_Singleton
  <2> QED BY <1>1, <2>1, FS_AddElement
<1>3. Path = {"file"} \cup {"tee"}
  BY DEF Path
<1> QED BY <1>1, <1>2, <1>3

\* A copy is still good for the key in one of two cases.
LEMMA Spared ==
  ASSUME TypeOK
  PROVE  kept # {} /\ damage < Cardinality(lasting) <=> Intact
<1>1. CASE lasting = Path
  BY <1>1, Copies DEF TypeOK, Path, Intact
<1>2. CASE lasting = {"file"}
  BY <1>2, Copies DEF TypeOK, Intact
<1> QED BY <1>1, <1>2 DEF TypeOK

LEMMA DamageCounts ==
  ASSUME TypeOK
  PROVE  /\ Damaged(0) = damage
         /\ damage = 0 => Damaged(1) = 1
         /\ damage # 0 => Damaged(1) = 2
         /\ Damaged(2) = 2
BY Copies DEF TypeOK, Damaged

-----------------------------------------------------------------------------
(* What the parts of a step do.                                            *)

LEMMA OkWrites ==
  ASSUME TypeOK, NEW s \in Seal, s.at \in Path, Ok(s)
  PROVE  /\ DOMAIN file' = Path
         /\ \A p \in Path : file'[p] \in Sealed \/ file'[p] \in {None, Torn}
         /\ file'[s.at] = [key |-> s.key, id |-> s.id]
         /\ \A p \in Path : p # s.at => file'[p] = file[p]
         /\ faults' \in 0 .. MaxFaults /\ damage' = damage
<1>1. [key |-> s.key, id |-> s.id] \in Sealed
  BY DEF Seal, Sealed
<1> QED BY <1>1 DEF TypeOK, Ok

LEMMA FailedSpoils ==
  ASSUME TypeOK, NEW s \in Seal, s.at \in Path, Failed(s)
  PROVE  /\ DOMAIN file' = Path
         /\ \A p \in Path : file'[p] \in Sealed \/ file'[p] \in {None, Torn}
         /\ \A p \in Path : p # s.at => file'[p] = file[p]
         /\ faults' \in 0 .. MaxFaults
         /\ s.at = "tee" =>
              damage' = IF "tee" \in lasting THEN 2 ELSE damage
         /\ s.at = "file" => damage' = IF damage = 0 THEN 1 ELSE 2
<1>1. "file" \in lasting
  BY DEF TypeOK, Path
<1>2. faults' \in 0 .. MaxFaults
  BY BootAssumption DEF TypeOK, Failed, Fault
<1>3. damage' = Damaged(Spoils(s.at))
  BY DEF Failed
<1>4. damage' = IF s.at = "tee" THEN IF "tee" \in lasting THEN 2 ELSE damage
                ELSE IF damage = 0 THEN 1 ELSE 2
  BY <1>1, <1>3, DamageCounts, Copies DEF Spoils, Path
<1>5. /\ DOMAIN file' = Path
      /\ \A p \in Path : file'[p] \in Sealed \/ file'[p] \in {None, Torn}
      /\ \A p \in Path : p # s.at => file'[p] = file[p]
  BY DEF TypeOK, Failed
<1> QED BY <1>2, <1>4, <1>5

\* A new call of seal() with the key in memory.
LEMMA BeginIs ==
  ASSUME TypeOK, NEW k \in Key, NEW w \in {"boot", "received", "rotated"}
  PROVE  /\ Begin(k, w) \in Seal
         /\ Begin(k, w).at = "tee" /\ Begin(k, w).why = w
         /\ Begin(k, w).key = k
         /\ idFile \in Id => Begin(k, w).id = idFile
BY DEF TypeOK, Begin, Seal, InstanceId, Path

LEMMA SubsetsOfPath ==
  ASSUME NEW S \in SUBSET Path
  PROVE  /\ Cardinality(S) \in 0 .. 2
         /\ S = {} => Cardinality(S) = 0
         /\ \A p \in Path : S = {p} => Cardinality(S) = 1
<1>1. /\ Cardinality({}) = 0
      /\ Cardinality({"tee"}) = 1 /\ Cardinality({"file"}) = 1
  BY FS_EmptySet, FS_Singleton
<1>2. S = {} \/ S = {"tee"} \/ S = {"file"} \/ S = Path
  BY DEF Path
<1>3. \A p \in Path : p = "tee" \/ p = "file"
  BY DEF Path
<1> QED BY <1>1, <1>2, <1>3, Copies

-----------------------------------------------------------------------------
(* One lemma per action.                                                   *)

LEMMA StartKeeps ==
  ASSUME TypeOK, IInv, Start
  PROVE  TypeOK' /\ IInv'
<1>0. /\ Damaged(0) = damage
      /\ Damaged(2) = 2
      /\ Cardinality(Path) = 2
      /\ damage \in 0 .. 2
      /\ MaxFaults \in Nat /\ None \notin Key
  BY DamageCounts, Copies, BootAssumption DEF TypeOK
<1>1. TypeOK'
  <2>1. faults' \in 0 .. MaxFaults /\ damage' \in 0 .. 2 /\ minted' \in Nat
    BY <1>0 DEF TypeOK, Start, historyVars
  <2>2. seals' \subseteq Seal
    BY <1>0 DEF TypeOK, Start
  <2> QED BY <1>0, <2>1, <2>2 DEF TypeOK, Start, BootStep, rowVars, memoryVars,
             historyVars
<1>2. Identified'
  BY DEF IInv, Start, Loaded, historyVars, Identified
<1>3. Placed'
  BY DEF IInv, Start, Loaded, Placed
<1>4. Sealing'
  BY DEF IInv, Start, historyVars, Sealing
<1>5. Custody'
  BY DEF IInv, Start, InstanceId, Opens, historyVars, Identified, Custody, Good,
     Intact
<1>6. Wiped'
  BY DEF IInv, Start, Wiped
<1>7. InMemory'
  BY DEF Start, Loaded, InMemory, Intact
<1> QED BY <1>1, <1>2, <1>3, <1>4, <1>5, <1>6, <1>7 DEF IInv

LEMMA LoadTeeKeeps ==
  ASSUME TypeOK, IInv, LoadTee
  PROVE  TypeOK' /\ IInv'
<1>0. /\ Damaged(0) = damage
      /\ Damaged(2) = 2
      /\ Cardinality(Path) = 2
      /\ damage \in 0 .. 2
      /\ MaxFaults \in Nat /\ None \notin Key /\ None \notin Sealed
  BY DamageCounts, Copies, BootAssumption DEF TypeOK, Sealed
<1>1. TypeOK'
  <2>1. faults' \in 0 .. MaxFaults /\ damage' \in 0 .. 2 /\ minted' \in Nat
    BY <1>0 DEF TypeOK, LoadTee, Fault, IdStored, LoadFrom
  <2>2. seals' \subseteq Seal
    BY <1>0 DEF TypeOK, LoadTee, LoadFrom
  <2> QED BY <1>0, <2>1, <2>2 DEF TypeOK, LoadTee, BootStep, IdStored,
             InstanceId, Opens, rowVars, memoryVars, Sealed, LoadFrom
<1>2. Identified'
  BY <1>0 DEF IInv, LoadTee, IdStored, InstanceId, Loaded, LoadFrom, Identified
<1>3. Placed'
  BY <1>0 DEF IInv, LoadTee, Opens, Loaded, Placed, Sealed, LoadFrom
<1>4. Sealing'
  BY DEF IInv, LoadTee, Placed, LoadFrom, Sealing
<1>5. Custody'
  BY <1>0 DEF IInv, LoadTee, IdStored, InstanceId, Opens, LoadFrom, Custody,
     Good, Intact
<1>6. Wiped'
  BY <1>0 DEF LoadTee, LoadFrom, Wiped
<1>7. InMemory'
  <2>1. CASE Opens("tee")
    <3>1. Intact' => Intact
      BY <1>0 DEF LoadTee, LoadFrom, Intact, IdStored
    <3>2. file["tee"] # None
      BY <2>1, <1>0 DEF Opens, LoadTee
    <3>3. Intact => file["tee"].key \in kept
      BY <2>1, <3>2 DEF IInv, Custody, Wiped, LoadTee, LoadFrom, Good
    <3> QED BY <2>1, <3>1, <3>3 DEF LoadTee, LoadFrom, InMemory
  <2>2. CASE ~Opens("tee")
    BY <2>2 DEF LoadTee, LoadFrom, InMemory, Loaded
  <2> QED BY <2>1, <2>2
<1> QED BY <1>1, <1>2, <1>3, <1>4, <1>5, <1>6, <1>7 DEF IInv

LEMMA LoadFileKeeps ==
  ASSUME TypeOK, IInv, LoadFile
  PROVE  TypeOK' /\ IInv'
<1>0. /\ Damaged(0) = damage
      /\ Damaged(2) = 2
      /\ Cardinality(Path) = 2
      /\ damage \in 0 .. 2
      /\ MaxFaults \in Nat /\ None \notin Key
  BY DamageCounts, Copies, BootAssumption DEF TypeOK
<1>1. TypeOK'
  <2>1. faults' \in 0 .. MaxFaults /\ damage' \in 0 .. 2 /\ minted' \in Nat
    BY <1>0 DEF TypeOK, LoadFile, Fault, IdStored, LoadFrom
  <2>2. seals' \subseteq Seal
    BY <1>0 DEF TypeOK, LoadFile, LoadFrom
  <2> QED BY <1>0, <2>1, <2>2 DEF TypeOK, LoadFile, BootStep, IdStored,
             InstanceId, Opens, NewKey, rowVars, memoryVars, Sealed, LoadFrom
<1>2. Identified'
  BY <1>0 DEF IInv, LoadFile, IdStored, InstanceId, LoadFrom, Identified
<1>3. Placed'
  BY <1>0 DEF IInv, LoadFile, Opens, NewKey, Placed, Sealed, LoadFrom
<1>4. Sealing'
  BY DEF IInv, LoadFile, Placed, LoadFrom, Sealing
<1>5. Custody'
  BY <1>0 DEF IInv, LoadFile, IdStored, InstanceId, Opens, LoadFrom, Custody,
     Good, Intact
<1>6. Wiped'
  BY <1>0 DEF LoadFile, LoadFrom, Wiped
<1>7. InMemory'
  BY <1>0 DEF IInv, LoadFile, IdStored, LoadFrom, Custody, Good, InMemory,
     Intact
<1> QED BY <1>1, <1>2, <1>3, <1>4, <1>5, <1>6, <1>7 DEF IInv

LEMMA IdentifyKeeps ==
  ASSUME TypeOK, IInv, Identify
  PROVE  TypeOK' /\ IInv'
<1>0. /\ Damaged(0) = damage
      /\ Damaged(2) = 2
      /\ Cardinality(Path) = 2
      /\ damage \in 0 .. 2
      /\ MaxFaults \in Nat /\ None \notin Key
  BY DamageCounts, Copies, BootAssumption DEF TypeOK
<1>1. TypeOK'
  <2>1. faults' \in 0 .. MaxFaults /\ damage' \in 0 .. 2 /\ minted' \in Nat
    BY <1>0 DEF TypeOK, Identify, Fault, IdStored
  <2>2. seals' \subseteq Seal
    BY <1>0 DEF TypeOK, Identify
  <2> QED BY <1>0, <2>1, <2>2 DEF TypeOK, Identify, BootStep, IdStored,
             InstanceId, rowVars, memoryVars
<1>2. Identified'
  BY <1>0 DEF TypeOK, Identify, IdStored, InstanceId, Identified
<1>3. Placed'
  BY <1>0 DEF IInv, Identify, Loaded, Placed
<1>4. Sealing'
  BY DEF IInv, Identify, Placed, Sealing
<1>5. Custody'
  BY <1>0 DEF IInv, Identify, IdStored, InstanceId, Opens, Custody, Good, Intact
<1>6. Wiped'
  BY <1>0 DEF Identify, Wiped
<1>7. InMemory'
  BY <1>0 DEF IInv, Identify, IdStored, Loaded, InMemory, Intact
<1> QED BY <1>1, <1>2, <1>3, <1>4, <1>5, <1>6, <1>7 DEF IInv

LEMMA ResolveRoleKeeps ==
  ASSUME TypeOK, IInv, NEW r \in {"primary", "backup"}, ResolveRole(r)
  PROVE  TypeOK' /\ IInv'
<1>0. /\ Damaged(0) = damage
      /\ Damaged(2) = 2
      /\ Cardinality(Path) = 2
      /\ damage \in 0 .. 2
      /\ MaxFaults \in Nat /\ None \notin Key
  BY DamageCounts, Copies, BootAssumption DEF TypeOK
<1>1. TypeOK'
  <2>1. faults' \in 0 .. MaxFaults /\ damage' \in 0 .. 2 /\ minted' \in Nat
    BY <1>0 DEF TypeOK, ResolveRole, historyVars
  <2>2. seals' \subseteq Seal
    BY <1>0 DEF TypeOK, ResolveRole
  <2> QED BY <1>0, <2>1, <2>2 DEF TypeOK, ResolveRole, BootStep, rowVars,
             historyVars
<1>2. Identified'
  BY DEF IInv, ResolveRole, Loaded, historyVars, Identified
<1>3. Placed'
  BY DEF IInv, ResolveRole, Loaded, Placed
<1>4. Sealing'
  BY DEF IInv, ResolveRole, historyVars, Sealing
<1>5. Custody'
  BY DEF IInv, ResolveRole, InstanceId, Opens, historyVars, Custody, Good,
     Intact
<1>6. Wiped'
  BY DEF ResolveRole, Wiped
<1>7. InMemory'
  BY DEF IInv, ResolveRole, Loaded, historyVars, InMemory, Intact
<1> QED BY <1>1, <1>2, <1>3, <1>4, <1>5, <1>6, <1>7 DEF IInv

LEMMA ResolveWalletKeeps ==
  ASSUME TypeOK, IInv, ResolveWallet
  PROVE  TypeOK' /\ IInv'
<1>0. /\ Damaged(0) = damage
      /\ Damaged(2) = 2
      /\ Cardinality(Path) = 2
      /\ damage \in 0 .. 2
      /\ MaxFaults \in Nat /\ None \notin Key
  BY DamageCounts, Copies, BootAssumption DEF TypeOK
<1>1. TypeOK'
  <2>1. faults' \in 0 .. MaxFaults /\ damage' \in 0 .. 2 /\ minted' \in Nat
    BY <1>0 DEF TypeOK, ResolveWallet, historyVars
  <2>2. seals' \subseteq Seal
    BY <1>0 DEF TypeOK, ResolveWallet
  <2> QED BY <1>0, <2>1, <2>2 DEF TypeOK, ResolveWallet, BootStep, historyVars
<1>2. Identified'
  BY DEF IInv, ResolveWallet, Loaded, historyVars, Identified
<1>3. Placed'
  BY DEF IInv, ResolveWallet, Loaded, Placed
<1>4. Sealing'
  BY DEF IInv, ResolveWallet, historyVars, Sealing
<1>5. Custody'
  BY DEF IInv, ResolveWallet, InstanceId, Opens, historyVars, Custody, Good,
     Intact
<1>6. Wiped'
  BY DEF ResolveWallet, Wiped
<1>7. InMemory'
  BY DEF IInv, ResolveWallet, Loaded, historyVars, InMemory, Intact
<1> QED BY <1>1, <1>2, <1>3, <1>4, <1>5, <1>6, <1>7 DEF IInv

LEMMA RegisterKeeps ==
  ASSUME TypeOK, IInv, Register
  PROVE  TypeOK' /\ IInv'
<1>0. /\ Damaged(0) = damage
      /\ Damaged(2) = 2
      /\ Cardinality(Path) = 2
      /\ damage \in 0 .. 2
      /\ MaxFaults \in Nat /\ None \notin Key
  BY DamageCounts, Copies, BootAssumption DEF TypeOK
<1>1. TypeOK'
  <2>1. faults' \in 0 .. MaxFaults /\ damage' \in 0 .. 2 /\ minted' \in Nat
    BY <1>0 DEF TypeOK, Register, Fault, historyVars
  <2>2. seals' \subseteq Seal
    BY <1>0 DEF TypeOK, Register
  <2> QED BY <1>0, <2>1, <2>2 DEF TypeOK, Register, BootStep, rowVars,
             memoryVars, historyVars
<1>2. Identified'
  BY DEF IInv, Register, Loaded, historyVars, Identified
<1>3. Placed'
  BY DEF IInv, Register, Loaded, Placed
<1>4. Sealing'
  BY DEF IInv, Register, historyVars, Sealing
<1>5. Custody'
  BY DEF IInv, Register, InstanceId, Opens, historyVars, Custody, Good, Intact
<1>6. Wiped'
  BY DEF Register, Wiped
<1>7. InMemory'
  BY DEF IInv, Register, Loaded, historyVars, InMemory, Intact
<1> QED BY <1>1, <1>2, <1>3, <1>4, <1>5, <1>6, <1>7 DEF IInv

LEMMA ReceiptKeeps ==
  ASSUME TypeOK, IInv, Receipt
  PROVE  TypeOK' /\ IInv'
<1>0. /\ Damaged(0) = damage
      /\ Damaged(2) = 2
      /\ Cardinality(Path) = 2
      /\ damage \in 0 .. 2
      /\ MaxFaults \in Nat /\ None \notin Key
  BY DamageCounts, Copies, BootAssumption DEF TypeOK
<1>1. TypeOK'
  <2>1. faults' \in 0 .. MaxFaults /\ damage' \in 0 .. 2 /\ minted' \in Nat
    BY <1>0 DEF TypeOK, Receipt, Fault, historyVars
  <2>2. seals' \subseteq Seal
    BY <1>0 DEF TypeOK, Receipt
  <2> QED BY <1>0, <2>1, <2>2 DEF TypeOK, Receipt, BootStep, historyVars
<1>2. Identified'
  BY DEF IInv, Receipt, Loaded, historyVars, Identified
<1>3. Placed'
  BY DEF IInv, Receipt, Loaded, Placed
<1>4. Sealing'
  BY DEF IInv, Receipt, historyVars, Sealing
<1>5. Custody'
  BY DEF IInv, Receipt, InstanceId, Opens, historyVars, Custody, Good, Intact
<1>6. Wiped'
  BY DEF Receipt, Wiped
<1>7. InMemory'
  BY DEF IInv, Receipt, Loaded, historyVars, InMemory, Intact
<1> QED BY <1>1, <1>2, <1>3, <1>4, <1>5, <1>6, <1>7 DEF IInv

LEMMA SealAtBootKeeps ==
  ASSUME TypeOK, IInv, SealAtBoot
  PROVE  TypeOK' /\ IInv'
<1>0. /\ Damaged(0) = damage
      /\ Damaged(2) = 2
      /\ Cardinality(Path) = 2
      /\ damage \in 0 .. 2
      /\ MaxFaults \in Nat /\ None \notin Key
  BY DamageCounts, Copies, BootAssumption DEF TypeOK
<1>1. TypeOK'
  <2>1. faults' \in 0 .. MaxFaults /\ damage' \in 0 .. 2 /\ minted' \in Nat
    BY <1>0 DEF TypeOK, SealAtBoot, Fault, IdStored
  <2>2. seals' \subseteq Seal
    BY <1>0 DEF TypeOK, SealAtBoot, IInv, Seal, InstanceId, Begin, Loaded, Path,
       Placed
  <2> QED BY <1>0, <2>1, <2>2 DEF IInv, TypeOK, SealAtBoot, BootStep, IdStored,
             InstanceId, KeptDuring, Loaded, rowVars, memoryVars, Placed
<1>2. Identified'
  BY <1>0 DEF TypeOK, SealAtBoot, IdStored, InstanceId, Identified
<1>3. Placed'
  BY <1>0 DEF IInv, SealAtBoot, Begin, Loaded, Placed
<1>4. Sealing'
  BY <1>0 DEF SealAtBoot, IdStored, Begin, Sealing
<1>5. Custody'
  BY <1>0 DEF IInv, SealAtBoot, IdStored, InstanceId, Opens, KeptDuring,
     Custody, Good, Intact
<1>6. Wiped'
  BY <1>0 DEF SealAtBoot, Wiped
<1>7. InMemory'
  BY DEF SealAtBoot, KeptDuring, InMemory, Intact
<1> QED BY <1>1, <1>2, <1>3, <1>4, <1>5, <1>6, <1>7 DEF IInv

LEMMA ReceiveKeeps ==
  ASSUME TypeOK, IInv, Receive
  PROVE  TypeOK' /\ IInv'
<1>0. /\ Damaged(0) = damage
      /\ Damaged(2) = 2
      /\ Cardinality(Path) = 2
      /\ damage \in 0 .. 2
      /\ MaxFaults \in Nat /\ None \notin Key
  BY DamageCounts, Copies, BootAssumption DEF TypeOK
<1>a. key' \in Key
  BY DEF Receive, NewKey
<1>b. /\ Begin(key', "received") \in Seal
      /\ Begin(key', "received").at = "tee"
      /\ Begin(key', "received").why = "received"
      /\ Begin(key', "received").key = key'
      /\ idFile \in Id => Begin(key', "received").id = idFile
  BY <1>a, BeginIs
<1>1. TypeOK'
  <2>1. faults' \in 0 .. MaxFaults /\ damage' \in 0 .. 2 /\ minted' \in Nat
    BY <1>0, <1>b DEF TypeOK, Receive, Overlap
  <2>2. seals' \subseteq Seal
    BY <1>0, <1>b DEF TypeOK, Receive
  <2> QED BY <1>0, <1>b, <2>1, <2>2 DEF TypeOK, Receive, NewKey, rowVars,
             memoryVars
<1>2. Identified'
  BY <1>0 DEF IInv, Receive, Loaded, Overlap, Identified
<1>3. Placed'
  BY <1>0 DEF IInv, Receive, NewKey, Begin, Placed
<1>4. Sealing'
  <2>1. CASE \E z \in seals : z.at \in Path
    BY <1>0, <2>1 DEF Receive, Overlap, Sealing
  <2>2. CASE ~\E z \in seals : z.at \in Path
    <3>1. damage < 2 => idFile \in Id
      BY DEF IInv, Receive, Identified, Loaded
    <3> QED BY <1>0, <1>b, <2>2, <3>1 DEF Receive, Sealing, Overlap, IInv
  <2> QED BY <2>1, <2>2
<1>5. Custody'
  BY <1>0 DEF IInv, Receive, InstanceId, Opens, Overlap, Placed, Custody, Good,
     Intact
<1>6. Wiped'
  BY <1>0 DEF Receive, Overlap, Wiped
<1>7. InMemory'
  BY DEF Receive, InMemory, Intact
<1> QED BY <1>1, <1>2, <1>3, <1>4, <1>5, <1>6, <1>7 DEF IInv

LEMMA StopKeeps ==
  ASSUME TypeOK, IInv, Stop
  PROVE  TypeOK' /\ IInv'
<1>0. /\ Damaged(0) = damage
      /\ Damaged(2) = 2
      /\ Cardinality(Path) = 2
      /\ damage \in 0 .. 2
      /\ MaxFaults \in Nat /\ None \notin Key
  BY DamageCounts, Copies, BootAssumption DEF TypeOK
<1>1. TypeOK'
  <2>1. faults' \in 0 .. MaxFaults /\ damage' \in 0 .. 2 /\ minted' \in Nat
    BY <1>0 DEF TypeOK, Stop, Ended
  <2>2. seals' \subseteq Seal
    BY <1>0 DEF Stop, Ended
  <2> QED BY <1>0, <2>1, <2>2 DEF TypeOK, Stop, Ended, rowVars
<1>2. Identified'
  BY DEF IInv, Stop, Ended, Loaded, Identified
<1>3. Placed'
  BY DEF Stop, Ended, Loaded, Placed
<1>4. Sealing'
  BY DEF Stop, Ended, Sealing
<1>5. Custody'
  BY DEF IInv, TypeOK, Stop, InstanceId, Opens, Ended, Path, Custody, Good,
     Intact
<1>6. Wiped'
  BY DEF Stop, Ended, Path, Wiped
<1>7. InMemory'
  BY DEF Stop, Ended, Loaded, InMemory
<1> QED BY <1>1, <1>2, <1>3, <1>4, <1>5, <1>6, <1>7 DEF IInv

LEMMA WriteTeeKeeps ==
  ASSUME TypeOK, IInv, NEW s \in seals, WriteTee(s)
  PROVE  TypeOK' /\ IInv'
<1>0. /\ Damaged(0) = damage
      /\ Damaged(2) = 2
      /\ Cardinality(Path) = 2
      /\ damage \in 0 .. 2
      /\ MaxFaults \in Nat /\ None \notin Key
  BY DamageCounts, Copies, BootAssumption DEF TypeOK
<1> DEFINE t(ok) == [s EXCEPT !.at = "file", !.wrote = ok]
<1>a. PICK ok \in BOOLEAN : /\ IF ok THEN Ok(s) ELSE Failed(s)
                            /\ seals' = (seals \ {s}) \cup {t(ok)}
  BY DEF WriteTee
<1>b. s \in Seal /\ s.at = "tee" /\ s.at \in Path
  BY DEF TypeOK, WriteTee, Path
<1>c. /\ t(ok) \in Seal /\ t(ok).at = "file" /\ t(ok).wrote = ok
      /\ t(ok).key = s.key /\ t(ok).id = s.id /\ t(ok).why = s.why
  BY <1>b DEF Seal, Path
<1>d. /\ DOMAIN file' = Path
      /\ \A p \in Path : file'[p] \in Sealed \/ file'[p] \in {None, Torn}
      /\ file'["file"] = file["file"]
      /\ ok => file'["tee"] = [key |-> s.key, id |-> s.id] /\ damage' = damage
      /\ ~ok => damage' = IF "tee" \in lasting THEN 2 ELSE damage
      /\ faults' \in 0 .. MaxFaults
  BY <1>a, <1>b, OkWrites, FailedSpoils DEF Path
<1> HIDE DEF t
<1>1. TypeOK'
  <2>1. faults' \in 0 .. MaxFaults /\ damage' \in 0 .. 2 /\ minted' \in Nat
    BY <1>0, <1>a, <1>b, <1>c, <1>d DEF TypeOK, WriteTee
  <2>2. seals' \subseteq Seal
    BY <1>0, <1>a, <1>b, <1>c, <1>d DEF TypeOK, WriteTee
  <2> QED BY <1>0, <1>a, <1>b, <1>c, <1>d, <2>1, <2>2 DEF TypeOK, WriteTee,
             rowVars, memoryVars
<1>2. Identified'
  BY <1>0, <1>a, <1>b, <1>c, <1>d DEF IInv, WriteTee, Loaded, Identified
<1>3. Placed'
  BY <1>a, <1>b, <1>c, <1>d DEF IInv, WriteTee, Loaded, Placed
<1>4. Sealing'
  BY <1>a, <1>b, <1>c, <1>d DEF IInv, WriteTee, Path, Sealing
<1>5. Custody'
  BY <1>a, <1>b, <1>c, <1>d DEF IInv, WriteTee, InstanceId, Opens, Loaded,
     Placed, Sealed, Identified, Sealing, Custody, Good, InMemory, Intact
<1>6. Wiped'
  BY <1>a, <1>b, <1>c, <1>d DEF IInv, WriteTee, Placed, Wiped
<1>7. InMemory'
  BY <1>a, <1>b, <1>c, <1>d DEF IInv, WriteTee, Loaded, InMemory, Intact
<1> QED BY <1>1, <1>2, <1>3, <1>4, <1>5, <1>6, <1>7 DEF IInv

LEMMA WriteFileKeeps ==
  ASSUME TypeOK, IInv, NEW s \in seals, WriteFile(s)
  PROVE  TypeOK' /\ IInv'
<1>0. /\ Damaged(0) = damage
      /\ Damaged(2) = 2
      /\ Cardinality(Path) = 2
      /\ damage \in 0 .. 2
      /\ MaxFaults \in Nat /\ None \notin Key
  BY DamageCounts, Copies, BootAssumption DEF TypeOK
<1> DEFINE t == [s EXCEPT !.at = "applying"]
<1>b. s \in Seal /\ s.at = "file" /\ s.at \in Path /\ s.key \in Key
  BY DEF TypeOK, WriteFile, Seal
<1>c. /\ t \in Seal /\ t.at = "applying"
      /\ t.key = s.key /\ t.id = s.id /\ t.why = s.why
  BY <1>b DEF Seal
<1>d. /\ DOMAIN file' = Path
      /\ \A p \in Path : file'[p] \in Sealed \/ file'[p] \in {None, Torn}
      /\ file'["tee"] = file["tee"]
      /\ \/ file'["file"] = [key |-> s.key, id |-> s.id] /\ damage' = damage
         \/ damage' = IF damage = 0 THEN 1 ELSE 2
      /\ faults' \in 0 .. MaxFaults
  BY <1>b, OkWrites, FailedSpoils DEF Path, WriteFile
<1>e. \/ seals' = seals \ {s}
      \/ s.why = "received" /\ seals' = (seals \ {s}) \cup {t}
  BY DEF WriteFile, Continue, Seal, TypeOK
<1>f. /\ role' \in {"none", "primary", "backup"}
      /\ wallet' = wallet /\ token' = token
      /\ step' = IF s.why = "boot" THEN "serving" ELSE step
  BY <1>b DEF WriteFile, Continue, Seal, TypeOK, memoryVars
<1>g. /\ step \in {"sealing", "serving"} /\ step' \in {"sealing", "serving"}
      /\ kept' = {s.key}
      /\ UNCHANGED <<lasting, idFile, rowVars, key, source, minted>>
  BY <1>f DEF IInv, Placed, WriteFile
<1> HIDE DEF t
<1>1. TypeOK'
  <2>1. damage' \in 0 .. 2 /\ seals' \subseteq Seal
    BY <1>0, <1>b, <1>c, <1>d, <1>e, <1>f, <1>g DEF TypeOK
  <2> QED BY <1>0, <1>b, <1>c, <1>d, <1>e, <1>f, <1>g, <2>1 DEF TypeOK, rowVars,
             BootStep
<1>2. Identified'
  BY <1>0, <1>b, <1>c, <1>d, <1>e, <1>f, <1>g DEF IInv, Loaded, Identified
<1>3. Placed'
  BY <1>b, <1>c, <1>d, <1>e, <1>f, <1>g DEF IInv, Loaded, Placed
<1>4. Sealing'
  BY <1>b, <1>c, <1>d, <1>e, <1>f, <1>g DEF IInv, Sealing
<1>5. Custody'
  BY <1>b, <1>c, <1>d, <1>e, <1>f, <1>g DEF IInv, TypeOK, Loaded, Opens,
     InstanceId, Sealed, Path, Identified, Sealing, Custody, Good, Intact
<1>6. Wiped'
  BY <1>b, <1>c, <1>d, <1>e, <1>f, <1>g DEF TypeOK, Sealed, Path, Wiped
<1>7. InMemory'
  BY <1>b, <1>c, <1>d, <1>e, <1>f, <1>g DEF IInv, Sealing, InMemory, Intact
<1> QED BY <1>1, <1>2, <1>3, <1>4, <1>5, <1>6, <1>7 DEF IInv

LEMMA SealFailsKeeps ==
  ASSUME TypeOK, IInv, NEW s \in seals, SealFails(s)
  PROVE  TypeOK' /\ IInv'
<1>0. /\ Damaged(0) = damage
      /\ Damaged(2) = 2
      /\ Cardinality(Path) = 2
      /\ damage \in 0 .. 2
      /\ MaxFaults \in Nat /\ None \notin Key
  BY DamageCounts, Copies, BootAssumption DEF TypeOK
<1>b. s \in Seal /\ s.at = "file" /\ s.at \in Path /\ ~s.wrote
  BY DEF TypeOK, SealFails, Path
<1>c. /\ faults' \in 0 .. MaxFaults
      /\ damage' = IF damage = 0 THEN 1 ELSE 2
  <2>1. Spoils("file") = 1
    BY DEF Spoils, TypeOK, Path
  <2>2. DOMAIN file = Path
    BY DEF TypeOK
  <2> QED BY <1>0, <1>b, <2>1, FailedSpoils, DamageCounts DEF SealFails, Fault,
             TypeOK
<1>d. damage < 2 => "tee" \notin lasting
  BY <1>b DEF IInv, Sealing
<1>1. TypeOK'
  <2>1. CASE s.why = "boot"
    BY <1>0, <1>b, <1>c, <1>d, <2>1 DEF TypeOK, SealFails, Ended, rowVars
  <2>2. CASE s.why # "boot"
    <3>1. /\ DOMAIN file' = Path
          /\ \A p \in Path : file'[p] \in Sealed \/ file'[p] \in {None, Torn}
      BY <1>b, <2>2, FailedSpoils DEF SealFails
    <3> QED BY <1>0, <1>b, <1>c, <1>d, <2>2, <3>1 DEF TypeOK, SealFails, rowVars
  <2> QED BY <2>1, <2>2
<1>2. Identified'
  BY <1>0, <1>b, <1>c, <1>d DEF SealFails, Ended, IInv, Identified, Loaded
<1>3. Placed'
  BY <1>b, <1>c, <1>d DEF IInv, SealFails, Ended, Loaded, Placed
<1>4. Sealing'
  BY <1>b, <1>c, <1>d DEF SealFails, Ended, IInv, Sealing
<1>5. Custody'
  BY <1>b, <1>c, <1>d DEF SealFails, Ended, Custody, Intact
<1>6. Wiped'
  BY <1>b, <1>c, <1>d DEF IInv, SealFails, Ended, Path, Placed, Wiped
<1>7. InMemory'
  BY <1>b, <1>c, <1>d DEF SealFails, Ended, InMemory, Intact
<1> QED BY <1>1, <1>2, <1>3, <1>4, <1>5, <1>6, <1>7 DEF IInv

LEMMA TakeOverKeeps ==
  ASSUME TypeOK, IInv, NEW s \in seals, TakeOver(s)
  PROVE  TypeOK' /\ IInv'
<1>0. /\ Damaged(0) = damage
      /\ Damaged(2) = 2
      /\ Cardinality(Path) = 2
      /\ damage \in 0 .. 2
      /\ MaxFaults \in Nat /\ None \notin Key
  BY DamageCounts, Copies, BootAssumption DEF TypeOK
<1> DEFINE t == [s EXCEPT !.at = "rotating"]
<1>b. s \in Seal /\ s.at = "applying" /\ s.why = "received"
  BY DEF TypeOK, TakeOver, IInv, Placed
<1>c. /\ t \in Seal /\ t.at = "rotating"
      /\ t.key = s.key /\ t.id = s.id /\ t.why = s.why
  BY <1>b DEF Seal
<1>d. seals' = seals \ {s} \/ seals' = (seals \ {s}) \cup {t}
  BY DEF TakeOver
<1>e. UNCHANGED <<step, key, kept>>
  BY DEF TakeOver, historyVars
<1> HIDE DEF t
<1>1. TypeOK'
  <2>1. faults' \in 0 .. MaxFaults /\ damage' \in 0 .. 2 /\ minted' \in Nat
    BY <1>0, <1>b, <1>c, <1>d, <1>e DEF TypeOK, TakeOver, Fault, historyVars
  <2>2. seals' \subseteq Seal
    BY <1>0, <1>b, <1>c, <1>d, <1>e DEF TypeOK, TakeOver
  <2> QED BY <1>0, <1>b, <1>c, <1>d, <1>e, <2>1, <2>2 DEF TypeOK, TakeOver,
             rowVars
<1>2. Identified'
  BY <1>0, <1>b, <1>c, <1>d, <1>e DEF IInv, TakeOver, Loaded, historyVars,
     Identified
<1>3. Placed'
  BY <1>b, <1>c, <1>d, <1>e DEF IInv, Placed, Loaded
<1>4. Sealing'
  BY <1>b, <1>c, <1>d, <1>e DEF IInv, Sealing, TakeOver, Path, historyVars
<1>5. Custody'
  BY <1>b, <1>c, <1>d, <1>e DEF IInv, TakeOver, InstanceId, Opens, historyVars,
     Custody, Good, Intact
<1>6. Wiped'
  BY <1>b, <1>c, <1>d, <1>e DEF IInv, TakeOver, Wiped
<1>7. InMemory'
  BY <1>b, <1>c, <1>d, <1>e DEF IInv, TakeOver, Loaded, historyVars, InMemory,
     Intact
<1> QED BY <1>1, <1>2, <1>3, <1>4, <1>5, <1>6, <1>7 DEF IInv

LEMMA RotateKeeps ==
  ASSUME TypeOK, IInv, NEW s \in seals, Rotate(s)
  PROVE  TypeOK' /\ IInv'
<1>0. /\ Damaged(0) = damage
      /\ Damaged(2) = 2
      /\ Cardinality(Path) = 2
      /\ damage \in 0 .. 2
      /\ MaxFaults \in Nat /\ None \notin Key
  BY DamageCounts, Copies, BootAssumption DEF TypeOK
<1>a. key' \in Key
  BY DEF Rotate, NewKey
<1>b. /\ Begin(key', "rotated") \in Seal
      /\ Begin(key', "rotated").at = "tee"
      /\ Begin(key', "rotated").why = "rotated"
      /\ Begin(key', "rotated").key = key'
      /\ idFile \in Id => Begin(key', "rotated").id = idFile
  BY <1>a, BeginIs
<1>1. TypeOK'
  <2>1. faults' \in 0 .. MaxFaults /\ damage' \in 0 .. 2 /\ minted' \in Nat
    BY <1>0, <1>b DEF TypeOK, Rotate, Overlap
  <2>2. seals' \subseteq Seal
    BY <1>0, <1>b DEF TypeOK, Rotate
  <2> QED BY <1>0, <1>b, <2>1, <2>2 DEF TypeOK, Rotate, NewKey, rowVars,
             memoryVars
<1>2. Identified'
  BY <1>0 DEF IInv, Rotate, Overlap, Placed, Identified
<1>3. Placed'
  BY <1>0 DEF IInv, Rotate, NewKey, Begin, Placed
<1>4. Sealing'
  <2>1. CASE \E z \in seals : z.at \in Path
    BY <1>0, <2>1 DEF Rotate, Overlap, Sealing
  <2>2. CASE ~\E z \in seals : z.at \in Path
    <3>1. damage < 2 => idFile \in Id
      BY DEF IInv, Identified, Placed, Loaded
    <3> QED BY <1>0, <1>b, <2>2, <3>1 DEF Rotate, Sealing, Overlap, IInv
  <2> QED BY <2>1, <2>2
<1>5. Custody'
  BY <1>0 DEF IInv, Rotate, InstanceId, Opens, Overlap, Placed, Custody, Good,
     Intact
<1>6. Wiped'
  BY <1>0 DEF IInv, Rotate, Wiped
<1>7. InMemory'
  BY DEF Rotate, InMemory, Intact
<1> QED BY <1>1, <1>2, <1>3, <1>4, <1>5, <1>6, <1>7 DEF IInv

LEMMA CrashKeeps ==
  ASSUME TypeOK, IInv, Crash
  PROVE  TypeOK' /\ IInv'
<1>0. /\ Damaged(0) = damage
      /\ Damaged(2) = 2
      /\ Cardinality(Path) = 2
      /\ damage \in 0 .. 2
      /\ MaxFaults \in Nat /\ None \notin Key
  BY DamageCounts, Copies, BootAssumption DEF TypeOK
<1> DEFINE writing == {z.at : z \in seals} \cap Path
<1>a. PICK torn \in SUBSET writing :
        /\ Ended([p \in Path |-> IF p \in torn THEN Torn ELSE file[p]])
        /\ damage' = Damaged(Cardinality(torn \cap lasting))
  BY DEF Crash
<1>b. Cardinality(torn \cap lasting) \in 0 .. 2
  BY SubsetsOfPath DEF TypeOK
<1>c. damage' \in damage .. 2
  BY <1>0, <1>a, <1>b DEF Damaged
<1>d. torn \cap lasting = {} => damage' = damage
  BY <1>0, <1>a, SubsetsOfPath
<1>e. damage < 2 => \A p, q \in torn : p = q
  BY DEF IInv, Sealing
<1>f. torn \cap lasting # {} /\ damage' < 2 =>
        damage = 0 /\ damage' = 1 /\ \E p \in lasting : torn = {p}
  <2>1. ASSUME torn \cap lasting # {}, damage' < 2
        PROVE  damage = 0 /\ damage' = 1 /\ \E p \in lasting : torn = {p}
    <3>1. PICK p \in torn \cap lasting : TRUE
      BY <2>1
    <3>3. torn = {p} /\ p \in Path
      BY <1>0, <1>c, <1>e, <2>1, <3>1
    <3>2. Cardinality(torn \cap lasting) = 1
      <4>1. torn \cap lasting = {p}
        BY <3>1, <3>3
      <4> QED BY <3>3, <4>1, SubsetsOfPath
    <3> QED BY <1>0, <1>a, <2>1, <3>1, <3>2, <3>3, DamageCounts
  <2> QED BY <2>1
<1>g. /\ file' = [p \in Path |-> IF p \in lasting
                                 THEN IF p \in torn THEN Torn ELSE file[p]
                                 ELSE None]
      /\ seals' = {} /\ step' = "off"
      /\ UNCHANGED <<lasting, idFile, source, kept>>
  BY <1>a DEF Ended
<1>h. Torn \notin Sealed /\ lasting \subseteq Path /\ "file" \in lasting
  BY BootAssumption DEF Sealed, TypeOK, Path
<1> HIDE DEF writing
<1>1. TypeOK'
  <2>1. faults' \in 0 .. MaxFaults
    BY <1>0 DEF Crash, Fault, TypeOK
  <2> QED BY <1>0, <1>a, <1>c, <1>g, <2>1 DEF TypeOK, Ended, rowVars
<1>2. Identified'
  BY <1>0, <1>c, <1>g DEF IInv, Identified, Loaded
<1>3. Placed'
  BY <1>0 DEF Crash, Ended, Loaded, Placed
<1>4. Sealing'
  BY DEF Crash, Ended, Sealing
<1>5. Custody'
  <2>1. Intact' => Intact
    BY <1>0, <1>c, <1>g DEF Intact
  <2>2. \A p \in lasting : p \notin torn => file'[p] = file[p]
    BY <1>g, <1>h
  <2>3. \A p \in lasting : p \in torn => ~Opens(p)'
    BY <1>g, <1>h DEF Opens
  <2>4. InstanceId' = InstanceId
    BY <1>g DEF InstanceId
  <2>5. ASSUME NEW p \in lasting, p \notin torn
        PROVE  (Opens(p)' <=> Opens(p)) /\ (Good(p)' <=> Good(p))
    <3>1. file'[p] = file[p]
      BY <2>2, <2>5
    <3> QED BY <1>g, <2>4, <3>1 DEF Opens, Good
  <2>6. CASE torn \cap lasting = {}
    <3>1. \A p \in lasting : p \notin torn
      BY <2>6
    <3> QED BY <1>d, <1>g, <1>h, <2>1, <2>5, <2>6, <3>1 DEF IInv, Custody
  <2>7. CASE torn \cap lasting # {} /\ damage' < 2
    <3>1. PICK p \in lasting : torn = {p} /\ damage = 0 /\ damage' = 1
      BY <1>f, <2>7
    <3>2. Intact' => "tee" \in lasting /\ Good("tee") /\ Good("file")
      BY <1>g, <2>1, <3>1 DEF IInv, Custody, Intact
    <3>3. p = "tee" \/ p = "file"
      BY <1>h DEF Path
    <3>4. CASE p = "tee"
      BY <1>g, <1>h, <2>3, <2>5, <3>1, <3>2, <3>4 DEF Custody
    <3>5. CASE p = "file"
      BY <1>g, <1>h, <2>3, <2>5, <3>1, <3>2, <3>5 DEF Custody
    <3> QED BY <3>3, <3>4, <3>5
  <2>8. CASE ~(damage' < 2)
    BY <1>c, <2>8 DEF Custody, Intact
  <2> QED BY <2>6, <2>7, <2>8
<1>6. Wiped'
  BY DEF Crash, Ended, Path, Wiped
<1>7. InMemory'
  BY DEF Crash, Ended, Loaded, InMemory
<1> QED BY <1>1, <1>2, <1>3, <1>4, <1>5, <1>6, <1>7 DEF IInv

-----------------------------------------------------------------------------
(* The specification.                                                      *)

LEMMA NextKeeps == TypeOK /\ IInv /\ [Next]_vars => TypeOK' /\ IInv'
<1> SUFFICES ASSUME TypeOK, IInv, [Next]_vars
             PROVE  TypeOK' /\ IInv'
  OBVIOUS
<1>1. CASE Start \/ LoadTee \/ LoadFile \/ Identify
  BY <1>1, StartKeeps, LoadTeeKeeps, LoadFileKeeps, IdentifyKeeps
<1>2. CASE \E r \in {"primary", "backup"} : ResolveRole(r)
  BY <1>2, ResolveRoleKeeps
<1>3. CASE ResolveWallet \/ Register \/ Receipt \/ SealAtBoot
  BY <1>3, ResolveWalletKeeps, RegisterKeeps, ReceiptKeeps, SealAtBootKeeps
<1>4. CASE \E s \in seals : WriteTee(s) \/ WriteFile(s) \/ SealFails(s)
                            \/ TakeOver(s) \/ Rotate(s)
  BY <1>4, WriteTeeKeeps, WriteFileKeeps, SealFailsKeeps, TakeOverKeeps,
     RotateKeeps
<1>5. CASE Receive \/ Stop \/ Crash
  BY <1>5, ReceiveKeeps, StopKeeps, CrashKeeps
<1>6. CASE UNCHANGED vars
  <2>1. TypeOK'
    BY <1>6 DEF TypeOK, vars, rowVars, memoryVars, historyVars
  <2>2. Identified' /\ Placed' /\ Sealing' /\ Wiped'
    BY <1>6 DEF IInv, Identified, Placed, Sealing, Wiped, Loaded, vars,
       historyVars
  <2>3. Custody' /\ InMemory'
    BY <1>6 DEF IInv, Custody, InMemory, Intact, Good, Opens, InstanceId,
       Loaded, vars, historyVars
  <2> QED BY <2>1, <2>2, <2>3 DEF IInv
<1> QED BY <1>1, <1>2, <1>3, <1>4, <1>5, <1>6 DEF Next

\* Every value of the constants is allowed for, those that BootAssumption rules
\* out excepted.
LEMMA InvHolds == Spec => [](TypeOK /\ IInv)
<1>1. Init => TypeOK /\ IInv
  BY Copies, BootAssumption
     DEF Init, TypeOK, IInv, Identified, Placed, Sealing, Custody, Wiped,
         InMemory, Intact, Loaded, Path
<1> QED BY <1>1, NextKeeps, PTL DEF Spec

\* The files, rows and memory of an agent keep their shape over its lives.
THEOREM TypeCorrect == Spec => []TypeOK
BY InvHolds, PTL

\* KeyKept: fewer spoilt copies than lasting files never cost a sealed key.
THEOREM KeySurvives == Spec => []KeyKept
<1>1. TypeOK /\ IInv => KeyKept
  BY Spared DEF IInv, InMemory, KeyKept
<1> QED BY <1>1, InvHolds, PTL

-----------------------------------------------------------------------------
(* Registrations.  While no token is stored, every token the machine's     *)
(* wallet paid for has cost a fault, but for the one whose receipt is      *)
(* awaited.                                                                *)

Registering ==
  /\ step = "register" => tokenRow = "none"
  /\ step \in {"register", "receipt"} => wallet # "none"

Accounted ==
  /\ minted <= 1 + faults
  /\ tokenRow = "none" /\ step # "receipt" => minted <= faults

RInv == Registering /\ Accounted

\* Where nothing is registered, further faults leave more room.
LEMMA ElsewhereKeeps ==
  ASSUME TypeOK, RInv, minted' = minted, faults' \in {faults, faults + 1},
         step # "receipt", step' \notin {"register", "receipt"},
         tokenRow' = tokenRow \/ tokenRow' # "none"
  PROVE  RInv'
<1>1. PICK M \in Nat, F \in Nat, G \in Nat :
        M = minted /\ F = faults /\ G = faults' /\ (G = F \/ G = F + 1)
  BY BootAssumption DEF TypeOK
<1>2. F <= G
  BY <1>1
<1>3. 1 + F <= 1 + G
  BY <1>2
<1>4. M <= 1 + F /\ (tokenRow = "none" => M <= F)
  BY <1>1 DEF RInv, Accounted
<1>5. M <= 1 + G
  BY <1>3, <1>4
<1>6. tokenRow' = "none" => M <= G
  BY <1>2, <1>4
<1>7. Accounted'
  BY <1>1, <1>5, <1>6 DEF Accounted
<1> QED BY <1>7 DEF RInv, Registering

LEMMA RNextKeeps == TypeOK /\ IInv /\ RInv /\ [Next]_vars => RInv'
<1> SUFFICES ASSUME TypeOK, IInv, RInv, [Next]_vars
             PROVE  RInv'
  OBVIOUS
<1>0. /\ minted \in Nat /\ faults \in Nat
      /\ IdStored => faults' \in {faults, faults + 1}
      /\ Fault => faults' = faults + 1
  BY BootAssumption DEF TypeOK, IdStored, Fault
<1> USE DEF RInv, Registering, Accounted, rowVars, memoryVars, historyVars
<1>1. CASE Start \/ LoadTee \/ LoadFile
  <2>1. /\ UNCHANGED <<rowVars, memoryVars, minted>>
        /\ faults' \in {faults, faults + 1}
        /\ step' \notin {"register", "receipt"} /\ step # "receipt"
    BY <1>0, <1>1 DEF Start, LoadTee, LoadFile, LoadFrom
  <2> QED BY <2>1, ElsewhereKeeps
<1>2. CASE Identify \/ SealAtBoot \/ \E r \in {"primary", "backup"} : ResolveRole(r)
  <2>1. /\ UNCHANGED <<rowVars, minted>>
        /\ faults' \in {faults, faults + 1}
        /\ step' \notin {"register", "receipt"} /\ step # "receipt"
    BY <1>0, <1>2 DEF Identify, SealAtBoot, ResolveRole
  <2> QED BY <2>1, ElsewhereKeeps
<1>3. CASE ResolveWallet
  BY <1>0, <1>3 DEF ResolveWallet, TypeOK
<1>4. CASE Register
  BY <1>0, <1>4 DEF Register
<1>5. CASE Receipt
  BY <1>0, <1>5 DEF Receipt
<1>6. CASE \E s \in seals : WriteTee(s) \/ WriteFile(s) \/ SealFails(s)
                            \/ TakeOver(s) \/ Rotate(s)
  <2>1. PICK s \in seals : WriteTee(s) \/ WriteFile(s) \/ SealFails(s)
                           \/ TakeOver(s) \/ Rotate(s)
    BY <1>6
  <2>2. step \in {"sealing", "serving"}
    BY <2>1 DEF IInv, Placed
  <2>3. step' \in {"sealing", "serving", "off"} /\ minted' = minted
    BY <2>1, <2>2 DEF WriteTee, WriteFile, Continue, SealFails, Ended, TakeOver,
       Rotate, TypeOK, Seal
  <2>4. faults' \in {faults, faults + 1}
    BY <1>0, <2>1 DEF WriteTee, WriteFile, SealFails, TakeOver, Rotate, Ok, Failed
  <2>5. tokenRow' \in {tokenRow, "network"}
    BY <2>1 DEF WriteTee, WriteFile, SealFails, Ended, TakeOver, Rotate
  <2> QED BY <2>2, <2>3, <2>4, <2>5, ElsewhereKeeps
<1>7. CASE Receive \/ Stop
  <2>1. step = "serving" /\ step' \in {"off", "serving"}
        /\ UNCHANGED <<rowVars, minted, faults>>
    BY <1>7 DEF Receive, Stop, Ended
  <2> QED BY <2>1, ElsewhereKeeps
<1>8. CASE Crash
  <2>1. step' = "off" /\ UNCHANGED <<rowVars, minted>> /\ faults' = faults + 1
    BY <1>0, <1>8 DEF Crash, Ended
  <2> QED BY <1>0, <2>1
<1>9. CASE UNCHANGED vars
  BY <1>9 DEF vars
<1> QED BY <1>1, <1>2, <1>3, <1>4, <1>5, <1>6, <1>7, <1>8, <1>9 DEF Next

\* RegistrationsAreBounded: over any number of lives, crashes and take-overs, a
\* machine pays for one token and one more per fault.
THEOREM RegistrationsBounded == Spec => []RegistrationsAreBounded
<1>1. Init => RInv
  BY BootAssumption DEF Init, RInv, Registering, Accounted
<1>2. RInv => RegistrationsAreBounded
  BY DEF RInv, Accounted, RegistrationsAreBounded
<1> QED BY <1>1, <1>2, InvHolds, RNextKeeps, PTL DEF Spec

=============================================================================
