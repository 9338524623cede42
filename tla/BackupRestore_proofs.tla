------------------------ MODULE BackupRestore_proofs ------------------------
(***************************************************************************)
(* Machine-checked proofs about BackupRestore, with the installation of    *)
(* NodeConfig in it, for any set of addresses, any faults, any flaws of    *)
(* the archives that are offered and any bounds.                           *)
(*                                                                         *)
(* The inductive invariant RInv follows one node through its life.  As     *)
(* long as the files are not mixed, everything on the disk and in the      *)
(* running services stems from the one material that was drawn (NodeInv);  *)
(* an archive that is not mixed holds a whole node (ArchiveInv); and a     *)
(* restore knows at each step which files are already the archive's and    *)
(* which are still those it began with (RestoreInv).                       *)
(***************************************************************************)
EXTENDS BackupRestore, SequenceTheorems, TLAPS

Database == [exists : BOOLEAN, masters : SUBSET Nat, writes : 0..MaxWrites]
ControlFile == [key : Nat, host : Nat]
HysteriaFile == [api : Nat, obfs : Nat, page : Nat]
MaterialFile == [key : Nat, node : Nat, api : Nat, obfs : Nat, fits : BOOLEAN]
StateFile == [version : Nat, address : Nat]
PanelType == [key : Nat, host : Nat, master : Nat, api : Nat, obfs : Nat]

Contents == UNION {Database, Value, ControlFile, HysteriaFile, MaterialFile, StateFile}
Loaded == UNION {Nat, PanelType, HysteriaFile}

\* The files of a node.
DiskFields(d) ==
    /\ d.db \in Database /\ d.control \in ControlFile /\ d.gateway \in 0..6 /\ d.compose \in Nat
    /\ d.stack \in Nat
    /\ d.master \in Value /\ d.api \in Value /\ d.obfs \in Value
    /\ d.xray \in Nat /\ d.hysteria \in HysteriaFile /\ d.material \in MaterialFile
    /\ d.caddy \in Nat /\ d.state \in StateFile
PartTypes == [db |-> Database, control |-> ControlFile, gateway |-> 0..6, compose |-> Nat,
              stack |-> Nat,
              master |-> Value, api |-> Value, obfs |-> Value, xray |-> Nat,
              hysteria |-> HysteriaFile, material |-> MaterialFile, caddy |-> Nat,
              state |-> StateFile]
Disks == {d \in [Parts -> Contents] : DiskFields(d)}

LiveFields(l) ==
    /\ l.gateway \in 0..6 /\ l.control \in PanelType /\ l.xray \in Nat /\ l.hysteria \in HysteriaFile
Lives == {l \in [Services -> Loaded] : LiveFields(l)}

Archives == [data : Disks, members : SUBSET Parts, listed : BOOLEAN, sealed : BOOLEAN,
             mixed : BOOLEAN]

OpPCs == {"none", "snapshot", "create", "pack", "seal", "stop", "apply", "start", "health", "undo"}
BackupPCs == {"snapshot", "create", "pack", "seal"}
ReplacePCs == {"stop", "apply", "start", "health", "undo"}
OpType == [pc : OpPCs, db : Database, data : Disks, mixed : BOOLEAN, before : Disks,
           preimage : 0..MaxArchives, part : DOMAIN ApplyOrder, undo : BOOLEAN]
Outcomes == {"none", "saved", "failed", "rejected", "restored", "returned", "lost"}

ScalarInv ==
    /\ address \in Addresses /\ enabled \in BOOLEAN
    /\ lock \in {"none", "install", "backup", "restore"}
    /\ phase \in DOMAIN Following \cup {"none", "checks"}
    /\ draws \in Nat /\ faults \in 0..MaxFaults /\ rebuilds \in 0..MaxRebuilds
    /\ outcome \in Outcomes /\ mixed \in BOOLEAN

\* One operation at a time: the installation owns the lock while it is in a
\* phase, a backup or restore while it has a step to do.  Only a node that is not
\* installed is installed, only one that is installed is saved or restored.
LockInv ==
    /\ phase # "none" => lock = "install" /\ ~Installed
    /\ op.pc = "none" <=> op = NoOp
    /\ op.pc = "none" <=> lock \in {"none", "install"}
    /\ op.pc \in ReplacePCs => lock = "restore"
    /\ op.pc # "none" => Installed /\ outcome = "none"
    /\ mixed => Installed
    /\ Installed => disk.state = [version |-> Release, address |-> address]

\* The material on the disk, whatever node it is of, is one the renderer takes.
MaterialInv == disk.material = NoMaterial \/ ValidMaterial(disk.material)

-----------------------------------------------------------------------------
(* One node.                                                               *)

\* Every file is absent or made from the material, and the profiles are written
\* under the master key.
Stems(d) ==
    /\ d.material = NoMaterial =>
          /\ d.control = NoDisk.control /\ d.gateway = 0 /\ d.xray = 0 /\ d.hysteria = NoHysteria
    /\ d.material # NoMaterial =>
          /\ SecretFiles(d) /\ d.material.api = d.api /\ d.material.obfs = d.obfs
          /\ d.material.node = d.material.key
          /\ d.control \in {NoDisk.control, ControlConfig(d.material)}
          /\ d.gateway \in {0, GatewayConfig(d.material)}
          /\ d.xray \in {0, XrayConfig(d.material)}
          /\ d.hysteria \in {NoHysteria, HysteriaConfig(d.material)}
    /\ d.compose \in {0, Release} /\ d.stack \in {0, address}
    /\ \A m \in d.db.masters : m = d.master /\ m > 0

\* What control loads from the files of d.
Panel(d) == [key |-> d.material.key, host |-> address, master |-> d.master,
             api |-> d.api, obfs |-> d.obfs]

\* Every service is down or runs on the files of d.
Runs(l, d) ==
    /\ d.material = NoMaterial => l = Down
    /\ d.material # NoMaterial =>
          /\ l.control \in {NoControl, Panel(d)}
          /\ l.gateway \in {0, GatewayConfig(d.material)}
          /\ l.xray \in {0, XrayConfig(d.material)}
          /\ l.hysteria \in {NoHysteria, HysteriaConfig(d.material)}

NodeInv == ~mixed => Stems(disk) /\ Runs(live, disk)

-----------------------------------------------------------------------------
(* Archives and the restore.                                               *)

\* A whole node at the address that its own install.json names.
WholeAt(d, host) ==
    /\ d.control = [key |-> d.material.key, host |-> host] /\ d.xray = d.material.key
    /\ d.hysteria = HysteriaConfig(d.material) /\ d.gateway = d.hysteria.page
    /\ SecretFiles(d) /\ d.api = d.material.api /\ d.obfs = d.material.obfs
    /\ d.db.exists /\ Decrypts(d.db, d.master) /\ d.compose = Release
    /\ d.stack = host /\ d.caddy > 0

ArchiveOK(a) ==
    /\ ValidMaterial(a.data.material)
    /\ ~a.mixed => WholeAt(a.data, a.data.state.address)

ArchiveInv ==
    /\ \A i \in DOMAIN archives : ArchiveOK(archives[i])
    /\ op.pc \in {"snapshot", "create"} => Len(archives) < MaxArchives
    /\ op.pc \in {"pack", "seal"} => archives # <<>>
    /\ op.pc = "create" => op.db.exists /\ (~mixed => Decrypts(op.db, disk.master))

\* The files of a, the database apart, are those of b.
SameFiles(a, b) == \A p \in Parts \ {"db"} : a[p] = b[p]

\* What is to be applied fits the node.
TargetInv ==
    /\ ValidMaterial(op.data.material) /\ op.data.state = disk.state
    /\ ~op.mixed => WholeNode(op.data)

\* Until the services are stopped the files are those the restore began with; the
\* preimage has them from then on.
PreimageInv ==
    /\ op.pc \in BackupPCs \cup {"stop"} => ~op.undo /\ SameFiles(disk, op.before)
    /\ op.pc \in {"pack", "seal"} => SameFiles(archives[Len(archives)].data, op.before)
    /\ op.pc \in ReplacePCs =>
          op.preimage \in DOMAIN archives /\ SameFiles(archives[op.preimage].data, op.before)

\* While the files are replaced, a prefix of them is the new one and nothing runs.
ApplyInv ==
    op.pc = "apply" =>
        /\ live = Down
        /\ op.part > 1 => mixed
        /\ \A i \in 1..(op.part - 1) : disk[ApplyOrder[i]] = op.data[ApplyOrder[i]]
        /\ op.undo => SameFiles(op.data, op.before)

\* Afterwards all of them are, and the services have loaded them.
AppliedInv ==
    /\ op.pc \in {"start", "health"} /\ op.undo => SameFiles(disk, op.before)
    /\ op.pc \in {"start", "health"} /\ ~op.undo =>
          /\ SameFiles(disk, op.data)
          /\ op.data.db.masters \subseteq disk.db.masters /\ op.data.db.writes <= disk.db.writes
    /\ op.pc = "health" => live \in Starts(Services)
    /\ op.pc = "undo" => ~op.undo

RestoreInv ==
    /\ op.pc # "apply" => op.part = 1
    /\ lock = "restore" => TargetInv /\ PreimageInv /\ ApplyInv /\ AppliedInv

TypesInv ==
    /\ disk \in Disks /\ live \in Lives /\ op \in OpType
    /\ archives \in Seq(Archives) /\ Len(archives) <= MaxArchives

RInv == ScalarInv /\ TypesInv /\ LockInv /\ MaterialInv /\ NodeInv /\ ArchiveInv /\ RestoreInv

-----------------------------------------------------------------------------
(* The records.                                                            *)

USE NodeConstants, ArchiveConstants

\* The parts of a node, the services, and the steps of apply_payload.
LEMMA Names ==
    /\ Parts = {"db", "control", "gateway", "compose", "stack", "master", "api", "obfs",
                "xray", "hysteria", "material", "caddy", "state"}
    /\ Services = {"gateway", "control", "xray", "hysteria"}
    /\ DOMAIN ApplyOrder = 1..12 /\ Len(ApplyOrder) = 12
<1>1. Parts = {"db", "control", "gateway", "compose", "stack", "master", "api", "obfs",
                "xray", "hysteria", "material", "caddy", "state"}
  BY DEF Parts, NoDisk
<1>2. Services = {"gateway", "control", "xray", "hysteria"}
  BY DEF Services, Down
<1>3. DOMAIN ApplyOrder = 1..12 /\ Len(ApplyOrder) = 12
  BY DEF ApplyOrder
<1> QED BY <1>1, <1>2, <1>3

\* What is absent has a type, too.
LEMMA Absent ==
    /\ NoDatabase \in Database /\ NoHysteria \in HysteriaFile /\ NoMaterial \in MaterialFile
    /\ NoState \in StateFile /\ NoControl \in PanelType /\ [key |-> 0, host |-> 0] \in ControlFile
<1>1. NoDatabase \in Database
  BY DEF NoDatabase, Database
<1>2. NoHysteria \in HysteriaFile
  BY DEF NoHysteria, HysteriaFile
<1>3. NoMaterial \in MaterialFile
  BY DEF NoMaterial, MaterialFile
<1>4. NoState \in StateFile /\ NoControl \in PanelType /\ [key |-> 0, host |-> 0] \in ControlFile
  BY DEF NoState, StateFile, NoControl, PanelType, ControlFile
<1> QED BY <1>1, <1>2, <1>3, <1>4

\* Each part of a well-typed disk is something a file can hold.
LEMMA PartContents ==
    ASSUME NEW d, DiskFields(d)
    PROVE  \A p \in Parts : d[p] \in Contents
<1>1. 0..6 \subseteq Value /\ Nat \subseteq Value
  BY DEF Value
<1>2. /\ Database \subseteq Contents /\ Value \subseteq Contents /\ ControlFile \subseteq Contents
      /\ HysteriaFile \subseteq Contents /\ MaterialFile \subseteq Contents
      /\ StateFile \subseteq Contents
  BY Zenon DEF Contents
<1>3. \A p \in {"gateway", "compose", "stack", "xray", "caddy", "master", "api", "obfs"} : d[p] \in Contents
  BY <1>1, <1>2, Zenon DEF DiskFields
<1>4. \A p \in {"db", "control", "hysteria", "material", "state"} : d[p] \in Contents
  BY <1>2, Zenon DEF DiskFields
<1> QED BY <1>3, <1>4, Names, Zenon

\* An empty disk.
LEMMA NoDiskType == NoDisk \in Disks
<1>1. DiskFields(NoDisk)
  BY Absent DEF NoDisk, DiskFields, Value
<1>2. NoDisk \in [Parts -> Contents]
  <2>1. \A p \in Parts : NoDisk[p] \in Contents
    BY <1>1, PartContents, Zenon
  <2>2. NoDisk = [p \in Parts |-> NoDisk[p]]
    BY DEF NoDisk, Parts
  <2> QED BY <2>1, <2>2, Zenon
<1> QED BY <1>1, <1>2, Zenon DEF Disks

\* No service runs.
LEMMA DownType == Down \in Lives
<1>1. LiveFields(Down)
  BY Absent DEF Down, LiveFields
<1>2. Down \in [Services -> Loaded]
  <2>1. \A s \in Services : Down[s] \in Loaded
    BY <1>1, Names DEF LiveFields, Loaded
  <2>2. Down = [s \in Services |-> Down[s]]
    BY DEF Down, Services
  <2> QED BY <2>1, <2>2, Zenon
<1> QED BY <1>1, <1>2, Zenon DEF Lives

\* The type of a disk is that of each of its parts.
LEMMA FieldTypes ==
    ASSUME NEW d
    PROVE  DiskFields(d) <=> \A p \in Parts : d[p] \in PartTypes[p]
<1>1. /\ PartTypes.db = Database /\ PartTypes.control = ControlFile /\ PartTypes.gateway = 0..6
      /\ PartTypes.compose = Nat /\ PartTypes.stack = Nat /\ PartTypes.master = Value
      /\ PartTypes.api = Value
      /\ PartTypes.obfs = Value /\ PartTypes.xray = Nat /\ PartTypes.hysteria = HysteriaFile
      /\ PartTypes.material = MaterialFile /\ PartTypes.caddy = Nat /\ PartTypes.state = StateFile
  BY Zenon DEF PartTypes
<1>2. ASSUME DiskFields(d) PROVE \A p \in Parts : d[p] \in PartTypes[p]
  <2>1. \A p \in {"db", "control", "gateway", "compose", "stack"} : d[p] \in PartTypes[p]
    BY <1>1, <1>2, Zenon DEF DiskFields
  <2>2. \A p \in {"master", "api", "obfs", "xray"} : d[p] \in PartTypes[p]
    BY <1>1, <1>2, Zenon DEF DiskFields
  <2>3. \A p \in {"hysteria", "material", "caddy", "state"} : d[p] \in PartTypes[p]
    BY <1>1, <1>2, Zenon DEF DiskFields
  <2> QED BY <2>1, <2>2, <2>3, Names, Zenon
<1>3. ASSUME \A p \in Parts : d[p] \in PartTypes[p] PROVE DiskFields(d)
  BY <1>1, <1>3, Names, Zenon DEF DiskFields
<1> QED BY <1>2, <1>3

\* One file is replaced.
LEMMA DiskUpdate ==
    ASSUME NEW d \in Disks, NEW x \in Parts, NEW v, NEW e, e = [d EXCEPT ![x] = v]
    PROVE  /\ e[x] = v /\ \A y \in Parts \ {x} : e[y] = d[y]
           /\ v \in PartTypes[x] => e \in Disks
<1>1. d \in [Parts -> Contents]
  BY Zenon DEF Disks
<1>2. e[x] = v /\ \A y \in Parts \ {x} : e[y] = d[y]
  BY <1>1, Zenon
<1>3. ASSUME v \in PartTypes[x] PROVE e \in Disks
  <2>0. DiskFields(e)
    <3>1. \A y \in Parts : d[y] \in PartTypes[y]
      BY FieldTypes, Zenon DEF Disks
    <3> QED BY <1>2, <1>3, <3>1, FieldTypes, Zenon
  <2>1. e = [y \in Parts |-> e[y]]
    BY <1>1, Zenon
  <2>2. e \in [Parts -> Contents]
    BY <2>0, <2>1, PartContents, Zenon
  <2> QED BY <2>0, <2>2, Zenon DEF Disks
<1> QED BY <1>2, <1>3

\* The same, for a file of the right type.
LEMMA DiskPut == \A d \in Disks : \A x \in Parts : \A v \in PartTypes[x] : [d EXCEPT ![x] = v] \in Disks
BY DiskUpdate

\* Two disks with the same files are the same.
LEMMA DiskEqual ==
    ASSUME NEW d \in Disks, NEW e \in Disks, \A p \in Parts : d[p] = e[p]
    PROVE  d = e
BY SMTT(20) DEF Disks

\* One service is replaced.
LEMMA LiveUpdate ==
    ASSUME NEW l \in Lives, NEW x \in Services, NEW v, NEW e, e = [l EXCEPT ![x] = v]
    PROVE  /\ e[x] = v /\ \A y \in Services \ {x} : e[y] = l[y]
           /\ v \in Loaded /\ LiveFields(e) => e \in Lives
BY Zenon DEF Lives

\* The parts of a well-typed disk.
LEMMA DiskParts == \A d \in Disks : DiskFields(d)
BY Zenon DEF Disks

\* What the services load from a well-typed disk.
LEMMA StartedType ==
    ASSUME disk \in Disks, NEW S
    PROVE  Started(S) \in Lives
<1>0. DiskFields(disk)
  BY DiskParts
<1>1. Started(S).gateway \in 0..6 /\ Started(S).xray \in Nat /\ Started(S).hysteria \in HysteriaFile
  BY <1>0, Absent DEF Started, DiskFields
<1>2. ControlStarts(disk) => RuntimeApp \in PanelType
  BY <1>0, SMTT(20) DEF ControlStarts, SecretFiles, ReadSecret, RuntimeApp, PanelType, DiskFields, Value,
     ControlFile, Torn
<1>3. Started(S).control \in PanelType
  BY <1>2, Absent, Zenon DEF Started
<1>4. LiveFields(Started(S))
  BY <1>1, <1>3 DEF LiveFields
<1>5. \A s \in Services : Started(S)[s] \in Loaded
  BY <1>1, <1>3, Names DEF Loaded
<1>6. Started(S) = [s \in Services |-> Started(S)[s]]
  BY DEF Started, Services, Down
<1> QED BY <1>4, <1>5, <1>6, Zenon DEF Lives

-----------------------------------------------------------------------------
(* One node: what keeps its files and its services together.               *)

Secrets == {"master", "api", "obfs"}

\* A material the renderer takes is not an absent one.
LEMMA ValidIsPresent == \A m : ValidMaterial(m) => m # NoMaterial
BY DEF ValidMaterial, Key, NoMaterial

\* A secret is missing only before the material is drawn.
LEMMA MissingSecret ==
    ASSUME NEW d \in Disks, Stems(d), NEW s \in Secrets, d[s] = 0
    PROVE  d.material = NoMaterial
<1>1. ~(d[s] > 0)
  OBVIOUS
<1> QED BY <1>1, Zenon DEF Stems, SecretFiles, ReadSecret, Secrets

\* A missing secret is drawn or cut short.
LEMMA SecretKeepsNode ==
    ASSUME NEW d \in Disks, NEW l \in Lives, Stems(d), Runs(l, d), NEW s \in Secrets, d[s] = 0,
           NEW v, NEW e, e = [d EXCEPT ![s] = v]
    PROVE  Stems(e) /\ Runs(l, e)
<1>1. d.material = NoMaterial
  BY MissingSecret
<1>2. s \in Parts /\ \A y \in Parts \ Secrets : e[y] = d[y]
  BY DiskUpdate, Names DEF Secrets
<1>3. e.material = NoMaterial /\ e.control = d.control /\ e.gateway = d.gateway /\ e.xray = d.xray
      /\ e.hysteria = d.hysteria /\ e.compose = d.compose /\ e.stack = d.stack /\ e.db = d.db
  BY <1>1, <1>2, Names DEF Secrets
<1>4. \A m \in e.db.masters : m = e.master /\ m > 0
  <2>1. CASE s = "master"
    <3>1. d.db.masters = {}
      BY <2>1 DEF Stems
    <3> QED BY <1>3, <3>1
  <2>2. CASE s # "master"
    <3>1. e.master = d.master
      BY <1>2, <2>2, DiskUpdate, Names DEF Secrets
    <3> QED BY <1>3, <3>1 DEF Stems
  <2> QED BY <2>1, <2>2
<1>5. Stems(e)
  BY <1>1, <1>3, <1>4 DEF Stems
<1>6. Runs(l, e)
  BY <1>1, <1>3 DEF Runs
<1> QED BY <1>5, <1>6

\* The material is drawn from the secrets that are there.
LEMMA MaterialKeepsNode ==
    ASSUME NEW d \in Disks, NEW l \in Lives, Stems(d), Runs(l, d), d.material = NoMaterial,
           SecretFiles(d), NEW v, ValidMaterial(v), v.api = d.api, v.obfs = d.obfs,
           NEW e, e = [d EXCEPT !.material = v]
    PROVE  Stems(e) /\ Runs(l, e)
<1>1. "material" \in Parts /\ e.material = v /\ \A y \in Parts \ {"material"} : e[y] = d[y]
  BY DiskUpdate, Names
<1>2. v # NoMaterial /\ v.node = v.key
  BY ValidIsPresent, Zenon DEF ValidMaterial
<1>3. /\ e.control = NoDisk.control /\ e.gateway = 0 /\ e.xray = 0 /\ e.hysteria = NoHysteria
      /\ e.compose = d.compose /\ e.stack = d.stack /\ e.db = d.db
      /\ e.master = d.master /\ e.api = d.api /\ e.obfs = d.obfs
  BY <1>1, Names DEF Stems
<1>4. SecretFiles(e)
  BY <1>3, Zenon DEF SecretFiles
<1>5. Stems(e)
  BY <1>1, <1>2, <1>3, <1>4, Zenon DEF Stems
<1>6. l = Down
  BY DEF Runs
<1>7. l.control = NoControl /\ l.gateway = 0 /\ l.xray = 0 /\ l.hysteria = NoHysteria
  BY <1>6 DEF Down
<1> QED BY <1>1, <1>2, <1>5, <1>7, Zenon DEF Runs

\* A file is rendered from the material.
LEMMA RenderKeepsNode ==
    ASSUME NEW d \in Disks, NEW l \in Lives, Stems(d), Runs(l, d), d.material # NoMaterial,
           NEW x \in {"control", "gateway", "compose", "xray", "hysteria"},
           NEW e, e = [d EXCEPT ![x] = Rendered(d.material)[x]]
    PROVE  Stems(e) /\ Runs(l, e)
<1>0. x \in Parts
  BY Names, Zenon
<1>1. e[x] = Rendered(d.material)[x] /\ \A y \in Parts \ {x} : e[y] = d[y]
  BY <1>0, Zenon DEF Disks
<1>2. e.material = d.material /\ e.master = d.master /\ e.api = d.api /\ e.obfs = d.obfs /\ e.db = d.db
      /\ e.stack = d.stack
  BY <1>1, Names
<1>3. SecretFiles(e) /\ Panel(e) = Panel(d)
  BY <1>2, Zenon DEF SecretFiles, Stems, Panel
<1>4. e.control \in {NoDisk.control, ControlConfig(d.material)}
  <2>1. x = "control" => e.control = ControlConfig(d.material)
    BY <1>1 DEF Rendered
  <2>2. x # "control" => e.control = d.control
    BY <1>1, Names
  <2> QED BY <2>1, <2>2, Zenon DEF Stems
<1>5. e.gateway \in {0, GatewayConfig(d.material)}
  <2>1. x = "gateway" => e.gateway = GatewayConfig(d.material)
    BY <1>1 DEF Rendered
  <2>2. x # "gateway" => e.gateway = d.gateway
    BY <1>1, Names
  <2> QED BY <2>1, <2>2, Zenon DEF Stems
<1>6. e.xray \in {0, XrayConfig(d.material)}
  <2>1. x = "xray" => e.xray = XrayConfig(d.material)
    BY <1>1 DEF Rendered
  <2>2. x # "xray" => e.xray = d.xray
    BY <1>1, Names
  <2> QED BY <2>1, <2>2, Zenon DEF Stems
<1>7. e.hysteria \in {NoHysteria, HysteriaConfig(d.material)}
  <2>1. x = "hysteria" => e.hysteria = HysteriaConfig(d.material)
    BY <1>1 DEF Rendered
  <2>2. x # "hysteria" => e.hysteria = d.hysteria
    BY <1>1, Names
  <2> QED BY <2>1, <2>2, Zenon DEF Stems
<1>8. e.compose \in {0, Release}
  <2>1. x = "compose" => e.compose = Release
    BY <1>1 DEF Rendered
  <2>2. x # "compose" => e.compose = d.compose
    BY <1>1, Names
  <2> QED BY <2>1, <2>2, Zenon DEF Stems
<1>9. Stems(e)
  BY <1>2, <1>3, <1>4, <1>5, <1>6, <1>7, <1>8, Zenon DEF Stems
<1>10. Runs(l, e)
  BY <1>2, <1>3, Zenon DEF Runs
<1> QED BY <1>9, <1>10

\* The certificate and install.json belong to no other file.
LEMMA OtherKeepsNode ==
    ASSUME NEW d \in Disks, NEW l \in Lives, Stems(d), Runs(l, d), NEW x \in {"caddy", "state"},
           NEW v, NEW e, e = [d EXCEPT ![x] = v]
    PROVE  Stems(e) /\ Runs(l, e)
<1>1. x \in Parts /\ \A y \in Parts \ {"caddy", "state"} : e[y] = d[y]
  BY DiskUpdate, Names
<1>2. /\ e.material = d.material /\ e.master = d.master /\ e.api = d.api /\ e.obfs = d.obfs
      /\ e.db = d.db /\ e.control = d.control /\ e.gateway = d.gateway /\ e.xray = d.xray
      /\ e.hysteria = d.hysteria /\ e.compose = d.compose /\ e.stack = d.stack
  BY <1>1, Names
<1>3. (SecretFiles(d) => SecretFiles(e)) /\ Panel(e) = Panel(d)
  BY <1>2, Zenon DEF SecretFiles, Panel
<1> QED BY <1>2, <1>3, Zenon DEF Stems, Runs

\* stack.env has the address.
LEMMA StackKeepsNode ==
    ASSUME NEW d \in Disks, NEW l \in Lives, Stems(d), Runs(l, d),
           NEW e, e = [d EXCEPT !["stack"] = address]
    PROVE  Stems(e) /\ Runs(l, e)
<1>0. "stack" \in Parts
  BY Names
<1>1. e["stack"] = address /\ \A y \in Parts \ {"stack"} : e[y] = d[y]
  BY <1>0, DiskUpdate
<1>2. /\ e.material = d.material /\ e.master = d.master /\ e.api = d.api /\ e.obfs = d.obfs
      /\ e.db = d.db /\ e.control = d.control /\ e.gateway = d.gateway /\ e.xray = d.xray
      /\ e.hysteria = d.hysteria /\ e.compose = d.compose
  BY <1>1, Names
<1>3. (SecretFiles(d) => SecretFiles(e)) /\ Panel(e) = Panel(d)
  BY <1>2, Zenon DEF SecretFiles, Panel
<1> QED BY <1>1, <1>2, <1>3, Zenon DEF Stems, Runs

\* Profiles are stored under the master key.
LEMMA DatabaseKeepsNode ==
    ASSUME NEW d \in Disks, NEW l \in Lives, Stems(d), Runs(l, d),
           NEW v, \A m \in v.masters : m = d.master /\ m > 0, NEW e, e = [d EXCEPT !.db = v]
    PROVE  Stems(e) /\ Runs(l, e)
<1>1. "db" \in Parts /\ e.db = v /\ \A y \in Parts \ {"db"} : e[y] = d[y]
  BY DiskUpdate, Names
<1>2. /\ e.material = d.material /\ e.master = d.master /\ e.api = d.api /\ e.obfs = d.obfs
      /\ e.control = d.control /\ e.gateway = d.gateway /\ e.xray = d.xray
      /\ e.hysteria = d.hysteria /\ e.compose = d.compose /\ e.stack = d.stack
  BY <1>1, Names
<1>3. (SecretFiles(d) => SecretFiles(e)) /\ Panel(e) = Panel(d)
  BY <1>2, Zenon DEF SecretFiles, Panel
<1> QED BY <1>1, <1>2, <1>3, Zenon DEF Stems, Runs

\* The services that start run on the files.
LEMMA StartedRuns ==
    ASSUME disk \in Disks, Stems(disk), NEW S
    PROVE  Runs(Started(S), disk)
<1>0. DiskFields(disk)
  BY DiskParts
<1>1. ControlStarts(disk) => disk.control # NoDisk.control
  BY DEF ControlStarts, LoadSettings, NoDisk
<1>2. CASE disk.material = NoMaterial
  <2>1. ~ControlStarts(disk) /\ disk.gateway = 0 /\ disk.xray = 0
    BY <1>1, <1>2, Zenon DEF Stems
  <2>2. Started(S) = Down
    <3>1. /\ Started(S).gateway = 0 /\ Started(S).control = NoControl /\ Started(S).xray = 0
          /\ Started(S).hysteria = NoHysteria
      BY <2>1, Zenon DEF Started
    <3> QED BY <2>1 DEF Started, Down
  <2> QED BY <1>2, <2>2, Zenon DEF Runs
<1>3. CASE disk.material # NoMaterial
  <2>1. ControlStarts(disk) => RuntimeApp = Panel(disk)
    <3>1. ASSUME ControlStarts(disk) PROVE disk.control = ControlConfig(disk.material)
      BY <1>1, <1>3, <3>1, Zenon DEF Stems
    <3>2. disk.material.node = disk.material.key
      BY <1>3, Zenon DEF Stems
    <3> QED BY <3>1, <3>2 DEF RuntimeApp, Panel, ControlConfig
  <2>2. Started(S).control \in {NoControl, Panel(disk)}
    BY <2>1, Zenon DEF Started
  <2>3. Started(S).gateway \in {0, GatewayConfig(disk.material)}
    BY <1>3, Zenon DEF Started, Stems
  <2>4. Started(S).xray \in {0, XrayConfig(disk.material)}
    BY <1>3, Zenon DEF Started, Stems
  <2>5. Started(S).hysteria \in {NoHysteria, HysteriaConfig(disk.material)}
    BY <1>3, Zenon DEF Started, Stems
  <2> QED BY <1>3, <2>2, <2>3, <2>4, <2>5, Zenon DEF Runs
<1> QED BY <1>2, <1>3

\* A stopped stack runs on any files.
LEMMA DownRuns == \A d : Runs(Down, d)
BY Zenon DEF Runs, Down

-----------------------------------------------------------------------------
(* The installation.                                                       *)

\* configure.sh draws no limit that render_config refuses ...
LEMMA LimitsAgree == \A l \in FallbackLimits : Limits(l)
<1> SUFFICES ASSUME NEW l \in FallbackLimits PROVE Limits(l)
  OBVIOUS
<1>1. PICK r \in Multiples :
        l \in [after : {16 * i : i \in Multiples}, rate : {r}, burst : r..Min({256, 4 * r})]
  BY DEF FallbackLimits
<1>2. Min({256, 4 * r}) \in Int /\ Min({256, 4 * r}) <= 256
  <2>1. \E x \in {256, 4 * r} : \A y \in {256, 4 * r} : x <= y
    OBVIOUS
  <2>2. Min({256, 4 * r}) \in {256, 4 * r}
    BY <2>1 DEF Min
  <2> QED BY <2>2
<1>3. l.rate = r /\ l.burst \in r..Min({256, 4 * r})
  BY <1>1
<1>4. PICK i \in Multiples : l.after = 16 * i
  BY <1>1
<1> QED BY <1>2, <1>3, <1>4 DEF Limits

\* ... and no pair, because it draws again while the two are the same.
LEMMA PairsAgree == \A fits \in DrawnLimitsFit : fits = TRUE
<1> SUFFICES ASSUME NEW fits \in DrawnLimitsFit PROVE fits = TRUE
  OBVIOUS
<1>1. PICK pair \in DrawnPairs : fits = AcceptsLimits(pair)
  BY Zenon DEF DrawnLimitsFit
<1>2. pair[1] \in FallbackLimits /\ pair[2] \in FallbackLimits /\ pair[1] # pair[2]
  BY DEF DrawnPairs
<1>3. AcceptsLimits(pair)
  BY <1>2, LimitsAgree, Zenon DEF AcceptsLimits
<1>4. fits \in BOOLEAN /\ (fits <=> AcceptsLimits(pair))
  BY <1>1, Zenon DEF AcceptsLimits
<1> QED BY <1>3, <1>4, Zenon

\* What the installation leaves to be shown of a step of its own: the rest of the
\* state belongs to backup and restore.
LEMMA InstallFrame ==
    ASSUME RInv, op.pc = "none", UNCHANGED restoreVars, ScalarInv', disk' \in Disks, live' \in Lives,
           MaterialInv', NodeInv', lock' \in {"none", "install"},
           phase' # "none" => lock' = "install" /\ ~Installed', mixed => Installed',
           Installed' => (disk.state = [version |-> Release, address |-> address])'
    PROVE  RInv'
<1>1. archives' = archives /\ op' = op /\ outcome' = outcome /\ mixed' = mixed
  BY DEF restoreVars
<1>2. TypesInv'
  BY <1>1, Zenon DEF RInv, TypesInv
<1>3. LockInv'
  BY <1>1 DEF RInv, LockInv, ReplacePCs
<1>4. ArchiveInv'
  BY <1>1 DEF RInv, ArchiveInv, ArchiveOK, ValidMaterial, WholeAt, HysteriaConfig
<1>5. RestoreInv'
  BY <1>1 DEF RInv, RestoreInv
<1> QED BY <1>2, <1>3, <1>4, <1>5 DEF RInv

\* The state an installation starts and works in.
LEMMA InstallBegins ==
    ASSUME RInv, InstallStart \/ phase # "none"
    PROVE  /\ op.pc = "none" /\ lock \in {"none", "install"} /\ ~Installed /\ ~mixed
           /\ Stems(disk) /\ Runs(live, disk) /\ disk \in Disks /\ live \in Lives
           /\ DiskFields(disk)
<1>1. ~Installed /\ lock \in {"none", "install"}
  BY Zenon DEF InstallStart, RInv, LockInv
<1>2. op.pc = "none" /\ ~mixed
  BY <1>1, Zenon DEF RInv, LockInv
<1> QED BY <1>1, <1>2, DiskParts, Zenon DEF RInv, TypesInv, NodeInv

\* The address is all that the node's files are measured by.
LEMMA NodePrimed ==
    ASSUME address' = address, Stems(disk'), Runs(live', disk')
    PROVE  NodeInv'
<1>1. \A m : ControlConfig(m)' = ControlConfig(m)
  BY Zenon DEF ControlConfig
<1>2. Stems(disk)'
  BY <1>1, Zenon DEF Stems, ControlConfig, HysteriaConfig, GatewayConfig, XrayConfig, SecretFiles
<1>3. Runs(live, disk)'
  BY Zenon DEF Runs, Panel, HysteriaConfig, GatewayConfig, XrayConfig
<1> QED BY <1>2, <1>3, Zenon DEF NodeInv

\* A step that succeeds goes on to the next one.
LEMMA ProceedFrame ==
    ASSUME RInv, phase \in DOMAIN Following, Proceed, UNCHANGED restoreVars, draws' \in Nat,
           disk' \in Disks, live' \in Lives, disk'.state = disk.state,
           MaterialInv', Stems(disk'), Runs(live', disk')
    PROVE  RInv'
<1>1. phase # "none"
  BY DEF Following
<1>2. op.pc = "none" /\ ~Installed /\ ~mixed /\ lock = "install"
  BY <1>1, InstallBegins, Zenon DEF RInv, LockInv
<1>3. UNCHANGED <<address, enabled, lock, rebuilds, faults, outcome, mixed>>
  BY Zenon DEF Proceed, NoFault, restoreVars
<1>4. phase' \in DOMAIN Following \cup {"none", "checks"}
  BY DEF Proceed, Following
<1>5. ScalarInv'
  BY <1>3, <1>4, Zenon DEF RInv, ScalarInv
<1>6. ~Installed'
  BY <1>2, Zenon DEF Installed
<1>7. NodeInv'
  BY <1>3, NodePrimed
<1> QED BY <1>2, <1>3, <1>5, <1>6, <1>7, InstallFrame, Zenon

\* A step that fails stops the services and leaves the files.
LEMMA RollbackFrame ==
    ASSUME RInv, phase # "none", InstallRollback, faults' \in 0..MaxFaults, UNCHANGED restoreVars
    PROVE  RInv'
<1>1. /\ op.pc = "none" /\ ~Installed /\ ~mixed /\ Stems(disk) /\ disk \in Disks
  BY InstallBegins, Zenon
<1>2. UNCHANGED <<address, disk, draws, rebuilds, outcome, mixed>>
      /\ live' = Down /\ enabled' = FALSE /\ lock' = "none" /\ phase' = "none"
  BY Zenon DEF InstallRollback, restoreVars
<1>3. ScalarInv'
  BY <1>2, Zenon DEF RInv, ScalarInv
<1>4. MaterialInv' /\ ~Installed'
  BY <1>1, <1>2, Zenon DEF RInv, MaterialInv, Installed
<1>5. NodeInv'
  BY <1>1, <1>2, DownRuns, NodePrimed
<1> QED BY <1>1, <1>2, <1>3, <1>4, <1>5, DownType, InstallFrame, Zenon

\* _configure_secret keeps a secret that is there.
LEMMA SecretStep ==
    ASSUME RInv, ConfigureSecret, UNCHANGED restoreVars
    PROVE  RInv'
<1>1. phase \in Secrets /\ phase \in DOMAIN Following /\ phase # "none" /\ phase \in Parts
      /\ phase # "material" /\ phase # "state"
  BY Names DEF ConfigureSecret, Secrets, Following
<1>2. /\ Stems(disk) /\ Runs(live, disk) /\ disk \in Disks /\ live \in Lives /\ draws \in Nat
      /\ faults \in 0..MaxFaults /\ MaterialInv
  BY <1>1, InstallBegins, Zenon DEF RInv, ScalarInv
<1>3. CASE InstallRollback /\ NoFault
  BY <1>1, <1>2, <1>3, RollbackFrame, Zenon DEF NoFault
<1>4. CASE Proceed /\ UNCHANGED <<disk, live, draws>>
  BY <1>1, <1>2, <1>4, ProceedFrame, Zenon DEF MaterialInv
<1>5. CASE Proceed /\ UNCHANGED live /\ disk' = [disk EXCEPT ![phase] = Drawn(disk[phase])]
           /\ draws' \in {draws, draws + 1}
  <2>1. draws' \in Nat /\ draws + 1 \in Nat
    BY <1>2, <1>5
  <2>2. CASE disk[phase] = 0
    <3>1. disk' = [disk EXCEPT ![phase] = draws + 1]
      BY <1>5, <2>2, Zenon DEF Drawn
    <3>2. draws + 1 \in PartTypes[phase]
      BY <1>1, <2>1 DEF PartTypes, Secrets, Value
    <3>3. disk' \in Disks /\ \A y \in Parts \ {phase} : disk'[y] = disk[y]
      <4>1. disk' \in Disks
        BY <1>1, <1>2, <3>1, <3>2, DiskPut, Zenon
      <4>2. \A y \in Parts \ {phase} : disk'[y] = disk[y]
        BY <1>1, <1>2, <3>1, Zenon DEF Disks
      <4> QED BY <4>1, <4>2
    <3>4. disk'.state = disk.state /\ disk'.material = disk.material
      BY <1>1, <3>3, Names
    <3>5. Stems(disk') /\ Runs(live', disk')
      BY <1>1, <1>2, <1>5, <2>2, <3>1, SecretKeepsNode, Zenon
    <3> QED BY <1>1, <1>2, <1>5, <2>1, <3>3, <3>4, <3>5, ProceedFrame, Zenon DEF MaterialInv
  <2>3. CASE disk[phase] # 0
    <3>1. disk' = disk
      <4>1. disk' = [disk EXCEPT ![phase] = disk[phase]]
        BY <1>5, <2>3, Zenon DEF Drawn
      <4> QED BY <1>2, <4>1 DEF Disks
    <3> QED BY <1>1, <1>2, <1>5, <2>1, <3>1, ProceedFrame, Zenon DEF MaterialInv
  <2> QED BY <2>2, <2>3
<1> QED BY <1>3, <1>4, <1>5, Zenon DEF ConfigureSecret

\* The first phases are recorded.
LEMMA RecordStep ==
    ASSUME RInv, RecordPhase, UNCHANGED restoreVars
    PROVE  RInv'
<1>1. phase \in DOMAIN Following /\ phase # "none"
  BY DEF RecordPhase, Following
<1>2. /\ Stems(disk) /\ Runs(live, disk) /\ disk \in Disks /\ live \in Lives /\ draws \in Nat
      /\ faults \in 0..MaxFaults /\ MaterialInv
  BY <1>1, InstallBegins, Zenon DEF RInv, ScalarInv
<1>3. CASE InstallRollback /\ NoFault
  BY <1>1, <1>2, <1>3, RollbackFrame, Zenon DEF NoFault
<1>4. CASE Proceed /\ UNCHANGED <<disk, live, draws>>
  BY <1>1, <1>2, <1>4, ProceedFrame, Zenon DEF MaterialInv
<1> QED BY <1>3, <1>4, Zenon DEF RecordPhase

\* configure_runtime_material draws no material that the renderer would refuse.
LEMMA DrawStep ==
    ASSUME RInv, DrawMaterial, UNCHANGED restoreVars
    PROVE  RInv'
<1>1. phase # "none"
  BY DEF DrawMaterial
<1>2. /\ op.pc = "none" /\ ~Installed /\ ~mixed /\ Stems(disk) /\ Runs(live, disk)
      /\ disk \in Disks /\ live \in Lives /\ draws \in Nat /\ lock = "install"
      /\ faults \in 0..MaxFaults /\ MaterialInv /\ DiskFields(disk)
  BY <1>1, InstallBegins, Zenon DEF RInv, ScalarInv, LockInv
<1>3. CASE InstallRollback /\ NoFault
  BY <1>1, <1>2, <1>3, RollbackFrame, Zenon DEF NoFault
<1>5. ASSUME disk.material = NoMaterial, SecretsRead(disk), draws' = draws + 1,
             UNCHANGED <<address, leftovers, live, enabled, lock, phase, faults, rebuilds>>,
             NEW fits \in DrawnLimitsFit,
             disk' = [disk EXCEPT !.material = [key |-> draws + 1, node |-> draws + 1,
                                                api |-> disk.api, obfs |-> disk.obfs,
                                                fits |-> fits]]
      PROVE  RInv'
  <2> DEFINE v == [key |-> draws + 1, node |-> draws + 1, api |-> disk.api, obfs |-> disk.obfs,
                   fits |-> fits]
  <2>1. fits /\ fits \in BOOLEAN
    BY <1>5, PairsAgree, Zenon
  <2>2. draws + 1 \in Nat /\ draws + 1 > 0 /\ disk.api \in Nat /\ disk.obfs \in Nat
        /\ disk.api > 0 /\ disk.obfs > 0
    BY <1>2, <1>5 DEF SecretsRead, SecretFiles, ReadSecret, DiskFields, Value, Torn
  <2>3. v \in MaterialFile
    BY <2>1, <2>2, Zenon DEF MaterialFile
  <2>4. ValidMaterial(v) /\ v.api = disk.api /\ v.obfs = disk.obfs
    BY <2>1, <2>2, Zenon DEF ValidMaterial, Key, EncodedSecret
  <2> HIDE DEF v
  <2>5. disk' = [disk EXCEPT !.material = v] /\ PartTypes["material"] = MaterialFile
        /\ "material" \in Parts
    BY <1>5, Names, Zenon DEF v, PartTypes
  <2>6. disk' \in Disks /\ disk'.material = v /\ \A y \in Parts \ {"material"} : disk'[y] = disk[y]
    BY <1>2, <2>3, <2>5, DiskUpdate
  <2>7. disk'.state = disk.state
    BY <2>6, Names
  <2>8. Stems(disk') /\ Runs(live', disk')
    BY <1>2, <1>5, <2>4, <2>5, MaterialKeepsNode, Zenon DEF SecretsRead
  <2>9. MaterialInv'
    BY <2>4, <2>6, Zenon DEF MaterialInv, ValidMaterial
  <2>10. draws' \in Nat
    BY <1>5, <2>2
  <2>11. UNCHANGED <<outcome, mixed>>
    BY Zenon DEF restoreVars
  <2>12. ScalarInv'
    BY <1>5, <2>10, <2>11, Zenon DEF RInv, ScalarInv
  <2>13. NodeInv' /\ ~Installed'
    BY <1>2, <1>5, <2>7, <2>8, NodePrimed, Zenon DEF Installed
  <2> QED BY <1>2, <1>5, <2>6, <2>9, <2>11, <2>12, <2>13, InstallFrame, Zenon
<1> QED BY <1>3, <1>5, Zenon DEF DrawMaterial

\* A material that is there is kept.
LEMMA CheckStep ==
    ASSUME RInv, CheckMaterial, UNCHANGED restoreVars
    PROVE  RInv'
<1>1. phase \in DOMAIN Following /\ phase # "none"
  BY DEF CheckMaterial, Following
<1>2. /\ Stems(disk) /\ Runs(live, disk) /\ disk \in Disks /\ live \in Lives /\ draws \in Nat
      /\ faults \in 0..MaxFaults /\ MaterialInv
  BY <1>1, InstallBegins, Zenon DEF RInv, ScalarInv
<1>3. CASE InstallRollback /\ NoFault
  BY <1>1, <1>2, <1>3, RollbackFrame, Zenon DEF NoFault
<1>4. CASE Proceed /\ UNCHANGED <<disk, live, draws>>
  BY <1>1, <1>2, <1>4, ProceedFrame, Zenon DEF MaterialInv
<1> QED BY <1>3, <1>4, Zenon DEF CheckMaterial

\* render refuses a material that does not fit, and otherwise writes one file.
LEMMA RenderStep ==
    ASSUME RInv, Render, UNCHANGED restoreVars
    PROVE  RInv'
<1>0. phase \in {"control", "gateway", "compose", "xray", "hysteria"}
  BY DEF Render, Rendered
<1>1. phase \in DOMAIN Following /\ phase # "none" /\ phase \in Parts
  BY <1>0, Names DEF Following
<1>2. /\ Stems(disk) /\ Runs(live, disk) /\ disk \in Disks /\ live \in Lives /\ draws \in Nat
      /\ faults \in 0..MaxFaults /\ MaterialInv /\ DiskFields(disk) /\ address \in Addresses
  BY <1>1, InstallBegins, Zenon DEF RInv, ScalarInv
<1>3. CASE InstallRollback /\ NoFault
  BY <1>1, <1>2, <1>3, RollbackFrame, Zenon DEF NoFault
<1>4. CASE /\ ValidMaterial(disk.material) /\ Proceed /\ UNCHANGED <<live, draws>>
           /\ disk' = [disk EXCEPT ![phase] = Rendered(disk.material)[phase]]
  <2>1. disk.material # NoMaterial /\ disk.material \in MaterialFile
    BY <1>2, <1>4, ValidIsPresent, Zenon DEF DiskFields
  <2>2. Stems(disk') /\ Runs(live', disk')
    BY <1>0, <1>2, <1>4, <2>1, RenderKeepsNode, Zenon
  <2>3. Rendered(disk.material)[phase] \in PartTypes[phase]
    <3>1. /\ disk.material.key \in Nat /\ disk.material.node \in Nat /\ disk.material.api \in Nat /\ disk.material.obfs \in Nat
          /\ address \in Nat
      BY <1>2, <2>1 DEF MaterialFile
    <3>2. StubPage(disk.material.key) \in 0..6 /\ StubPage(disk.material.key) \in Nat
      BY <3>1 DEF StubPage
    <3>3. ControlConfig(disk.material) \in ControlFile
      BY <3>1, Zenon DEF ControlConfig, ControlFile
    <3>4. HysteriaConfig(disk.material) \in HysteriaFile
      BY <3>1, <3>2, Zenon DEF HysteriaConfig, HysteriaFile
    <3> DEFINE m == disk.material
    <3>5. /\ Rendered(m).control = ControlConfig(m) /\ Rendered(m).gateway = StubPage(m.key)
          /\ Rendered(m).compose = Release /\ Rendered(m).xray = m.key
          /\ Rendered(m).hysteria = HysteriaConfig(m)
      BY Zenon DEF Rendered, GatewayConfig, XrayConfig
    <3>6. /\ PartTypes.control = ControlFile /\ PartTypes.gateway = 0..6 /\ PartTypes.compose = Nat
          /\ PartTypes.xray = Nat /\ PartTypes.hysteria = HysteriaFile /\ Release \in Nat
      BY DEF PartTypes
    <3> QED BY <1>0, <3>1, <3>2, <3>3, <3>4, <3>5, <3>6, Zenon
  <2>4. disk' \in Disks
    BY <1>1, <1>2, <1>4, <2>3, DiskPut, Zenon
  <2>5. \A y \in Parts \ {phase} : disk'[y] = disk[y]
    BY <1>1, <1>2, <1>4, Zenon DEF Disks
  <2>6. disk'.state = disk.state /\ disk'.material = disk.material
    BY <1>0, <2>5, Names
  <2>7. MaterialInv'
    BY <1>2, <2>6, Zenon DEF MaterialInv
  <2>8. draws' \in Nat /\ live' \in Lives /\ Proceed
    BY <1>2, <1>4, Zenon
  <2> QED BY <1>1, <2>2, <2>4, <2>6, <2>7, <2>8, ProceedFrame, Zenon
<1> QED BY <1>3, <1>4, Zenon DEF Render

\* stack.env has the address of the node, whether it is written or kept.
LEMMA StackStep ==
    ASSUME RInv, WriteStack, UNCHANGED restoreVars
    PROVE  RInv'
<1>1. phase \in DOMAIN Following /\ phase # "none"
  BY DEF WriteStack, Following
<1>2. /\ Stems(disk) /\ Runs(live, disk) /\ disk \in Disks /\ live \in Lives /\ draws \in Nat
      /\ faults \in 0..MaxFaults /\ MaterialInv /\ address \in Addresses
  BY <1>1, InstallBegins, Zenon DEF RInv, ScalarInv
<1>3. CASE InstallRollback /\ NoFault
  BY <1>1, <1>2, <1>3, RollbackFrame, Zenon DEF NoFault
<1>4. CASE Proceed /\ UNCHANGED <<disk, live, draws>>
  BY <1>1, <1>2, <1>4, ProceedFrame, Zenon DEF MaterialInv
<1>5. CASE disk' = [disk EXCEPT !["stack"] = address] /\ Proceed /\ UNCHANGED <<live, draws>>
  <2>1. "stack" \in Parts /\ address \in PartTypes["stack"]
    BY <1>2, Names DEF PartTypes
  <2>2. disk' \in Disks
    BY <1>2, <1>5, <2>1, DiskPut, Zenon
  <2>3. disk'.stack = address /\ \A y \in Parts \ {"stack"} : disk'[y] = disk[y]
    BY <1>2, <1>5, <2>1, Zenon DEF Disks
  <2>4. disk'.state = disk.state /\ disk'.material = disk.material
    BY <2>3, Names
  <2>5. Stems(disk') /\ Runs(live, disk')
    BY <1>2, <1>5, StackKeepsNode, Zenon
  <2> QED BY <1>1, <1>2, <1>5, <2>2, <2>4, <2>5, ProceedFrame, Zenon DEF MaterialInv
<1> QED BY <1>3, <1>4, <1>5, Zenon DEF WriteStack

\* The gateway obtains a certificate and serves the page on the disk.
LEMMA GatewayStep ==
    ASSUME RInv, StartGateway, UNCHANGED restoreVars
    PROVE  RInv'
<1>1. phase \in DOMAIN Following /\ phase # "none"
  BY DEF StartGateway, Following
<1>2. /\ Stems(disk) /\ Runs(live, disk) /\ disk \in Disks /\ live \in Lives /\ draws \in Nat
      /\ MaterialInv /\ DiskFields(disk)
  BY <1>1, InstallBegins, Zenon DEF RInv, ScalarInv
<1>3. Drawn(disk.caddy) \in Nat /\ draws' \in Nat
  BY <1>2 DEF StartGateway, Drawn, DiskFields
<1>4. disk' = [disk EXCEPT !["caddy"] = Drawn(disk.caddy)] /\ "caddy" \in Parts
      /\ Drawn(disk.caddy) \in PartTypes["caddy"]
  BY <1>3, Names, Zenon DEF StartGateway, PartTypes
<1>5. disk' \in Disks
  BY <1>2, <1>4, DiskPut, Zenon
<1>6. \A y \in Parts \ {"caddy"} : disk'[y] = disk[y]
  BY <1>2, <1>4, Zenon DEF Disks
<1>7. disk'.state = disk.state /\ disk'.material = disk.material /\ disk'.gateway = disk.gateway
  BY <1>6, Names
<1>8. Stems(disk') /\ Runs(live, disk')
  BY <1>2, <1>4, OtherKeepsNode, Zenon
<1>9. /\ live'.gateway = disk.gateway /\ live'.control = live.control /\ live'.xray = live.xray
      /\ live'.hysteria = live.hysteria
  BY <1>2, Names DEF StartGateway, Lives
<1>10. live' \in Lives
  <2>1. LiveFields(live')
    BY <1>2, <1>9 DEF LiveFields, Lives, DiskFields
  <2>2. disk.gateway \in Loaded
    BY <1>2 DEF Loaded, DiskFields
  <2>3. live' \in [Services -> Loaded]
    BY <1>2, <2>2, Names DEF StartGateway, Lives
  <2> QED BY <2>1, <2>3, Zenon DEF Lives
<1>11. Runs(live', disk')
  <2>1. CASE disk'.material = NoMaterial
    <3>1. live = Down /\ disk.gateway = 0
      BY <1>2, <1>7, <2>1, Zenon DEF Stems, Runs
    <3>2. \A s \in Services : live'[s] = Down[s]
      BY <1>9, <3>1, Names DEF Down
    <3>3. live' = Down
      BY <1>10, <3>2, DownType DEF Lives
    <3> QED BY <3>3, DownRuns
  <2>2. CASE disk'.material # NoMaterial
    <3>1. live'.gateway \in {0, GatewayConfig(disk'.material)}
      BY <1>2, <1>7, <1>9, <2>2, Zenon DEF Stems
    <3> QED BY <1>8, <1>9, <2>2, <3>1, Zenon DEF Runs
  <2> QED BY <2>1, <2>2
<1>12. MaterialInv'
  BY <1>2, <1>7, Zenon DEF MaterialInv
<1>13. Proceed
  BY DEF StartGateway
<1> QED BY <1>1, <1>3, <1>5, <1>7, <1>8, <1>10, <1>11, <1>12, <1>13, ProceedFrame, Zenon

\* Control starts on the files and creates the database.
LEMMA MigrateStep ==
    ASSUME RInv, MigrateControl, UNCHANGED restoreVars
    PROVE  RInv'
<1>1. phase \in DOMAIN Following /\ phase # "none"
  BY DEF MigrateControl, Following
<1>2. /\ Stems(disk) /\ Runs(live, disk) /\ disk \in Disks /\ live \in Lives /\ draws \in Nat
      /\ faults \in 0..MaxFaults /\ MaterialInv /\ DiskFields(disk)
  BY <1>1, InstallBegins, Zenon DEF RInv, ScalarInv
<1>3. CASE InstallRollback /\ NoFault
  BY <1>1, <1>2, <1>3, RollbackFrame, Zenon DEF NoFault
<1>4. CASE /\ ControlStarts(disk) /\ live' = [live EXCEPT !.control = RuntimeApp]
           /\ disk' = [disk EXCEPT !.db.exists = TRUE] /\ Proceed /\ UNCHANGED draws
  <2> DEFINE v == [disk.db EXCEPT !.exists = TRUE]
  <2>1. v \in Database /\ v.masters = disk.db.masters
    BY <1>2, ZenonT(60) DEF DiskFields, Database
  <2>2. disk' = [disk EXCEPT !["db"] = v]
    BY <1>4, Zenon
  <2> HIDE DEF v
  <2>3. "db" \in Parts /\ v \in PartTypes["db"]
    BY <2>1, Names, Zenon DEF PartTypes
  <2>4. disk' \in Disks
    BY <1>2, <2>2, <2>3, DiskPut, Zenon
  <2>5. \A y \in Parts \ {"db"} : disk'[y] = disk[y]
    BY <1>2, <2>2, <2>3, Zenon DEF Disks
  <2>6. /\ disk'.state = disk.state /\ disk'.material = disk.material /\ disk'.master = disk.master
        /\ disk'.api = disk.api /\ disk'.obfs = disk.obfs
    BY <2>5, Names
  <2>7. Stems(disk') /\ Runs(live, disk')
    <3>1. \A m \in v.masters : m = disk.master /\ m > 0
      BY <1>2, <2>1, Zenon DEF Stems
    <3> QED BY <1>2, <2>2, <3>1, DatabaseKeepsNode, Zenon
  <2>8. Started(Services) \in Lives /\ Runs(Started(Services), disk)
    BY <1>2, StartedType, StartedRuns, Zenon
  <2>9. Started(Services).control = RuntimeApp
    <3>1. "control" \in Services
      BY Names, Zenon
    <3> QED BY <1>4, <3>1, Zenon DEF Started
  <2>10. /\ live'.control = RuntimeApp /\ live'.gateway = live.gateway /\ live'.xray = live.xray
         /\ live'.hysteria = live.hysteria
    BY <1>2, <1>4, Names DEF Lives
  <2>11. live' \in Lives
    <3>1. RuntimeApp \in PanelType /\ RuntimeApp \in Loaded
      BY <2>8, <2>9, Zenon DEF Lives, LiveFields, Loaded
    <3>2. LiveFields(live')
      BY <1>2, <2>10, <3>1, Zenon DEF LiveFields, Lives
    <3>3. live' \in [Services -> Loaded]
      BY <1>2, <1>4, <3>1, Names, Zenon DEF Lives
    <3> QED BY <3>2, <3>3, Zenon DEF Lives
  <2>12. Runs(live', disk')
    <3>1. disk.material # NoMaterial
      <4>1. RuntimeApp # NoControl
        BY <1>4 DEF ControlStarts, LoadSettings, RuntimeApp, NoControl
      <4>2. Down.control = NoControl
        BY DEF Down
      <4> QED BY <2>8, <2>9, <4>1, <4>2, Zenon DEF Runs
    <3>2. RuntimeApp \in {NoControl, Panel(disk)}
      BY <2>8, <2>9, <3>1, Zenon DEF Runs
    <3>3. Panel(disk') = Panel(disk)
      BY <2>6, Zenon DEF Panel
    <3> QED BY <2>6, <2>7, <2>10, <3>1, <3>2, <3>3, Zenon DEF Runs
  <2>13. MaterialInv' /\ draws' \in Nat
    BY <1>2, <1>4, <2>6, Zenon DEF MaterialInv
  <2> QED BY <1>1, <1>4, <2>4, <2>6, <2>7, <2>11, <2>12, <2>13, ProceedFrame, Zenon
<1> QED BY <1>3, <1>4, Zenon DEF MigrateControl

\* Services that run keep running, the others load the files.
LEMMA RuntimesStep ==
    ASSUME RInv, StartRuntimes, UNCHANGED restoreVars
    PROVE  RInv'
<1>1. phase \in DOMAIN Following /\ phase # "none"
  BY DEF StartRuntimes, Following
<1>2. /\ Stems(disk) /\ Runs(live, disk) /\ disk \in Disks /\ live \in Lives /\ draws \in Nat
      /\ MaterialInv
  BY <1>1, InstallBegins, Zenon DEF RInv, ScalarInv
<1> DEFINE S == Started(Services)
<1>3. S \in Lives /\ Runs(S, disk)
  BY <1>2, StartedType, StartedRuns, Zenon
<1>4. live' = [s \in Services |-> IF s \in Up \ {"control"} THEN live[s] ELSE S[s]]
      /\ UNCHANGED <<disk, draws>> /\ Proceed
  BY Zenon DEF StartRuntimes
<1> HIDE DEF S
<1>5. \A s \in Services : live'[s] \in {live[s], S[s]}
  BY <1>4, Zenon
<1>6. live' \in Lives
  <2>1. \A s \in Services : live[s] \in Loaded /\ S[s] \in Loaded
    BY <1>2, <1>3, Zenon DEF Lives
  <2>2. live' \in [Services -> Loaded]
    BY <1>4, <1>5, <2>1, Zenon
  <2>3. LiveFields(live')
    <3>1. LiveFields(live) /\ LiveFields(S)
      BY <1>2, <1>3, Zenon DEF Lives
    <3> QED BY <1>5, <3>1, Names, Zenon DEF LiveFields
  <2> QED BY <2>2, <2>3, Zenon DEF Lives
<1>7. Runs(live', disk)
  <2>1. CASE disk.material = NoMaterial
    <3>1. live = Down /\ S = Down
      BY <1>2, <1>3, <2>1, Zenon DEF Runs
    <3>2. \A s \in Services : live'[s] = Down[s]
      BY <1>5, <3>1, Zenon
    <3>3. live' = Down
      BY <1>6, <3>2, DownType DEF Lives
    <3> QED BY <3>3, DownRuns
  <2>2. CASE disk.material # NoMaterial
    BY <1>2, <1>3, <1>5, <2>2, Names, Zenon DEF Runs
  <2> QED BY <2>1, <2>2
<1>8. MaterialInv' /\ draws' \in Nat /\ disk' = disk
  BY <1>2, <1>4, Zenon DEF MaterialInv
<1> QED BY <1>1, <1>2, <1>4, <1>6, <1>7, <1>8, ProceedFrame, Zenon

\* The unit is enabled.
LEMMA UnitStep ==
    ASSUME RInv, InstallUnit, UNCHANGED restoreVars
    PROVE  RInv'
<1>1. phase = "unit" /\ phase # "none"
  BY DEF InstallUnit
<1>2. /\ op.pc = "none" /\ ~Installed /\ ~mixed /\ Stems(disk) /\ Runs(live, disk)
      /\ disk \in Disks /\ live \in Lives /\ lock = "install"
  BY <1>1, InstallBegins, Zenon DEF RInv, LockInv
<1>3. /\ UNCHANGED <<address, disk, live, lock, draws, faults, rebuilds, outcome, mixed>>
      /\ enabled' = TRUE /\ phase' = Following["unit"]
  BY <1>1, Zenon DEF InstallUnit, restoreVars
<1>4. Following["unit"] = "checks"
  BY DEF Following
<1>5. ScalarInv'
  BY <1>3, <1>4, Zenon DEF RInv, ScalarInv
<1>6. MaterialInv' /\ ~Installed'
  BY <1>2, <1>3, Zenon DEF RInv, MaterialInv, Installed
<1>7. NodeInv'
  BY <1>2, <1>3, NodePrimed
<1> QED BY <1>2, <1>3, <1>5, <1>6, <1>7, InstallFrame, Zenon

\* install.json records the release and the address.
LEMMA CompleteStep ==
    ASSUME RInv, CompleteInstall, UNCHANGED restoreVars
    PROVE  RInv'
<1>1. phase # "none"
  BY DEF CompleteInstall
<1>2. /\ op.pc = "none" /\ ~Installed /\ ~mixed /\ Stems(disk) /\ Runs(live, disk)
      /\ disk \in Disks /\ live \in Lives /\ faults \in 0..MaxFaults /\ MaterialInv
      /\ address \in Addresses
  BY <1>1, InstallBegins, Zenon DEF RInv, LockInv, ScalarInv
<1>3. CASE InstallRollback /\ NoFault
  BY <1>1, <1>2, <1>3, RollbackFrame, Zenon DEF NoFault
<1> DEFINE v == [version |-> Release, address |-> address]
<1>4. CASE /\ disk' = [disk EXCEPT !.state = v] /\ lock' = "none" /\ phase' = "none"
           /\ UNCHANGED <<address, live, enabled, draws, rebuilds>> /\ NoFault
  <2>1. v \in StateFile
    BY <1>2 DEF StateFile
  <2>2. "state" \in Parts /\ v \in PartTypes["state"]
    BY <2>1, Names, Zenon DEF PartTypes
  <2>3. disk' \in Disks
    BY <1>2, <1>4, <2>2, DiskPut, Zenon
  <2>4. disk'.state = v /\ \A y \in Parts \ {"state"} : disk'[y] = disk[y]
    BY <1>2, <1>4, <2>2, Zenon DEF Disks
  <2>5. disk'.material = disk.material
    BY <2>4, Names
  <2>6. Stems(disk') /\ Runs(live, disk')
    BY <1>2, <1>4, OtherKeepsNode, Zenon
  <2>7. NodeInv'
    BY <1>4, <2>6, NodePrimed
  <2>8. UNCHANGED <<outcome, mixed, faults>>
    BY <1>4, Zenon DEF restoreVars, NoFault
  <2>9. ScalarInv'
    BY <1>4, <2>8, Zenon DEF RInv, ScalarInv
  <2>10. MaterialInv' /\ (disk.state = [version |-> Release, address |-> address])'
    BY <1>2, <1>4, <2>4, <2>5, Zenon DEF MaterialInv
  <2> QED BY <1>2, <1>4, <2>3, <2>7, <2>9, <2>10, InstallFrame, Zenon
<1> QED BY <1>3, <1>4, Zenon DEF CompleteInstall

\* The script dies; a secret that was being written may be cut short.
LEMMA KilledStep ==
    ASSUME RInv, InstallKilled, UNCHANGED restoreVars
    PROVE  RInv'
<1>1. phase # "none"
  BY DEF InstallKilled
<1>2. /\ op.pc = "none" /\ ~Installed /\ ~mixed /\ Stems(disk) /\ Runs(live, disk)
      /\ disk \in Disks /\ live \in Lives /\ MaterialInv
  BY <1>1, InstallBegins, Zenon DEF RInv, LockInv, ScalarInv
<1>3. UNCHANGED <<address, live, enabled, draws, rebuilds, outcome, mixed>>
      /\ lock' = "none" /\ phase' = "none"
  BY Zenon DEF InstallKilled, restoreVars
<1>4. faults' \in 0..MaxFaults
  BY DEF InstallKilled, Fault, RInv, ScalarInv
<1>5. ScalarInv'
  BY <1>3, <1>4, Zenon DEF RInv, ScalarInv
<1>6. disk' \in Disks /\ Stems(disk') /\ Runs(live, disk') /\ disk'.material = disk.material
      /\ disk'.state = disk.state
  <2>1. CASE UNCHANGED disk
    BY <1>2, <2>1, Zenon
  <2>2. CASE phase \in Secrets /\ disk[phase] = 0 /\ disk' = [disk EXCEPT ![phase] = Torn]
    <3>1. phase \in Parts /\ Torn \in PartTypes[phase] /\ phase # "material" /\ phase # "state"
      BY <2>2, Names DEF PartTypes, Secrets, Value
    <3>2. disk' \in Disks
      BY <1>2, <2>2, <3>1, DiskPut, Zenon
    <3>3. \A y \in Parts \ {phase} : disk'[y] = disk[y]
      BY <1>2, <2>2, <3>1, Zenon DEF Disks
    <3>4. disk'.state = disk.state /\ disk'.material = disk.material
      BY <3>1, <3>3, Names
    <3> QED BY <1>2, <2>2, <3>2, <3>4, SecretKeepsNode, Zenon
  <2> QED BY <2>1, <2>2, Zenon DEF InstallKilled, Secrets
<1>7. NodeInv'
  BY <1>3, <1>6, NodePrimed
<1>8. MaterialInv' /\ ~Installed'
  BY <1>2, <1>6, Zenon DEF MaterialInv, Installed
<1> QED BY <1>2, <1>3, <1>5, <1>6, <1>7, <1>8, InstallFrame, Zenon

\* The installation, whatever interrupts it.
LEMMA InstallInv ==
    ASSUME RInv, InstallStart \/ InstallStep \/ InstallFails \/ InstallKilled, UNCHANGED restoreVars
    PROVE  RInv'
<1>1. CASE InstallStart
  <2>1. /\ op.pc = "none" /\ ~Installed /\ ~mixed /\ Stems(disk) /\ Runs(live, disk)
        /\ disk \in Disks /\ live \in Lives
    BY <1>1, InstallBegins, Zenon
  <2>2. /\ UNCHANGED <<address, disk, live, enabled, draws, faults, rebuilds, outcome, mixed>>
        /\ lock' = "install" /\ phase' = "preflight"
    BY <1>1, Zenon DEF InstallStart, restoreVars
  <2>3. "preflight" \in DOMAIN Following
    BY DEF Following
  <2>4. ScalarInv'
    BY <2>2, <2>3, Zenon DEF RInv, ScalarInv
  <2>5. MaterialInv' /\ ~Installed'
    BY <2>1, <2>2, Zenon DEF RInv, MaterialInv, Installed
  <2>6. NodeInv'
    BY <2>1, <2>2, NodePrimed
  <2> QED BY <2>1, <2>2, <2>4, <2>5, <2>6, InstallFrame, Zenon
<1>2. CASE InstallFails
  <2>1. phase # "none" /\ InstallRollback /\ faults' \in 0..MaxFaults
    BY <1>2 DEF InstallFails, Fault, RInv, ScalarInv
  <2> QED BY <2>1, RollbackFrame, Zenon
<1> QED BY <1>1, <1>2, RecordStep, SecretStep, DrawStep, CheckStep, RenderStep, StackStep,
           GatewayStep, MigrateStep, RuntimesStep, UnitStep, CompleteStep, KilledStep, Zenon DEF InstallStep

-----------------------------------------------------------------------------
(* The panel, a reboot, a new server.                                      *)

\* What a start loads does not depend on the database.
LEMMA StartsSame ==
    ASSUME SameFiles(disk', disk)
    PROVE  Starts(Services)' = Starts(Services)
<1>1. /\ disk'.gateway = disk.gateway /\ disk'.control = disk.control /\ disk'.xray = disk.xray
      /\ disk'.hysteria = disk.hysteria /\ disk'.master = disk.master /\ disk'.api = disk.api
      /\ disk'.obfs = disk.obfs /\ disk'.caddy = disk.caddy
  BY Names DEF SameFiles
<1>2. ControlStarts(disk)' <=> ControlStarts(disk)
  BY <1>1, Zenon DEF ControlStarts, SecretFiles, ReadSecret, LoadSettings
<1>3. RuntimeApp' = RuntimeApp
  BY <1>1, Zenon DEF RuntimeApp
<1>4. \A S : Started(S)' = Started(S)
  BY <1>1, <1>2, <1>3, Zenon DEF Started
<1> QED BY <1>1, <1>4, Zenon DEF Starts

\* The panel writes under the key it runs with, while a backup or a restore may be
\* at work.
LEMMA PanelInv ==
    ASSUME RInv, PanelWrite, UNCHANGED restoreVars
    PROVE  RInv'
<1> DEFINE v == [disk.db EXCEPT !.writes = @ + 1, !.masters = @ \cup {live.control.master}]
<1>1. disk \in Disks /\ live \in Lives /\ DiskFields(disk) /\ LiveFields(live)
  BY DiskParts, Zenon DEF RInv, TypesInv, Lives
<1>2. UNCHANGED <<address, live, enabled, lock, phase, draws, faults, rebuilds, archives, op, outcome, mixed>>
  BY Zenon DEF PanelWrite, restoreVars
<1>3. disk' = [disk EXCEPT !["db"] = v]
  BY Zenon DEF PanelWrite
<1>4. disk.db \in Database /\ live.control \in PanelType
  BY <1>1, Zenon DEF DiskFields, LiveFields
<1>5. disk.db.writes + 1 \in 0..MaxWrites /\ disk.db.masters \cup {live.control.master} \in SUBSET Nat
      /\ disk.db.writes \in Nat
  BY <1>4 DEF PanelWrite, Database, PanelType
<1>6. /\ v.masters = disk.db.masters \cup {live.control.master} /\ v.writes = disk.db.writes + 1
      /\ v \in Database
  BY <1>4, <1>5, ZenonT(60) DEF Database
<1> HIDE DEF v
<1>7. "db" \in Parts /\ v \in PartTypes["db"]
  BY <1>6, Names, Zenon DEF PartTypes
<1>8. disk' \in Disks
  BY <1>1, <1>3, <1>7, DiskPut, Zenon
<1>9. disk'.db = v /\ SameFiles(disk', disk)
  BY <1>1, <1>3, <1>7, Zenon DEF Disks, SameFiles
<1>10. disk'.material = disk.material /\ disk'.state = disk.state /\ disk'.master = disk.master
  BY <1>9, Names DEF SameFiles
<1>11. ScalarInv' /\ TypesInv'
  BY <1>2, <1>8, Zenon DEF RInv, ScalarInv, TypesInv
<1>12. LockInv' /\ MaterialInv'
  BY <1>2, <1>10, Zenon DEF RInv, LockInv, MaterialInv, Installed
<1>13. NodeInv'
  <2>1. CASE mixed
    BY <1>2, <2>1, Zenon DEF NodeInv
  <2>2. CASE ~mixed
    <3>1. Stems(disk) /\ Runs(live, disk)
      BY <2>2, Zenon DEF RInv, NodeInv
    <3>2. live.control # NoControl
      BY Zenon DEF PanelWrite
    <3>3. disk.material # NoMaterial
      <4>1. Down.control = NoControl
        BY DEF Down
      <4> QED BY <3>1, <3>2, <4>1, Zenon DEF Runs
    <3>4. live.control = Panel(disk) /\ SecretFiles(disk)
      BY <3>1, <3>2, <3>3, Zenon DEF Runs, Stems
    <3>5. live.control.master = disk.master /\ disk.master > 0
      BY <3>4 DEF Panel, SecretFiles, ReadSecret
    <3>6. \A m \in v.masters : m = disk.master /\ m > 0
      BY <1>6, <3>1, <3>5, Zenon DEF Stems
    <3>7. Stems(disk') /\ Runs(live, disk')
      BY <1>1, <1>3, <3>1, <3>6, DatabaseKeepsNode, Zenon
    <3> QED BY <1>2, <3>7, NodePrimed
  <2> QED BY <2>1, <2>2
<1>14. ArchiveInv'
  BY <1>2, <1>10, Zenon DEF RInv, ArchiveInv, ArchiveOK, ValidMaterial, WholeAt, HysteriaConfig, Decrypts
<1>15. RestoreInv'
  <2>0. op.pc # "apply" => op.part = 1
    BY DEF RInv, RestoreInv
  <2>1. SUFFICES ASSUME lock = "restore" PROVE RestoreInv'
    BY <1>2, <2>0, Zenon DEF RestoreInv
  <2>2. TargetInv /\ PreimageInv /\ ApplyInv /\ AppliedInv
    BY <2>1, Zenon DEF RInv, RestoreInv
  <2>3. op.pc # "apply"
    <3>1. Down.control = NoControl
      BY DEF Down
    <3> QED BY <2>2, <3>1, Zenon DEF ApplyInv, PanelWrite
  <2>4. \A d : SameFiles(disk, d) => SameFiles(disk', d)
    BY <1>9, Zenon DEF SameFiles
  <2>5. TargetInv'
    BY <1>2, <1>10, <2>2, Zenon DEF TargetInv, ValidMaterial, WholeNode, HysteriaConfig
  <2>6. PreimageInv'
    BY <1>2, <2>2, <2>4, Zenon DEF PreimageInv, SameFiles
  <2>7. ApplyInv'
    BY <1>2, <2>3, Zenon DEF ApplyInv
  <2>8. op.pc \in {"start", "health"} /\ ~op.undo =>
           /\ SameFiles(disk', op.data) /\ op.data.db.masters \subseteq disk'.db.masters
           /\ op.data.db.writes <= disk'.db.writes
    <3>1. SUFFICES ASSUME op.pc \in {"start", "health"}, ~op.undo
                   PROVE  /\ SameFiles(disk', op.data) /\ op.data.db.masters \subseteq disk'.db.masters
                          /\ op.data.db.writes <= disk'.db.writes
      OBVIOUS
    <3>2. /\ SameFiles(disk, op.data) /\ op.data.db.masters \subseteq disk.db.masters
          /\ op.data.db.writes <= disk.db.writes
      BY <2>2, <3>1, Zenon DEF AppliedInv
    <3>3. op.data.db.writes \in Nat
      <4>1. op.data \in Disks
        BY Zenon DEF RInv, TypesInv, OpType
      <4>2. op.data.db \in Database
        BY <4>1, DiskParts, Zenon DEF DiskFields
      <4> QED BY <4>2 DEF Database
    <3>4. disk.db.masters \subseteq disk'.db.masters /\ disk'.db.writes = disk.db.writes + 1
      BY <1>6, <1>9, Zenon
    <3> QED BY <1>5, <2>4, <3>2, <3>3, <3>4
  <2>9. Starts(Services)' = Starts(Services)
    BY <1>9, StartsSame
  <2>10. AppliedInv'
    BY <1>2, <2>2, <2>4, <2>8, <2>9, Zenon DEF AppliedInv, SameFiles
  <2> QED BY <1>2, <2>0, <2>5, <2>6, <2>7, <2>10, Zenon DEF RestoreInv
<1> QED BY <1>11, <1>12, <1>13, <1>14, <1>15 DEF RInv

\* No operation is under way.
LEMMA NoOpType == NoOp \in OpType /\ NoOp.pc = "none" /\ NoOp.part = 1
<1>1. 0 \in 0..MaxArchives /\ 1 \in DOMAIN ApplyOrder
  BY Names
<1> QED BY <1>1, Absent, NoDiskType, Zenon DEF NoOp, OpType, OpPCs

\* What the end of an operation, however it comes, leaves to be shown.
LEMMA EndFrame ==
    ASSUME RInv, op' = NoOp, lock' = "none", phase' = "none", ScalarInv', disk' \in Disks, live' \in Lives,
           archives' \in Seq(Archives), Len(archives') <= MaxArchives,
           \A i \in DOMAIN archives' : ArchiveOK(archives'[i]), MaterialInv', NodeInv',
           mixed' => Installed', Installed' => (disk.state = [version |-> Release, address |-> address])'
    PROVE  RInv'
<1>1. op'.pc = "none" /\ op'.part = 1 /\ op' \in OpType
  BY NoOpType, Zenon
<1>2. TypesInv'
  BY <1>1, Zenon DEF TypesInv
<1>3. LockInv'
  BY <1>1, NoOpType DEF LockInv, ReplacePCs
<1>4. ArchiveInv'
  <2>1. \A i \in DOMAIN archives' : ArchiveOK(archives[i])'
    BY Zenon DEF ArchiveOK, ValidMaterial, WholeAt, HysteriaConfig, SecretFiles, Decrypts
  <2> QED BY <1>1, <2>1 DEF ArchiveInv
<1>5. RestoreInv'
  BY <1>1 DEF RestoreInv
<1> QED BY <1>2, <1>3, <1>4, <1>5 DEF RInv

\* What a start may bring up.
LEMMA StartsType ==
    ASSUME disk \in Disks, NEW S, NEW l \in Starts(S)
    PROVE  l \in Lives /\ (Stems(disk) => Runs(l, disk))
BY StartedType, StartedRuns, DownType, DownRuns, Zenon DEF Starts

\* The server boots.
LEMMA RebootInv ==
    ASSUME RInv, Reboot, op' = NoOp, UNCHANGED <<archives, outcome, mixed>>
    PROVE  RInv'
<1>1. /\ UNCHANGED <<address, disk, enabled, draws, rebuilds>> /\ lock' = "none" /\ phase' = "none"
      /\ \E S : live' \in Starts(S)
  BY Zenon DEF Reboot
<1>2. faults' \in 0..MaxFaults
  BY DEF Reboot, Fault, RInv, ScalarInv
<1>3. disk \in Disks /\ archives \in Seq(Archives) /\ Len(archives) <= MaxArchives
  BY Zenon DEF RInv, TypesInv
<1>4. live' \in Lives /\ (Stems(disk) => Runs(live', disk))
  BY <1>1, <1>3, StartsType, Zenon
<1>5. ScalarInv'
  BY <1>1, <1>2, Zenon DEF RInv, ScalarInv
<1>6. NodeInv'
  <2>1. CASE mixed
    BY <2>1, Zenon DEF NodeInv
  <2>2. CASE ~mixed
    <3>1. Stems(disk') /\ Runs(live', disk')
      BY <1>1, <1>4, <2>2, Zenon DEF RInv, NodeInv
    <3> QED BY <1>1, <3>1, NodePrimed
  <2> QED BY <2>1, <2>2
<1>7. MaterialInv' /\ (mixed' => Installed') /\ \A i \in DOMAIN archives' : ArchiveOK(archives'[i])
  BY <1>1, Zenon DEF RInv, MaterialInv, LockInv, Installed, ArchiveInv
<1>8. Installed' => (disk.state = [version |-> Release, address |-> address])'
  BY <1>1, Zenon DEF RInv, LockInv, Installed
<1> QED BY <1>1, <1>3, <1>4, <1>5, <1>6, <1>7, <1>8, EndFrame, Zenon

\* A new server has no files; the archives are kept elsewhere.
LEMMA RebuildInv ==
    ASSUME RInv, Rebuild, op' = NoOp, mixed' = FALSE, UNCHANGED <<archives, outcome>>
    PROVE  RInv'
<1>1. /\ UNCHANGED <<draws, faults>> /\ lock' = "none" /\ phase' = "none" /\ address' \in Addresses
      /\ disk' = NoDisk /\ live' = Down /\ enabled' = FALSE
  BY Zenon DEF Rebuild
<1>2. rebuilds' \in 0..MaxRebuilds
  BY DEF Rebuild, RInv, ScalarInv
<1>3. archives \in Seq(Archives) /\ Len(archives) <= MaxArchives
  BY Zenon DEF RInv, TypesInv
<1>4. ScalarInv'
  BY <1>1, <1>2, Zenon DEF RInv, ScalarInv
<1>5. /\ NoDisk.material = NoMaterial /\ NoDisk.state = NoState /\ NoDisk.gateway = 0 /\ NoDisk.xray = 0
      /\ NoDisk.hysteria = NoHysteria /\ NoDisk.compose = 0 /\ NoDisk.stack = 0
      /\ NoDisk.db = NoDatabase
  BY Zenon DEF NoDisk
<1>6. NoDatabase.masters = {}
  BY DEF NoDatabase
<1>7. NodeInv'
  <2>1. Stems(disk)'
    BY <1>1, <1>5, <1>6 DEF Stems
  <2>2. Runs(live, disk)'
    BY <1>1, <1>5, Zenon DEF Runs
  <2> QED BY <2>1, <2>2 DEF NodeInv
<1>8. MaterialInv' /\ ~Installed' /\ \A i \in DOMAIN archives' : ArchiveOK(archives'[i])
  BY <1>1, <1>5, Zenon DEF RInv, MaterialInv, Installed, ArchiveInv
<1> QED BY <1>1, <1>3, <1>4, <1>7, <1>8, NoDiskType, DownType, EndFrame, Zenon

-----------------------------------------------------------------------------
(* Steps of a backup or restore.                                           *)

\* While an operation is under way, nothing is being installed.
LEMMA OpUnderWay ==
    ASSUME RInv, op.pc # "none"
    PROVE  /\ phase = "none" /\ lock \in {"backup", "restore"} /\ Installed /\ outcome = "none"
           /\ disk \in Disks /\ live \in Lives /\ op \in OpType /\ archives \in Seq(Archives)
           /\ Len(archives) <= MaxArchives /\ faults \in 0..MaxFaults
           /\ disk.state = [version |-> Release, address |-> address]
BY DEF RInv, LockInv, ScalarInv, TypesInv

\* What the end of a backup or restore leaves to be shown.
LEMMA QuietEnd ==
    ASSUME RInv, phase = "none", NEW result \in Outcomes, End(result),
           UNCHANGED <<address, disk, enabled, phase, draws, rebuilds, mixed>>,
           live' = live \/ live' = Down, faults' \in 0..MaxFaults,
           archives' \in Seq(Archives), Len(archives') <= MaxArchives,
           \A i \in DOMAIN archives' : ArchiveOK(archives'[i])
    PROVE  RInv'
<1>1. op' = NoOp /\ lock' = "none" /\ outcome' = result
  BY Zenon DEF End
<1>2. ScalarInv'
  BY <1>1, Zenon DEF RInv, ScalarInv
<1>3. disk \in Disks /\ live' \in Lives
  BY DownType, Zenon DEF RInv, TypesInv
<1>4. NodeInv'
  <2>1. CASE mixed
    BY <2>1, Zenon DEF NodeInv
  <2>2. CASE ~mixed
    <3>1. Stems(disk') /\ Runs(live', disk')
      BY <2>2, DownRuns, Zenon DEF RInv, NodeInv
    <3> QED BY <3>1, NodePrimed
  <2> QED BY <2>1, <2>2
<1>5. MaterialInv' /\ (mixed' => Installed')
  BY Zenon DEF RInv, MaterialInv, LockInv, Installed
<1>6. Installed' => (disk.state = [version |-> Release, address |-> address])'
  BY Zenon DEF RInv, LockInv, Installed
<1> QED BY <1>1, <1>2, <1>3, <1>4, <1>5, <1>6, EndFrame, Zenon

\* What a step that goes on leaves to be shown.
LEMMA GoOnFrame ==
    ASSUME RInv, op.pc # "none", op'.pc # "none", op' \in OpType,
           UNCHANGED <<address, enabled, lock, phase, draws, rebuilds, outcome>>,
           op'.pc \in ReplacePCs => lock = "restore",
           faults' \in 0..MaxFaults, mixed' \in BOOLEAN,
           disk' \in Disks, disk'.state = disk.state, live' \in Lives,
           archives' \in Seq(Archives), Len(archives') <= MaxArchives,
           MaterialInv', NodeInv', ArchiveInv', RestoreInv'
    PROVE  RInv'
<1>1. ScalarInv'
  BY Zenon DEF RInv, ScalarInv
<1>2. TypesInv'
  BY Zenon DEF TypesInv
<1>3. LockInv'
  <2>1. /\ phase = "none" /\ lock \in {"backup", "restore"} /\ Installed /\ outcome = "none"
        /\ disk.state = [version |-> Release, address |-> address]
    BY OpUnderWay
  <2>2. op' # NoOp
    BY NoOpType, Zenon
  <2> QED BY <2>1, <2>2 DEF LockInv, Installed
<1> QED BY <1>1, <1>2, <1>3, Zenon DEF RInv

\* A step that leaves the node alone.
LEMMA NodeSame ==
    ASSUME RInv, UNCHANGED <<address, disk, live, mixed>>
    PROVE  MaterialInv' /\ NodeInv'
<1>1. MaterialInv'
  BY Zenon DEF RInv, MaterialInv
<1>2. CASE mixed
  BY <1>1, <1>2, Zenon DEF NodeInv
<1>3. CASE ~mixed
  <2>1. Stems(disk') /\ Runs(live', disk')
    BY <1>3, Zenon DEF RInv, NodeInv
  <2> QED BY <1>1, <2>1, NodePrimed
<1> QED BY <1>2, <1>3

\* The fields of an operation, and what becomes of them in its steps.
LEMMA OpParts ==
    ASSUME NEW o \in OpType
    PROVE  /\ o.pc \in OpPCs /\ o.db \in Database /\ o.data \in Disks /\ o.mixed \in BOOLEAN
           /\ o.before \in Disks /\ o.preimage \in 0..MaxArchives /\ o.part \in 1..12
           /\ o.undo \in BOOLEAN
<1>1. o.part \in DOMAIN ApplyOrder
  BY Zenon DEF OpType
<1> QED BY <1>1, Names, Zenon DEF OpType

\* The operation goes to another step.
LEMMA OpMoves ==
    ASSUME op \in OpType, NEW pc \in OpPCs, op' = [op EXCEPT !.pc = pc]
    PROVE  /\ op' \in OpType /\ op'.pc = pc /\ op'.db = op.db /\ op'.data = op.data /\ op'.mixed = op.mixed
           /\ op'.before = op.before /\ op'.preimage = op.preimage /\ op'.part = op.part /\ op'.undo = op.undo
BY ZenonT(60) DEF OpType

\* The snapshot is kept for the archive.
LEMMA OpSnapshot ==
    ASSUME op \in OpType, NEW v \in Database, op' = [op EXCEPT !.pc = "create", !.db = v]
    PROVE  /\ op' \in OpType /\ op'.pc = "create" /\ op'.db = v /\ op'.data = op.data /\ op'.mixed = op.mixed
           /\ op'.before = op.before /\ op'.part = op.part /\ op'.undo = op.undo
BY ZenonT(60) DEF OpType, OpPCs

\* The archive that was made is the preimage.
LEMMA OpSealed ==
    ASSUME op \in OpType, NEW n \in 0..MaxArchives, op' = [op EXCEPT !.pc = "stop", !.preimage = n]
    PROVE  /\ op' \in OpType /\ op'.pc = "stop" /\ op'.preimage = n /\ op'.data = op.data /\ op'.mixed = op.mixed
           /\ op'.before = op.before /\ op'.part = op.part /\ op'.undo = op.undo
BY ZenonT(60) DEF OpType, OpPCs

\* The old node is started again.
LEMMA OpUndone ==
    ASSUME op \in OpType, op' = [op EXCEPT !.pc = "start", !.undo = TRUE]
    PROVE  /\ op' \in OpType /\ op'.pc = "start" /\ op'.preimage = op.preimage /\ op'.data = op.data
           /\ op'.mixed = op.mixed /\ op'.before = op.before /\ op'.part = op.part /\ op'.undo = TRUE
BY ZenonT(60) DEF OpType, OpPCs

\* The next file.
LEMMA OpAdvances ==
    ASSUME op \in OpType, NEW n \in DOMAIN ApplyOrder, op' = [op EXCEPT !.part = n]
    PROVE  /\ op' \in OpType /\ op'.pc = op.pc /\ op'.preimage = op.preimage /\ op'.data = op.data
           /\ op'.mixed = op.mixed /\ op'.before = op.before /\ op'.part = n /\ op'.undo = op.undo
BY ZenonT(60) DEF OpType

\* The files from the first on.
LEMMA OpRestarts ==
    ASSUME op \in OpType, NEW pc \in OpPCs, op' = [op EXCEPT !.pc = pc, !.part = 1]
    PROVE  /\ op' \in OpType /\ op'.pc = pc /\ op'.preimage = op.preimage /\ op'.data = op.data
           /\ op'.mixed = op.mixed /\ op'.before = op.before /\ op'.part = 1 /\ op'.undo = op.undo
<1>1. 1 \in DOMAIN ApplyOrder
  BY Names
<1> QED BY <1>1, ZenonT(60) DEF OpType

\* The preimage is what is applied now.
LEMMA OpReturns ==
    ASSUME op \in OpType, NEW d \in Disks, NEW m \in BOOLEAN,
           op' = [op EXCEPT !.pc = "apply", !.undo = TRUE, !.data = d, !.mixed = m]
    PROVE  /\ op' \in OpType /\ op'.pc = "apply" /\ op'.preimage = op.preimage /\ op'.data = d
           /\ op'.mixed = m /\ op'.before = op.before /\ op'.part = op.part /\ op'.undo = TRUE
BY ZenonT(60) DEF OpType, OpPCs

\* A restore begins.
LEMMA OpBegins ==
    ASSUME NEW d \in Disks, NEW m \in BOOLEAN, NEW b \in Disks,
           op' = [NoOp EXCEPT !.pc = "snapshot", !.data = d, !.mixed = m, !.before = b]
    PROVE  /\ op' \in OpType /\ op'.pc = "snapshot" /\ op'.data = d
           /\ op'.mixed = m /\ op'.before = b /\ op'.part = 1 /\ op'.undo = FALSE
<1>1. NoOp \in OpType /\ NoOp.part = 1 /\ NoOp.undo = FALSE
  BY NoOpType, Zenon DEF NoOp
<1> QED BY <1>1, ZenonT(60) DEF OpType, OpPCs

\* An operation begins with a snapshot.
LEMMA BeginFrame ==
    ASSUME RInv, lock = "none", Installed, Len(archives) < MaxArchives,
           op' \in OpType, op'.pc = "snapshot", lock' \in {"backup", "restore"}, outcome' = "none",
           UNCHANGED <<address, disk, live, enabled, phase, draws, faults, rebuilds, archives, mixed>>,
           RestoreInv'
    PROVE  RInv'
<1>1. ScalarInv'
  BY Zenon DEF RInv, ScalarInv, Outcomes
<1>2. TypesInv'
  BY Zenon DEF RInv, TypesInv
<1>3. LockInv'
  <2>1. op' # NoOp
    BY NoOpType, Zenon
  <2> QED BY <2>1 DEF RInv, LockInv, Installed, ReplacePCs
<1>4. MaterialInv' /\ NodeInv'
  BY NodeSame
<1>5. ArchiveInv'
  BY DEF RInv, ArchiveInv, ArchiveOK, ValidMaterial, WholeAt, HysteriaConfig
<1> QED BY <1>1, <1>2, <1>3, <1>4, <1>5 DEF RInv

\* ezopenpn backup.
LEMMA BackupStartInv ==
    ASSUME RInv, BackupStart
    PROVE  RInv'
<1>1. /\ lock = "none" /\ Installed /\ Len(archives) < MaxArchives /\ lock' = "backup"
      /\ outcome' = "none" /\ op' = [NoOp EXCEPT !.pc = "snapshot"]
      /\ UNCHANGED <<address, disk, live, enabled, phase, draws, faults, rebuilds, archives, mixed>>
  BY Zenon DEF BackupStart
<1>2. op' \in OpType /\ op'.pc = "snapshot" /\ op'.part = 1
  <2>1. NoOp \in OpType /\ NoOp.part = 1 /\ "snapshot" \in OpPCs
    BY NoOpType DEF OpPCs
  <2> QED BY <1>1, <2>1, ZenonT(60) DEF OpType
<1>3. RestoreInv'
  BY <1>1, <1>2 DEF RestoreInv
<1> QED BY <1>1, <1>2, <1>3, BeginFrame, Zenon

\* The archives without the last ones.
LEMMA Prefix ==
    ASSUME NEW S, NEW s \in Seq(S), NEW n \in 0..Len(s)
    PROVE  /\ SubSeq(s, 1, n) \in Seq(S) /\ Len(SubSeq(s, 1, n)) = n
           /\ \A i \in 1..n : SubSeq(s, 1, n)[i] = s[i]
OBVIOUS

\* A backup that fails removes the archive it had begun.
LEMMA AbortInv ==
    ASSUME RInv, op.pc \in BackupPCs, BackupAbort, faults' \in 0..MaxFaults
    PROVE  RInv'
<1>0. /\ phase = "none" /\ archives \in Seq(Archives) /\ Len(archives) <= MaxArchives
      /\ \A i \in DOMAIN archives : ArchiveOK(archives[i])
  BY OpUnderWay DEF BackupPCs, RInv, ArchiveInv
<1>1. End("failed") /\ UNCHANGED <<address, disk, live, enabled, phase, draws, rebuilds, mixed>>
  BY Zenon DEF BackupAbort
<1>2. /\ archives' \in Seq(Archives) /\ Len(archives') <= MaxArchives
      /\ \A i \in DOMAIN archives' : ArchiveOK(archives'[i])
  <2>1. CASE archives' = archives
    BY <1>0, <2>1, Zenon
  <2>2. CASE op.pc \in {"pack", "seal"} /\ archives' = SubSeq(archives, 1, Len(archives) - 1)
    <3>1. archives # <<>>
      BY <2>2, Zenon DEF RInv, ArchiveInv
    <3>2. Len(archives) - 1 \in 0..Len(archives) /\ Len(archives) \in Nat
      BY <1>0, <3>1
    <3>3. /\ archives' \in Seq(Archives) /\ Len(archives') = Len(archives) - 1
          /\ \A i \in 1..(Len(archives) - 1) : archives'[i] = archives[i]
      BY <1>0, <2>2, <3>2, Prefix, Zenon
    <3> QED BY <1>0, <3>2, <3>3
  <2> QED BY <2>1, <2>2, Zenon DEF BackupAbort
<1>3. "failed" \in Outcomes
  BY DEF Outcomes
<1> QED BY <1>0, <1>1, <1>2, <1>3, QuietEnd, Zenon

\* The database is copied through the running panel.
LEMMA SnapshotInv ==
    ASSUME RInv, Snapshot
    PROVE  RInv'
<1>0. op.pc = "snapshot" /\ op.pc # "none" /\ op.pc \in BackupPCs
  BY DEF Snapshot, BackupPCs
<1>1. /\ disk \in Disks /\ live \in Lives /\ op \in OpType /\ archives \in Seq(Archives)
      /\ Len(archives) <= MaxArchives /\ faults \in 0..MaxFaults
  BY <1>0, OpUnderWay
<1>2. CASE BackupAbort /\ NoFault
  BY <1>0, <1>1, <1>2, AbortInv, Zenon DEF NoFault
<1>3. CASE /\ VerifyDatabase(disk.db) /\ op' = [op EXCEPT !.pc = "create", !.db = disk.db]
           /\ UNCHANGED <<nodeVars, archives, outcome, mixed>>
  <2>1. UNCHANGED <<address, disk, live, enabled, lock, phase, draws, faults, rebuilds, archives, outcome, mixed>>
    BY <1>3, Zenon DEF nodeVars
  <2>2. disk.db \in Database
    BY <1>1, DiskParts, Zenon DEF DiskFields
  <2>3. /\ op' \in OpType /\ op'.pc = "create" /\ op'.db = disk.db /\ op'.data = op.data
        /\ op'.mixed = op.mixed /\ op'.before = op.before /\ op'.part = op.part /\ op'.undo = op.undo
    BY <1>1, <1>3, <2>2, OpSnapshot, Zenon
  <2>4. MaterialInv' /\ NodeInv'
    BY <2>1, NodeSame
  <2>5. ArchiveInv'
    <3>1. disk.db.exists /\ (~mixed => Decrypts(disk.db, disk.master))
      BY <1>3, Zenon DEF VerifyDatabase, RInv, NodeInv, Stems, Decrypts
    <3>2. Len(archives) < MaxArchives /\ \A i \in DOMAIN archives : ArchiveOK(archives[i])
      BY <1>0, Zenon DEF RInv, ArchiveInv
    <3> QED BY <2>1, <2>3, <3>1, <3>2 DEF ArchiveInv, ArchiveOK, ValidMaterial, WholeAt, HysteriaConfig, Decrypts
  <2>6. RestoreInv'
    <3>1. op'.part = 1
      BY <1>0, <2>3 DEF RInv, RestoreInv
    <3>2. SUFFICES ASSUME lock = "restore" PROVE TargetInv' /\ PreimageInv' /\ ApplyInv' /\ AppliedInv'
      BY <2>1, <3>1, Zenon DEF RestoreInv
    <3>3. TargetInv /\ PreimageInv
      BY <3>2, Zenon DEF RInv, RestoreInv
    <3>4. TargetInv'
      BY <2>1, <2>3, <3>3, Zenon DEF TargetInv, ValidMaterial, WholeNode, HysteriaConfig
    <3>5. PreimageInv'
      BY <1>0, <2>1, <2>3, <3>3 DEF PreimageInv, SameFiles, BackupPCs, ReplacePCs
    <3> QED BY <2>3, <3>4, <3>5 DEF ApplyInv, AppliedInv
  <2> QED BY <1>0, <1>1, <2>1, <2>3, <2>4, <2>5, <2>6, GoOnFrame DEF ReplacePCs, RInv, ScalarInv
<1> QED BY <1>2, <1>3, Zenon DEF Snapshot

\* What a step of the backup that goes on leaves to be shown.
LEMMA BackupStep ==
    ASSUME RInv, op.pc \in BackupPCs, op' \in OpType, op'.pc \in {"pack", "seal", "stop"},
           op'.pc = "stop" => lock = "restore" /\ op'.preimage = Len(archives'),
           op'.data = op.data, op'.mixed = op.mixed, op'.before = op.before, op'.part = op.part,
           op'.undo = op.undo,
           UNCHANGED <<address, disk, live, enabled, lock, phase, draws, faults, rebuilds, outcome, mixed>>,
           archives' \in Seq(Archives), Len(archives') <= MaxArchives, archives' # <<>>,
           \A i \in DOMAIN archives' : ArchiveOK(archives'[i]),
           lock = "restore" => SameFiles(archives'[Len(archives')].data, op.before)
    PROVE  RInv'
<1>0. op.pc # "none" /\ op'.pc # "none" /\ op'.pc \notin {"snapshot", "create", "apply", "start", "health", "undo"}
      /\ (op'.pc \in ReplacePCs => op'.pc = "stop")
  BY DEF BackupPCs, ReplacePCs
<1>1. disk \in Disks /\ live \in Lives /\ faults \in 0..MaxFaults /\ op.part = 1
  BY <1>0, OpUnderWay DEF BackupPCs, RInv, RestoreInv
<1>2. MaterialInv' /\ NodeInv'
  BY NodeSame, Zenon
<1>3. ArchiveInv'
  <2>1. \A i \in DOMAIN archives' : ArchiveOK(archives[i])'
    BY Zenon DEF ArchiveOK, ValidMaterial, WholeAt, HysteriaConfig, SecretFiles, Decrypts
  <2> QED BY <1>0, <2>1 DEF ArchiveInv
<1>4. RestoreInv'
  <2>1. SUFFICES ASSUME lock = "restore" PROVE TargetInv' /\ PreimageInv' /\ ApplyInv' /\ AppliedInv'
    BY <1>1, Zenon DEF RestoreInv
  <2>2. TargetInv /\ PreimageInv
    BY <2>1, Zenon DEF RInv, RestoreInv
  <2>3. TargetInv'
    BY <2>2, Zenon DEF TargetInv, ValidMaterial, WholeNode, HysteriaConfig
  <2>4. ~op.undo /\ SameFiles(disk, op.before)
    BY <2>2, Zenon DEF PreimageInv
  <2>5. SameFiles(disk, op.before)' /\ SameFiles(archives[Len(archives)].data, op.before)'
    BY <2>1, <2>4, Zenon DEF SameFiles
  <2>6. PreimageInv'
    <3>1. Len(archives') \in DOMAIN archives'
      BY DEF ArchiveInv
    <3> QED BY <1>0, <2>4, <2>5, <3>1, Zenon DEF PreimageInv
  <2>7. ApplyInv' /\ AppliedInv'
    BY <1>0 DEF ApplyInv, AppliedInv, ReplacePCs
  <2> QED BY <2>3, <2>6, <2>7
<1>5. mixed' \in BOOLEAN /\ disk' \in Disks /\ live' \in Lives /\ faults' \in 0..MaxFaults
      /\ disk'.state = disk.state
  BY <1>1, Zenon DEF RInv, ScalarInv
<1> QED BY <1>0, <1>2, <1>3, <1>4, <1>5, GoOnFrame, Zenon

\* A node all of whose files are there is whole.
LEMMA StemsWhole ==
    ASSUME NEW d \in Disks, Stems(d), \A p \in Parts : d[p] # NoDisk[p], d.db.exists
    PROVE  WholeAt(d, address)
<1>1. /\ d.material # NoMaterial /\ d.control # NoDisk.control /\ d.gateway # 0 /\ d.xray # 0
      /\ d.hysteria # NoHysteria /\ d.compose # 0 /\ d.stack # 0 /\ d.caddy # 0
  <2>1. /\ NoDisk.material = NoMaterial /\ NoDisk.gateway = 0 /\ NoDisk.xray = 0
        /\ NoDisk.hysteria = NoHysteria /\ NoDisk.compose = 0 /\ NoDisk.stack = 0 /\ NoDisk.caddy = 0
    BY Zenon DEF NoDisk
  <2> QED BY <2>1, Names
<1>2. /\ SecretFiles(d) /\ d.material.api = d.api /\ d.material.obfs = d.obfs
      /\ d.control = ControlConfig(d.material) /\ d.gateway = GatewayConfig(d.material)
      /\ d.xray = XrayConfig(d.material) /\ d.hysteria = HysteriaConfig(d.material)
      /\ d.compose = Release /\ d.stack = address /\ d.material.node = d.material.key
  BY <1>1, Zenon DEF Stems
<1>3. d.caddy > 0
  BY <1>1, DiskParts DEF DiskFields
<1>4. d.gateway = d.hysteria.page
  BY <1>2 DEF GatewayConfig, HysteriaConfig
<1>5. Decrypts(d.db, d.master)
  BY Zenon DEF Stems, Decrypts
<1> QED BY <1>2, <1>3, <1>4, <1>5, Zenon DEF WholeAt, ControlConfig, XrayConfig

\* An archive is added.
LEMMA Added ==
    ASSUME archives \in Seq(Archives), NEW a \in Archives, archives' = Append(archives, a)
    PROVE  /\ archives' \in Seq(Archives) /\ Len(archives') = Len(archives) + 1 /\ archives' # <<>>
           /\ archives'[Len(archives')] = a
           /\ \A i \in DOMAIN archives' : archives'[i] = a \/ (i \in DOMAIN archives /\ archives'[i] = archives[i])
OBVIOUS

\* The payload of a node that is not mixed is a whole node.
LEMMA CreateArchiveInv ==
    ASSUME RInv, CreateArchive
    PROVE  RInv'
<1>0. op.pc = "create" /\ op.pc # "none" /\ op.pc \in BackupPCs
  BY DEF CreateArchive, BackupPCs
<1>1. /\ disk \in Disks /\ live \in Lives /\ op \in OpType /\ archives \in Seq(Archives)
      /\ Len(archives) <= MaxArchives /\ faults \in 0..MaxFaults
      /\ disk.state = [version |-> Release, address |-> address]
  BY <1>0, OpUnderWay
<1>2. CASE BackupAbort /\ NoFault
  BY <1>0, <1>1, <1>2, AbortInv, Zenon DEF NoFault
<1>3. CASE /\ ~\E p \in Parts : Payload[p] = NoDisk[p]
           /\ archives' = Append(archives, [data |-> Payload, members |-> {}, listed |-> TRUE,
                                            sealed |-> FALSE, mixed |-> mixed])
           /\ op' = [op EXCEPT !.pc = "pack"]
           /\ UNCHANGED <<nodeVars, outcome, mixed>>
  <2> DEFINE a == [data |-> Payload, members |-> {}, listed |-> TRUE, sealed |-> FALSE, mixed |-> mixed]
  <2>1. UNCHANGED <<address, disk, live, enabled, lock, phase, draws, faults, rebuilds, outcome, mixed>>
    BY <1>3, Zenon DEF nodeVars
  <2>2. /\ op' \in OpType /\ op'.pc = "pack" /\ op'.data = op.data
        /\ op'.mixed = op.mixed /\ op'.before = op.before /\ op'.part = op.part /\ op'.undo = op.undo
    <3>1. "pack" \in OpPCs
      BY DEF OpPCs
    <3> QED BY <1>1, <1>3, <3>1, OpMoves, Zenon
  <2>3. "db" \in Parts /\ op.db \in PartTypes["db"] /\ op.db.exists
    BY <1>0, <1>1, OpParts, Names DEF PartTypes, RInv, ArchiveInv
  <2>4. Payload = [disk EXCEPT !["db"] = op.db]
    BY Zenon DEF Payload
  <2>5. Payload \in Disks
    BY <1>1, <2>3, <2>4, DiskPut, Zenon
  <2>6. Payload.db = op.db /\ \A p \in Parts \ {"db"} : Payload[p] = disk[p]
    BY <1>1, <2>3, <2>4, Zenon DEF Disks
  <2>7. Payload.material = disk.material /\ Payload.state = disk.state /\ Payload.material # NoMaterial
    <3>1. Payload["material"] # NoDisk["material"] /\ NoDisk.material = NoMaterial
      BY <1>3, Names DEF NoDisk
    <3> QED BY <2>6, <3>1, Names
  <2>8. a \in Archives
    BY <2>5, Zenon DEF Archives, RInv, ScalarInv
  <2>9. a.data = Payload /\ a.mixed = mixed
    BY Zenon
  <2>10. ArchiveOK(a)
    <3>1. ValidMaterial(a.data.material)
      BY <2>7, <2>9, Zenon DEF RInv, MaterialInv
    <3>2. ASSUME ~mixed PROVE WholeAt(Payload, Payload.state.address)
      <4>1. Stems(disk) /\ Runs(live, disk) /\ Decrypts(op.db, disk.master)
        BY <1>0, <3>2, Zenon DEF RInv, NodeInv, ArchiveInv
      <4>2. disk.material # NoMaterial
        BY <2>7, Zenon
      <4>3. disk.master > 0
        BY <4>1, <4>2, Zenon DEF Stems, SecretFiles, ReadSecret
      <4>4. \A m \in op.db.masters : m = disk.master /\ m > 0
        BY <4>1, <4>3, Zenon DEF Decrypts
      <4>5. Stems(Payload)
        BY <1>1, <2>4, <4>1, <4>4, DatabaseKeepsNode, Zenon
      <4>6. Payload.state.address = address
        BY <1>1, <2>7
      <4>7. \A p \in Parts : Payload[p] # NoDisk[p]
        BY <1>3, Zenon
      <4> QED BY <2>3, <2>5, <2>6, <4>5, <4>6, <4>7, StemsWhole, Zenon
    <3> QED BY <2>9, <3>1, <3>2, Zenon DEF ArchiveOK
  <2> HIDE DEF a
  <2>11. archives' = Append(archives, a)
    BY <1>3 DEF a
  <2>12. /\ archives' \in Seq(Archives) /\ Len(archives') = Len(archives) + 1 /\ archives' # <<>>
         /\ archives'[Len(archives')] = a
         /\ \A i \in DOMAIN archives' : archives'[i] = a \/ (i \in DOMAIN archives /\ archives'[i] = archives[i])
    BY <1>1, <2>8, <2>11, Added, Zenon
  <2>13. \A i \in DOMAIN archives' : ArchiveOK(archives'[i])
    BY <2>10, <2>12, Zenon DEF RInv, ArchiveInv
  <2>14. Len(archives') <= MaxArchives
    <3>1. Len(archives) < MaxArchives /\ Len(archives) \in Nat
      BY <1>0, <1>1 DEF RInv, ArchiveInv
    <3> QED BY <2>12, <3>1
  <2>15. ASSUME lock = "restore" PROVE SameFiles(archives'[Len(archives')].data, op.before)
    <3>1. SameFiles(disk, op.before)
      BY <1>0, <2>15, Zenon DEF RInv, RestoreInv, PreimageInv
    <3> QED BY <2>6, <2>9, <2>12, <3>1, Zenon DEF SameFiles
  <2> QED BY <1>0, <2>1, <2>2, <2>12, <2>13, <2>14, <2>15, BackupStep, Zenon
<1> QED BY <1>2, <1>3, Zenon DEF CreateArchive

\* The last archive is changed.
LEMMA Changed ==
    ASSUME archives \in Seq(Archives), archives # <<>>, NEW b \in Archives,
           archives' = [archives EXCEPT ![Len(archives)] = b]
    PROVE  /\ archives' \in Seq(Archives) /\ Len(archives') = Len(archives) /\ archives' # <<>>
           /\ archives'[Len(archives')] = b
           /\ \A i \in DOMAIN archives' : archives'[i] = b \/ (i \in DOMAIN archives /\ archives'[i] = archives[i])
OBVIOUS

\* The members or the checksum are added to the archive that was begun.
LEMMA LastArchive ==
    ASSUME RInv, op.pc \in {"pack", "seal"},
           \/ archives' = [archives EXCEPT ![Len(archives)].members = Parts]
           \/ archives' = [archives EXCEPT ![Len(archives)].sealed = TRUE]
    PROVE  /\ archives' \in Seq(Archives) /\ Len(archives') = Len(archives) /\ archives' # <<>>
           /\ Len(archives') <= MaxArchives
           /\ \A i \in DOMAIN archives' : ArchiveOK(archives'[i])
           /\ lock = "restore" => SameFiles(archives'[Len(archives')].data, op.before)
<1> DEFINE a == archives[Len(archives)]
<1>1. archives \in Seq(Archives) /\ archives # <<>> /\ Len(archives) <= MaxArchives
  BY DEF RInv, TypesInv, ArchiveInv
<1>2. a \in Archives /\ Len(archives) \in DOMAIN archives
  BY <1>1
<1>3. ArchiveOK(a) /\ (lock = "restore" => SameFiles(a.data, op.before))
  BY <1>2, Zenon DEF RInv, ArchiveInv, RestoreInv, PreimageInv
<1>4. \E b \in Archives : /\ archives' = [archives EXCEPT ![Len(archives)] = b]
                          /\ b.data = a.data /\ b.mixed = a.mixed
  <2>1. CASE archives' = [archives EXCEPT ![Len(archives)].members = Parts]
    <3> DEFINE b == [a EXCEPT !.members = Parts]
    <3>1. archives' = [archives EXCEPT ![Len(archives)] = b]
      BY <2>1, Zenon
    <3>2. b \in Archives /\ b.data = a.data /\ b.mixed = a.mixed
      BY <1>2, ZenonT(60) DEF Archives
    <3> QED BY <3>1, <3>2, Zenon
  <2>2. CASE archives' = [archives EXCEPT ![Len(archives)].sealed = TRUE]
    <3> DEFINE b == [a EXCEPT !.sealed = TRUE]
    <3>1. archives' = [archives EXCEPT ![Len(archives)] = b]
      BY <2>2, Zenon
    <3>2. b \in Archives /\ b.data = a.data /\ b.mixed = a.mixed
      BY <1>2, ZenonT(60) DEF Archives
    <3> QED BY <3>1, <3>2, Zenon
  <2> QED BY <2>1, <2>2
<1>5. PICK b \in Archives : /\ archives' = [archives EXCEPT ![Len(archives)] = b]
                            /\ b.data = a.data /\ b.mixed = a.mixed
  BY <1>4, Zenon
<1> HIDE DEF a
<1>6. ArchiveOK(b)
  BY <1>3, <1>5, Zenon DEF ArchiveOK
<1>7. /\ archives' \in Seq(Archives) /\ Len(archives') = Len(archives) /\ archives' # <<>>
      /\ archives'[Len(archives')] = b
      /\ \A i \in DOMAIN archives' : archives'[i] = b \/ (i \in DOMAIN archives /\ archives'[i] = archives[i])
  BY <1>1, <1>5, Changed, Zenon
<1>8. \A i \in DOMAIN archives' : ArchiveOK(archives'[i])
  BY <1>6, <1>7, Zenon DEF RInv, ArchiveInv
<1> QED BY <1>1, <1>3, <1>5, <1>7, <1>8, Zenon

\* The members are packed.
LEMMA PackMembersInv ==
    ASSUME RInv, PackMembers
    PROVE  RInv'
<1>0. op.pc = "pack" /\ op.pc # "none" /\ op.pc \in BackupPCs /\ "seal" \in OpPCs
  BY DEF PackMembers, BackupPCs, OpPCs
<1>1. UNCHANGED <<address, disk, live, enabled, lock, phase, draws, faults, rebuilds, outcome, mixed>>
  BY Zenon DEF PackMembers, nodeVars
<1>2. op \in OpType /\ op' = [op EXCEPT !.pc = "seal"]
  BY Zenon DEF PackMembers, RInv, TypesInv
<1>3. /\ op' \in OpType /\ op'.pc = "seal" /\ op'.data = op.data
      /\ op'.mixed = op.mixed /\ op'.before = op.before /\ op'.part = op.part /\ op'.undo = op.undo
  BY <1>0, <1>2, OpMoves, Zenon
<1>4. /\ archives' \in Seq(Archives) /\ archives' # <<>> /\ Len(archives') <= MaxArchives
      /\ \A i \in DOMAIN archives' : ArchiveOK(archives'[i])
      /\ lock = "restore" => SameFiles(archives'[Len(archives')].data, op.before)
  BY <1>0, LastArchive, Zenon DEF PackMembers
<1> QED BY <1>0, <1>1, <1>3, <1>4, BackupStep, Zenon

\* The checksum is written: the backup ends, a restore has its preimage.
LEMMA WriteChecksumInv ==
    ASSUME RInv, WriteChecksum
    PROVE  RInv'
<1>0. op.pc = "seal" /\ op.pc # "none" /\ op.pc \in BackupPCs
  BY DEF WriteChecksum, BackupPCs
<1>1. UNCHANGED <<address, disk, live, enabled, phase, draws, faults, rebuilds, mixed>>
  BY Zenon DEF WriteChecksum
<1>2. phase = "none" /\ op \in OpType /\ faults \in 0..MaxFaults /\ lock \in {"backup", "restore"}
  BY <1>0, OpUnderWay
<1>3. /\ archives' \in Seq(Archives) /\ archives' # <<>> /\ Len(archives') <= MaxArchives
      /\ Len(archives') = Len(archives)
      /\ \A i \in DOMAIN archives' : ArchiveOK(archives'[i])
      /\ lock = "restore" => SameFiles(archives'[Len(archives')].data, op.before)
  BY <1>0, LastArchive, Zenon DEF WriteChecksum
<1>4. CASE End("saved")
  <2>1. "saved" \in Outcomes
    BY DEF Outcomes
  <2> QED BY <1>1, <1>2, <1>3, <1>4, <2>1, QuietEnd, Zenon
<1>5. CASE /\ lock # "backup" /\ UNCHANGED <<lock, outcome>>
           /\ op' = [op EXCEPT !.pc = "stop", !.preimage = Len(archives)]
  <2>1. Len(archives) \in 0..MaxArchives
    BY <1>3
  <2>2. /\ op' \in OpType /\ op'.pc = "stop" /\ op'.preimage = Len(archives) /\ op'.data = op.data
        /\ op'.mixed = op.mixed /\ op'.before = op.before /\ op'.part = op.part /\ op'.undo = op.undo
    BY <1>2, <1>5, <2>1, OpSealed, Zenon
  <2> QED BY <1>0, <1>1, <1>2, <1>3, <1>5, <2>2, BackupStep, Zenon
<1> QED BY <1>4, <1>5, Zenon DEF WriteChecksum

\* A backup fails.
LEMMA BackupFailsInv ==
    ASSUME RInv, BackupFails
    PROVE  RInv'
<1>1. op.pc \in BackupPCs /\ BackupAbort
  BY Zenon DEF BackupFails, BackupPCs
<1>2. faults' \in 0..MaxFaults
  BY DEF BackupFails, Fault, RInv, ScalarInv
<1> QED BY <1>1, <1>2, AbortInv, Zenon

-----------------------------------------------------------------------------
(* The archive is checked.                                                 *)

\* Of the archives that are offered only one that nothing happened to is accepted.
LEMMA OnlyIntact ==
    ASSUME NEW a \in Archives, NEW flaw \in Flaws, Validate(Offered(a, flaw)),
           disk.state = [version |-> Release, address |-> address]
    PROVE  Offered(a, flaw) = a
<1>0. /\ Offered(a, flaw).sealed /\ Offered(a, flaw).listed /\ Parts \subseteq Offered(a, flaw).members
      /\ Offered(a, flaw).data.db.exists /\ Offered(a, flaw).data.state = disk.state
  BY Zenon DEF Validate, ValidArchiveFile, ParseManifest, ManifestRecords, DatabaseMetadata, SameInstallation
<1>1. flaw # "checksum"
  <2>1. SUFFICES ASSUME flaw = "checksum" PROVE FALSE
    OBVIOUS
  <2>2. Offered(a, flaw) = [a EXCEPT !.sealed = FALSE, !.data.xray = Torn]
    BY <2>1 DEF Offered
  <2>3. Offered(a, flaw).sealed = FALSE
    BY <2>2, ZenonT(60) DEF Archives
  <2> QED BY <1>0, <2>3, Zenon
<1>2. flaw # "manifest"
  <2>1. SUFFICES ASSUME flaw = "manifest" PROVE FALSE
    OBVIOUS
  <2>2. Offered(a, flaw) = [a EXCEPT !.listed = FALSE, !.data.master = Torn]
    BY <2>1 DEF Offered
  <2>3. Offered(a, flaw).listed = FALSE
    BY <2>2, ZenonT(60) DEF Archives
  <2> QED BY <1>0, <2>3, Zenon
<1>3. flaw # "member"
  <2>1. SUFFICES ASSUME flaw = "member" PROVE FALSE
    OBVIOUS
  <2>2. Offered(a, flaw) = [a EXCEPT !.members = @ \ {"xray"}, !.data.xray = Torn]
    BY <2>1 DEF Offered
  <2>3. Offered(a, flaw).members = a.members \ {"xray"}
    BY <2>2, ZenonT(60) DEF Archives
  <2> QED BY <1>0, <2>3, Names, Zenon
<1>4. flaw # "database"
  <2>1. SUFFICES ASSUME flaw = "database" PROVE FALSE
    OBVIOUS
  <2>2. Offered(a, flaw) = [a EXCEPT !.data.db.exists = FALSE]
    BY <2>1 DEF Offered
  <2>3. a.data \in Disks /\ a.data.db \in Database
    BY DiskParts, Zenon DEF Archives, DiskFields
  <2>4. Offered(a, flaw).data = [a.data EXCEPT !.db.exists = FALSE]
    BY <2>2, ZenonT(60) DEF Archives
  <2>5. Offered(a, flaw).data.db = [a.data.db EXCEPT !.exists = FALSE]
    BY <2>3, <2>4, Names, ZenonT(60) DEF Disks
  <2>6. Offered(a, flaw).data.db.exists = FALSE
    BY <2>3, <2>5, ZenonT(60) DEF Database
  <2> QED BY <1>0, <2>6, Zenon
<1>5. flaw # "release"
  <2>1. SUFFICES ASSUME flaw = "release" PROVE FALSE
    OBVIOUS
  <2>2. Offered(a, flaw) = [a EXCEPT !.data.state.version = Release + 1, !.data.compose = Release + 1]
    BY <2>1 DEF Offered
  <2>3. a.data \in Disks /\ a.data.state \in StateFile
    BY DiskParts, Zenon DEF Archives, DiskFields
  <2>4. Offered(a, flaw).data = [[a.data EXCEPT !.state.version = Release + 1] EXCEPT !.compose = Release + 1]
    BY <2>2, ZenonT(60) DEF Archives
  <2>5. Offered(a, flaw).data.state = [a.data.state EXCEPT !.version = Release + 1]
    BY <2>3, <2>4, Names, ZenonT(60) DEF Disks
  <2>6. Offered(a, flaw).data.state.version = Release + 1
    BY <2>3, <2>5, ZenonT(60) DEF StateFile
  <2>7. disk.state.version = Release
    OBVIOUS
  <2> QED BY <1>0, <2>6, <2>7
<1>6. flaw = "none"
  BY <1>1, <1>2, <1>3, <1>4, <1>5
<1> QED BY <1>6 DEF Offered

\* ezopenpn restore.
LEMMA RestoreStartInv ==
    ASSUME RInv, NEW i \in DOMAIN archives, NEW flaw \in Flaws, RestoreStart(i, flaw)
    PROVE  RInv'
<1> DEFINE a == Offered(archives[i], flaw)
<1>0. /\ lock = "none" /\ Installed /\ Len(archives) < MaxArchives
      /\ UNCHANGED <<address, disk, live, enabled, phase, draws, faults, rebuilds, archives, mixed>>
  BY Zenon DEF RestoreStart
<1>1. /\ disk \in Disks /\ archives \in Seq(Archives) /\ Len(archives) <= MaxArchives
      /\ faults \in 0..MaxFaults /\ \A j \in DOMAIN archives : ArchiveOK(archives[j])
      /\ disk.state = [version |-> Release, address |-> address]
      /\ phase = "none"
  BY <1>0 DEF RInv, TypesInv, ScalarInv, ArchiveInv, LockInv
<1>2. archives[i] \in Archives /\ ArchiveOK(archives[i])
  BY <1>1
<1>3. CASE End("rejected")
  <2>1. "rejected" \in Outcomes
    BY DEF Outcomes
  <2> QED BY <1>0, <1>1, <1>3, <2>1, QuietEnd, Zenon
<1>4. CASE /\ Validate(a) /\ lock' = "restore" /\ outcome' = "none"
           /\ op' = [NoOp EXCEPT !.pc = "snapshot", !.data = a.data, !.mixed = a.mixed, !.before = disk]
  <2>1. a = archives[i]
    BY <1>1, <1>2, <1>4, OnlyIntact, Zenon
  <2> HIDE DEF a
  <2>2. a \in Archives /\ ArchiveOK(a) /\ Validate(a)
    BY <1>2, <1>4, <2>1, Zenon
  <2>3. a.data \in Disks /\ a.mixed \in BOOLEAN
    BY <2>2, Zenon DEF Archives
  <2>4. /\ op' \in OpType /\ op'.pc = "snapshot" /\ op'.data = a.data
        /\ op'.mixed = a.mixed /\ op'.before = disk /\ op'.part = 1 /\ op'.undo = FALSE
    BY <1>1, <1>4, <2>3, OpBegins, Zenon
  <2>5. a.data.state = disk.state /\ a.data.state.address = address
    BY <1>1, <2>2 DEF Validate, SameInstallation
  <2>6. TargetInv'
    <3>1. ValidMaterial(a.data.material) /\ (~a.mixed => WholeNode(a.data))
      BY <2>2, <2>5, Zenon DEF ArchiveOK, WholeAt, WholeNode
    <3>2. ValidMaterial(op.data.material)' /\ (~op.mixed => WholeNode(op.data))'
      BY <1>0, <2>4, <3>1, Zenon DEF ValidMaterial, WholeNode, HysteriaConfig
    <3> QED BY <1>0, <2>4, <2>5, <3>2, Zenon DEF TargetInv
  <2>7. PreimageInv'
    BY <1>0, <2>4 DEF PreimageInv, SameFiles, ReplacePCs, BackupPCs
  <2>8. RestoreInv'
    BY <2>4, <2>6, <2>7 DEF RestoreInv, ApplyInv, AppliedInv
  <2> QED BY <1>0, <1>4, <2>4, <2>8, BeginFrame, Zenon
<1> QED BY <1>3, <1>4, Zenon DEF RestoreStart

-----------------------------------------------------------------------------
(* The files are replaced.                                                 *)

\* What a step of the restore that goes on leaves to be shown.
LEMMA ReplaceStep ==
    ASSUME RInv, op.pc \in ReplacePCs, op' \in OpType, op'.pc \in {"apply", "start", "health", "undo"},
           op'.preimage = op.preimage, op'.before = op.before,
           UNCHANGED <<address, enabled, lock, phase, draws, rebuilds, archives, outcome>>,
           faults' \in 0..MaxFaults, mixed' \in BOOLEAN, disk' \in Disks, disk'.state = disk.state,
           live' \in Lives, MaterialInv', NodeInv', TargetInv', ApplyInv', AppliedInv',
           op'.pc # "apply" => op'.part = 1
    PROVE  RInv'
<1>0. op.pc # "none" /\ op'.pc # "none" /\ op'.pc \notin BackupPCs /\ op'.pc # "stop" /\ lock = "restore"
  BY DEF BackupPCs, ReplacePCs, RInv, LockInv
<1>1. archives \in Seq(Archives) /\ Len(archives) <= MaxArchives
  BY <1>0, OpUnderWay
<1>2. ArchiveInv'
  BY <1>0 DEF RInv, ArchiveInv, BackupPCs, ArchiveOK, ValidMaterial, WholeAt, HysteriaConfig
<1>3. PreimageInv'
  <2>1. op.preimage \in DOMAIN archives /\ SameFiles(archives[op.preimage].data, op.before)
    BY <1>0, Zenon DEF RInv, RestoreInv, PreimageInv
  <2>2. op'.preimage \in DOMAIN archives' /\ SameFiles(archives[op.preimage].data, op.before)'
    BY <2>1, Zenon DEF SameFiles
  <2>3. op'.pc \notin {"pack", "seal"} /\ op'.pc \notin BackupPCs \cup {"stop"}
    BY <1>0 DEF BackupPCs
  <2> QED BY <2>2, <2>3, Zenon DEF PreimageInv
<1>4. RestoreInv'
  BY <1>3, Zenon DEF RestoreInv
<1> QED BY <1>0, <1>1, <1>2, <1>4, GoOnFrame, Zenon

\* The same data are to be applied.
LEMMA SameTarget ==
    ASSUME RInv, lock = "restore", op'.data = op.data, op'.mixed = op.mixed, address' = address,
           disk'.state = disk.state
    PROVE  TargetInv'
<1>1. TargetInv
  BY Zenon DEF RInv, RestoreInv
<1> QED BY <1>1, Zenon DEF TargetInv, ValidMaterial, WholeNode, HysteriaConfig

\* What holds while the files are replaced.
LEMMA Replacing ==
    ASSUME RInv, op.pc \in ReplacePCs
    PROVE  /\ lock = "restore" /\ TargetInv /\ PreimageInv /\ ApplyInv /\ AppliedInv
           /\ op.pc # "apply" => op.part = 1
           /\ phase = "none" /\ disk \in Disks /\ live \in Lives /\ op \in OpType
           /\ archives \in Seq(Archives) /\ Len(archives) <= MaxArchives /\ faults \in 0..MaxFaults
           /\ mixed \in BOOLEAN
<1>1. op.pc # "none" /\ lock = "restore"
  BY DEF ReplacePCs, RInv, LockInv
<1>2. /\ phase = "none" /\ disk \in Disks /\ live \in Lives /\ op \in OpType
      /\ archives \in Seq(Archives) /\ Len(archives) <= MaxArchives /\ faults \in 0..MaxFaults
  BY <1>1, OpUnderWay
<1> QED BY <1>1, <1>2, Zenon DEF RInv, RestoreInv, ScalarInv

\* The services may go down.
LEMMA NodeDown ==
    ASSUME RInv, UNCHANGED <<address, disk, mixed>>, live' = live \/ live' = Down
    PROVE  MaterialInv' /\ NodeInv' /\ live' \in Lives
<1>1. MaterialInv' /\ live' \in Lives
  BY DownType, Zenon DEF RInv, MaterialInv, TypesInv
<1>2. CASE mixed
  BY <1>1, <1>2, Zenon DEF NodeInv
<1>3. CASE ~mixed
  <2>1. Stems(disk') /\ Runs(live', disk')
    BY <1>3, DownRuns, Zenon DEF RInv, NodeInv
  <2> QED BY <1>1, <2>1, NodePrimed
<1> QED BY <1>2, <1>3

\* The services are stopped.
LEMMA StopServicesInv ==
    ASSUME RInv, StopServices
    PROVE  RInv'
<1>0. op.pc = "stop" /\ op.pc \in ReplacePCs /\ "apply" \in OpPCs
  BY DEF StopServices, ReplacePCs, OpPCs
<1>1. UNCHANGED <<address, disk, enabled, lock, phase, draws, rebuilds, archives, outcome, mixed>>
  BY Zenon DEF StopServices
<1>2. /\ lock = "restore" /\ op.part = 1 /\ disk \in Disks /\ op \in OpType /\ faults \in 0..MaxFaults
      /\ mixed \in BOOLEAN /\ PreimageInv
  BY <1>0, Replacing
<1>3. ~op.undo /\ SameFiles(disk, op.before)
  BY <1>0, <1>2, Zenon DEF PreimageInv
<1>4. CASE NoFault /\ live' = Down /\ op' = [op EXCEPT !.pc = "apply"]
  <2>1. /\ op' \in OpType /\ op'.pc = "apply" /\ op'.data = op.data /\ op'.mixed = op.mixed
        /\ op'.before = op.before /\ op'.preimage = op.preimage /\ op'.part = op.part /\ op'.undo = op.undo
    BY <1>0, <1>2, <1>4, OpMoves, Zenon
  <2>2. MaterialInv' /\ NodeInv' /\ live' \in Lives
    BY <1>1, <1>4, NodeDown, Zenon
  <2>3. TargetInv'
    BY <1>1, <1>2, <2>1, SameTarget, Zenon
  <2>4. ApplyInv'
    BY <1>2, <1>3, <1>4, <2>1 DEF ApplyInv
  <2>5. AppliedInv'
    BY <2>1 DEF AppliedInv
  <2>6. faults' \in 0..MaxFaults
    BY <1>2, <1>4, Zenon DEF NoFault
  <2> QED BY <1>0, <1>1, <1>2, <2>1, <2>2, <2>3, <2>4, <2>5, <2>6, ReplaceStep, Zenon
<1>5. CASE /\ Fault("fail") /\ live' \in {live, Down}
           /\ op' = [op EXCEPT !.pc = "start", !.undo = TRUE]
  <2>1. /\ op' \in OpType /\ op'.pc = "start" /\ op'.data = op.data /\ op'.mixed = op.mixed
        /\ op'.before = op.before /\ op'.preimage = op.preimage /\ op'.part = op.part /\ op'.undo = TRUE
    BY <1>2, <1>5, OpUndone, Zenon
  <2>2. MaterialInv' /\ NodeInv' /\ live' \in Lives
    BY <1>1, <1>5, NodeDown, Zenon
  <2>3. TargetInv'
    BY <1>1, <1>2, <2>1, SameTarget, Zenon
  <2>4. ApplyInv'
    BY <2>1 DEF ApplyInv
  <2>5. AppliedInv'
    <3>1. SameFiles(disk, op.before)'
      BY <1>1, <1>3, <2>1, Zenon DEF SameFiles
    <3> QED BY <2>1, <3>1 DEF AppliedInv
  <2>6. faults' \in 0..MaxFaults
    BY <1>2, <1>5 DEF Fault
  <2> QED BY <1>0, <1>1, <1>2, <2>1, <2>2, <2>3, <2>4, <2>5, <2>6, ReplaceStep, Zenon
<1> QED BY <1>4, <1>5, Zenon DEF StopServices

\* A whole node is one node.
LEMMA WholeStems ==
    ASSUME NEW d, WholeNode(d), ValidMaterial(d.material)
    PROVE  Stems(d)
<1>1. d.material # NoMaterial /\ d.gateway = GatewayConfig(d.material)
  BY ValidIsPresent DEF WholeNode, HysteriaConfig, GatewayConfig
<1>2. d.master > 0 /\ \A m \in d.db.masters : m = d.master
  BY Zenon DEF WholeNode, SecretFiles, ReadSecret, Decrypts
<1>3. \A m \in d.db.masters : m = d.master /\ m > 0
  BY <1>2, Zenon
<1>4. d.material.node = d.material.key /\ d.control = ControlConfig(d.material)
  BY Zenon DEF ValidMaterial, WholeNode, ControlConfig
<1> QED BY <1>1, <1>3, <1>4, Zenon DEF WholeNode, Stems, XrayConfig

\* Every part but install.json is applied, and nothing else.
LEMMA OrderCovers ==
    /\ \A i \in DOMAIN ApplyOrder : ApplyOrder[i] \in Parts \ {"state"}
    /\ \A p \in Parts \ {"state"} : \E i \in 1..12 : ApplyOrder[i] = p
    /\ \A i \in DOMAIN ApplyOrder : ApplyOrder[i] \in Trees => i > 1
<1>1. /\ ApplyOrder[1] = "db" /\ ApplyOrder[2] = "control" /\ ApplyOrder[3] = "gateway"
      /\ ApplyOrder[4] = "compose" /\ ApplyOrder[5] = "stack" /\ ApplyOrder[6] = "master"
      /\ ApplyOrder[7] = "api" /\ ApplyOrder[8] = "obfs" /\ ApplyOrder[9] = "xray"
      /\ ApplyOrder[10] = "hysteria" /\ ApplyOrder[11] = "material" /\ ApplyOrder[12] = "caddy"
  BY DEF ApplyOrder
<1>2. \A i \in 1..12 : i \in {1, 2, 3, 4, 5, 6, 7, 8, 9, 10, 11, 12}
  OBVIOUS
<1>3. \A i \in 1..12 : ApplyOrder[i] \in Parts \ {"state"} /\ (ApplyOrder[i] \in Trees => i > 1)
  BY <1>1, <1>2, Names DEF Trees
<1>4. \A p \in Parts \ {"state"} : \E i \in 1..12 : ApplyOrder[i] = p
  BY <1>1, Names
<1> QED BY <1>3, <1>4, Names

\* One file after another is replaced.
LEMMA ApplyPartInv ==
    ASSUME RInv, ApplyPart
    PROVE  RInv'
<1> DEFINE p == ApplyOrder[op.part]
<1>0. op.pc = "apply" /\ op.pc \in ReplacePCs /\ "start" \in OpPCs
  BY DEF ApplyPart, ReplacePCs, OpPCs
<1>1. /\ UNCHANGED <<address, live, enabled, lock, phase, draws, faults, rebuilds, archives, outcome>>
      /\ disk' = [disk EXCEPT ![p] = op.data[p]]
  BY Zenon DEF ApplyPart
<1>2. /\ lock = "restore" /\ disk \in Disks /\ live \in Lives /\ op \in OpType /\ faults \in 0..MaxFaults
      /\ TargetInv /\ ApplyInv
  BY <1>0, Replacing
<1>3. op.part \in 1..12 /\ op.data \in Disks /\ op.mixed \in BOOLEAN
  BY <1>2, OpParts, Zenon
<1>4. p \in Parts /\ p # "state"
  BY <1>3, OrderCovers, Names
<1>5. op.data[p] \in PartTypes[p]
  BY <1>3, <1>4, DiskParts, FieldTypes, Zenon
<1>6. disk' \in Disks /\ disk'[p] = op.data[p] /\ \A y \in Parts \ {p} : disk'[y] = disk[y]
  <2>1. disk \in [Parts -> Contents]
    BY <1>2, Zenon DEF Disks
  <2> QED BY <1>1, <1>2, <1>4, <1>5, <2>1, DiskPut, Zenon
<1> HIDE DEF p
<1>7. disk'.state = disk.state /\ (disk'.material = disk.material \/ disk'.material = op.data.material)
  BY <1>4, <1>6, Names
<1>8. MaterialInv'
  BY <1>2, <1>7, Zenon DEF RInv, MaterialInv, TargetInv
<1>9. live = Down /\ (op.undo => SameFiles(op.data, op.before))
      /\ \A i \in 1..(op.part - 1) : disk[ApplyOrder[i]] = op.data[ApplyOrder[i]]
  BY <1>0, <1>2, Zenon DEF ApplyInv
<1>10. \A i \in 1..op.part : disk'[ApplyOrder[i]] = op.data[ApplyOrder[i]]
  <2>1. SUFFICES ASSUME NEW i \in 1..op.part PROVE disk'[ApplyOrder[i]] = op.data[ApplyOrder[i]]
    OBVIOUS
  <2>2. CASE ApplyOrder[i] = p
    BY <1>6, <2>2, Zenon
  <2>3. CASE ApplyOrder[i] # p
    <3>1. i # op.part
      BY <2>3, Zenon DEF p
    <3>2. i \in 1..(op.part - 1) /\ i \in DOMAIN ApplyOrder
      BY <1>3, <3>1, Names
    <3>3. ApplyOrder[i] \in Parts
      BY <3>2, OrderCovers, Zenon
    <3> QED BY <1>6, <1>9, <2>3, <3>2, <3>3, Zenon
  <2> QED BY <2>2, <2>3
<1>11. CASE /\ op.part # Len(ApplyOrder) /\ op' = [op EXCEPT !.part = @ + 1] /\ mixed' = TRUE
  <2>1. op.part + 1 \in DOMAIN ApplyOrder
    BY <1>3, <1>11, Names
  <2>2. /\ op' \in OpType /\ op'.pc = op.pc /\ op'.preimage = op.preimage /\ op'.data = op.data
        /\ op'.mixed = op.mixed /\ op'.before = op.before /\ op'.part = op.part + 1 /\ op'.undo = op.undo
    BY <1>2, <1>11, <2>1, OpAdvances, Zenon
  <2>3. NodeInv'
    BY <1>11, Zenon DEF NodeInv
  <2>4. TargetInv'
    BY <1>1, <1>2, <1>7, <2>2, SameTarget, Zenon
  <2>5. ApplyInv'
    <3>1. op'.part - 1 = op.part
      BY <1>3, <2>2
    <3>2. \A i \in 1..(op'.part - 1) : disk'[ApplyOrder[i]] = op'.data[ApplyOrder[i]]
      <4>1. 1..(op'.part - 1) = 1..op.part
        BY <3>1, Zenon
      <4>2. \A i \in 1..(op'.part - 1) : disk'[ApplyOrder[i]] = op.data[ApplyOrder[i]]
        BY <1>10, <4>1
      <4> QED BY <2>2, <4>2
    <3>3. op'.undo => SameFiles(op.data, op.before)'
      BY <1>9, <2>2, Zenon DEF SameFiles
    <3> QED BY <1>1, <1>9, <1>11, <3>2, <3>3, Zenon DEF ApplyInv
  <2>6. AppliedInv'
    BY <1>0, <2>2 DEF AppliedInv
  <2>7. op'.pc = "apply" /\ faults' \in 0..MaxFaults /\ mixed' \in BOOLEAN /\ live' \in Lives
    BY <1>0, <1>1, <1>2, <1>11, <2>2, Zenon
  <2> QED BY <1>0, <1>1, <1>6, <1>7, <1>8, <2>2, <2>3, <2>4, <2>5, <2>6, <2>7, ReplaceStep, Zenon
<1>12. CASE /\ op.part = Len(ApplyOrder) /\ op' = [op EXCEPT !.pc = "start", !.part = 1]
            /\ mixed' = op.mixed
  <2>1. /\ op' \in OpType /\ op'.pc = "start" /\ op'.preimage = op.preimage /\ op'.data = op.data
        /\ op'.mixed = op.mixed /\ op'.before = op.before /\ op'.part = 1 /\ op'.undo = op.undo
    BY <1>0, <1>2, <1>12, OpRestarts, Zenon
  <2>2. disk' = op.data
    <3>1. op.part = 12
      BY <1>12, Names
    <3>2. \A y \in Parts \ {"state"} : disk'[y] = op.data[y]
      <4>1. \A i \in 1..12 : disk'[ApplyOrder[i]] = op.data[ApplyOrder[i]]
        BY <1>10, <3>1
      <4> QED BY <4>1, OrderCovers, Zenon
    <3>3. disk'["state"] = op.data["state"]
      BY <1>2, <1>7, Zenon DEF TargetInv
    <3>4. \A y \in Parts : disk'[y] = op.data[y]
      BY <3>2, <3>3, Zenon
    <3> QED BY <1>3, <1>6, <3>4, DiskEqual
  <2>3. NodeInv'
    <3>1. CASE op.mixed
      BY <1>12, <3>1, Zenon DEF NodeInv
    <3>2. CASE ~op.mixed
      <4>1. Stems(op.data)
        BY <1>2, <3>2, WholeStems, Zenon DEF TargetInv
      <4>2. Stems(disk') /\ Runs(live', disk')
        BY <1>1, <1>9, <2>2, <4>1, DownRuns, Zenon
      <4> QED BY <1>1, <4>2, NodePrimed
    <3> QED BY <3>1, <3>2
  <2>4. TargetInv'
    BY <1>1, <1>2, <1>7, <2>1, SameTarget, Zenon
  <2>5. ApplyInv'
    BY <2>1 DEF ApplyInv
  <2>6. AppliedInv'
    <3>1. op'.undo => SameFiles(disk, op.before)'
      BY <1>9, <2>1, <2>2, Zenon DEF SameFiles
    <3>2. SameFiles(disk, op.data)' /\ op'.data.db.masters \subseteq disk'.db.masters
      BY <2>1, <2>2, Zenon DEF SameFiles
    <3>3. op'.data.db.writes <= disk'.db.writes
      <4>1. op.data.db \in Database
        BY <1>3, DiskParts, Zenon DEF DiskFields
      <4> QED BY <2>1, <2>2, <4>1 DEF Database
    <3> QED BY <2>1, <3>1, <3>2, <3>3 DEF AppliedInv
  <2>7. faults' \in 0..MaxFaults /\ mixed' \in BOOLEAN /\ live' \in Lives
    BY <1>1, <1>2, <1>3, <1>12, Zenon
  <2> QED BY <1>0, <1>1, <1>6, <1>7, <1>8, <2>1, <2>3, <2>4, <2>5, <2>6, <2>7, ReplaceStep, Zenon
<1> QED BY <1>11, <1>12, Zenon DEF ApplyPart

\* The services are started on the files that are there.
LEMMA StartServicesInv ==
    ASSUME RInv, StartServices
    PROVE  RInv'
<1>0. op.pc = "start" /\ op.pc \in ReplacePCs /\ "health" \in OpPCs
  BY DEF StartServices, ReplacePCs, OpPCs
<1>1. /\ UNCHANGED <<address, disk, enabled, lock, phase, draws, faults, rebuilds, archives, outcome, mixed>>
      /\ live' \in Starts(Services) /\ op' = [op EXCEPT !.pc = "health"]
  BY Zenon DEF StartServices
<1>2. /\ lock = "restore" /\ disk \in Disks /\ op \in OpType /\ faults \in 0..MaxFaults
      /\ mixed \in BOOLEAN /\ AppliedInv /\ op.part = 1
  BY <1>0, Replacing
<1>3. /\ op' \in OpType /\ op'.pc = "health" /\ op'.data = op.data /\ op'.mixed = op.mixed
      /\ op'.before = op.before /\ op'.preimage = op.preimage /\ op'.part = op.part /\ op'.undo = op.undo
  BY <1>0, <1>1, <1>2, OpMoves, Zenon
<1>4. live' \in Lives /\ (Stems(disk) => Runs(live', disk))
  BY <1>1, <1>2, StartsType, Zenon
<1>5. MaterialInv'
  BY <1>1, Zenon DEF RInv, MaterialInv
<1>6. NodeInv'
  <2>1. CASE mixed
    BY <1>1, <2>1, Zenon DEF NodeInv
  <2>2. CASE ~mixed
    <3>1. Stems(disk') /\ Runs(live', disk')
      BY <1>1, <1>4, <2>2, Zenon DEF RInv, NodeInv
    <3> QED BY <1>1, <3>1, NodePrimed
  <2> QED BY <2>1, <2>2
<1>7. TargetInv'
  BY <1>1, <1>2, <1>3, SameTarget, Zenon
<1>8. ApplyInv'
  BY <1>3 DEF ApplyInv
<1>9. AppliedInv'
  <2>1. live' \in Starts(Services)'
    <3>1. SameFiles(disk', disk)
      BY <1>1, Zenon DEF SameFiles
    <3> QED BY <1>1, <3>1, StartsSame, Zenon
  <2>2. op'.undo => SameFiles(disk, op.before)'
    BY <1>0, <1>1, <1>2, <1>3, Zenon DEF AppliedInv, SameFiles
  <2>3. ~op'.undo => /\ SameFiles(disk, op.data)' /\ op'.data.db.masters \subseteq disk'.db.masters
                     /\ op'.data.db.writes <= disk'.db.writes
    BY <1>0, <1>1, <1>2, <1>3, Zenon DEF AppliedInv, SameFiles
  <2> QED BY <1>3, <2>1, <2>2, <2>3 DEF AppliedInv
<1>10. faults' \in 0..MaxFaults /\ mixed' \in BOOLEAN /\ disk' \in Disks /\ disk'.state = disk.state
  BY <1>1, <1>2, Zenon
<1> QED BY <1>0, <1>1, <1>2, <1>3, <1>4, <1>5, <1>6, <1>7, <1>8, <1>9, <1>10, ReplaceStep, Zenon

\* The first failure goes back to the preimage, the second ends the restore.
LEMMA GiveUpInv ==
    ASSUME RInv, op.pc \in {"apply", "start", "health"}, GiveUp, faults' \in 0..MaxFaults
    PROVE  RInv'
<1>0. op.pc \in ReplacePCs /\ "undo" \in OpPCs
  BY DEF ReplacePCs, OpPCs
<1>1. UNCHANGED <<address, disk, live, enabled, phase, draws, rebuilds, archives, mixed>>
  BY Zenon DEF GiveUp
<1>2. /\ lock = "restore" /\ phase = "none" /\ disk \in Disks /\ live \in Lives /\ op \in OpType
      /\ archives \in Seq(Archives) /\ Len(archives) <= MaxArchives /\ mixed \in BOOLEAN
  BY <1>0, Replacing
<1>3. CASE End("lost")
  <2>1. "lost" \in Outcomes
    BY DEF Outcomes
  <2>2. \A i \in DOMAIN archives' : ArchiveOK(archives'[i])
    BY <1>1, Zenon DEF RInv, ArchiveInv
  <2> QED BY <1>1, <1>2, <1>3, <2>1, <2>2, QuietEnd, Zenon
<1>4. CASE ~op.undo /\ op' = [op EXCEPT !.pc = "undo", !.part = 1] /\ UNCHANGED <<lock, outcome>>
  <2>1. /\ op' \in OpType /\ op'.pc = "undo" /\ op'.preimage = op.preimage /\ op'.data = op.data
        /\ op'.mixed = op.mixed /\ op'.before = op.before /\ op'.part = 1 /\ op'.undo = op.undo
    BY <1>0, <1>2, <1>4, OpRestarts, Zenon
  <2>2. MaterialInv' /\ NodeInv'
    BY <1>1, NodeSame, Zenon
  <2>3. TargetInv'
    BY <1>1, <1>2, <2>1, SameTarget, Zenon
  <2>4. ApplyInv' /\ AppliedInv'
    BY <1>4, <2>1 DEF ApplyInv, AppliedInv
  <2>5. disk' \in Disks /\ disk'.state = disk.state /\ live' \in Lives /\ mixed' \in BOOLEAN
    BY <1>1, <1>2, Zenon
  <2> QED BY <1>0, <1>1, <1>4, <2>1, <2>2, <2>3, <2>4, <2>5, ReplaceStep, Zenon
<1> QED BY <1>3, <1>4, Zenon DEF GiveUp

\* The health of what was started, or a failing step.
LEMMA CheckHealthInv ==
    ASSUME RInv, CheckHealth \/ RestoreFails
    PROVE  RInv'
<1>1. CASE RestoreFails
  <2>1. op.pc \in {"apply", "start", "health"} /\ GiveUp
    BY <1>1, Zenon DEF RestoreFails
  <2>2. faults' \in 0..MaxFaults
    BY <1>1 DEF RestoreFails, Fault, RInv, ScalarInv
  <2> QED BY <2>1, <2>2, GiveUpInv, Zenon
<1>2. CASE CheckHealth
  <2>0. op.pc = "health" /\ op.pc \in ReplacePCs /\ op.pc \in {"apply", "start", "health"}
    BY <1>2 DEF CheckHealth, ReplacePCs
  <2>1. /\ phase = "none" /\ archives \in Seq(Archives) /\ Len(archives) <= MaxArchives
        /\ faults \in 0..MaxFaults
    BY <2>0, Replacing
  <2>2. faults' \in 0..MaxFaults
    BY <1>2, <2>1, Zenon DEF CheckHealth, NoFault
  <2>3. CASE GiveUp
    BY <2>0, <2>2, <2>3, GiveUpInv, Zenon
  <2>4. CASE /\ End(IF op.undo THEN "returned" ELSE "restored")
             /\ UNCHANGED <<address, disk, live, enabled, phase, draws, rebuilds, archives, mixed>>
    <3>1. PICK result \in Outcomes : End(result)
      BY <2>4 DEF Outcomes
    <3>2. \A i \in DOMAIN archives' : ArchiveOK(archives'[i])
      BY <2>4, Zenon DEF RInv, ArchiveInv
    <3> QED BY <2>1, <2>2, <2>4, <3>1, <3>2, QuietEnd, Zenon
  <2> QED BY <1>2, <2>3, <2>4, Zenon DEF CheckHealth
<1> QED BY <1>1, <1>2

\* The preimage is validated, and applied like an archive.
LEMMA RestorePreimageInv ==
    ASSUME RInv, RestorePreimage
    PROVE  RInv'
<1> DEFINE a == archives[op.preimage]
<1>0. op.pc = "undo" /\ op.pc \in ReplacePCs
  BY DEF RestorePreimage, ReplacePCs
<1>1. UNCHANGED <<address, disk, enabled, phase, draws, rebuilds, archives, mixed>>
  BY Zenon DEF RestorePreimage
<1>2. /\ lock = "restore" /\ phase = "none" /\ disk \in Disks /\ live \in Lives /\ op \in OpType
      /\ archives \in Seq(Archives) /\ Len(archives) <= MaxArchives /\ mixed \in BOOLEAN
      /\ faults \in 0..MaxFaults /\ op.part = 1 /\ PreimageInv
      /\ disk.state = [version |-> Release, address |-> address]
  BY <1>0, Replacing, OpUnderWay
<1>3. op.preimage \in DOMAIN archives /\ SameFiles(a.data, op.before)
  BY <1>0, <1>2, Zenon DEF PreimageInv
<1>4. a \in Archives /\ ArchiveOK(a)
  <2>1. a \in Archives
    BY <1>2, <1>3
  <2> QED BY <1>3, <2>1, Zenon DEF RInv, ArchiveInv
<1>5. CASE /\ Validate(a) /\ NoFault /\ live' = Down /\ UNCHANGED <<lock, outcome>>
           /\ op' = [op EXCEPT !.pc = "apply", !.undo = TRUE, !.data = PreimageData, !.mixed = a.mixed]
  <2> HIDE DEF a
  <2>1. PreimageData = a.data /\ a.data \in Disks /\ a.mixed \in BOOLEAN
    <3>1. PreimageData = a.data
      BY DEF PreimageData, a
    <3> QED BY <1>4, <3>1, Zenon DEF Archives
  <2>2. /\ op' \in OpType /\ op'.pc = "apply" /\ op'.preimage = op.preimage /\ op'.data = a.data
        /\ op'.mixed = a.mixed /\ op'.before = op.before /\ op'.part = op.part /\ op'.undo = TRUE
    <3>1. op' = [op EXCEPT !.pc = "apply", !.undo = TRUE, !.data = a.data, !.mixed = a.mixed]
      BY <1>5, <2>1
    <3> QED BY <1>2, <2>1, <3>1, OpReturns, Zenon
  <2>3. MaterialInv' /\ NodeInv' /\ live' \in Lives
    BY <1>1, <1>5, NodeDown, Zenon
  <2>4. a.data.state = disk.state /\ a.data.state.address = address
    BY <1>2, <1>5 DEF Validate, SameInstallation
  <2>5. TargetInv'
    <3>1. ValidMaterial(a.data.material) /\ (~a.mixed => WholeNode(a.data))
      BY <1>4, <2>4, Zenon DEF ArchiveOK, WholeAt, WholeNode
    <3>2. ValidMaterial(op.data.material)' /\ (~op.mixed => WholeNode(op.data))'
      BY <1>1, <2>2, <3>1, Zenon DEF ValidMaterial, WholeNode, HysteriaConfig
    <3> QED BY <1>1, <2>2, <2>4, <3>2, Zenon DEF TargetInv
  <2>6. ApplyInv'
    <3>1. SameFiles(op.data, op.before)'
      BY <1>3, <2>2, Zenon DEF SameFiles
    <3> QED BY <1>2, <1>5, <2>2, <3>1 DEF ApplyInv
  <2>7. AppliedInv'
    BY <2>2 DEF AppliedInv
  <2>8. faults' \in 0..MaxFaults /\ mixed' \in BOOLEAN /\ disk' \in Disks /\ disk'.state = disk.state
    BY <1>1, <1>2, <1>5, Zenon DEF NoFault
  <2> QED BY <1>0, <1>1, <1>5, <2>2, <2>3, <2>5, <2>6, <2>7, <2>8, ReplaceStep, Zenon
<1>6. CASE (NoFault \/ Fault("fail")) /\ live' \in {live, Down} /\ End("lost")
  <2>1. "lost" \in Outcomes
    BY DEF Outcomes
  <2>2. \A i \in DOMAIN archives' : ArchiveOK(archives'[i])
    BY <1>1, Zenon DEF RInv, ArchiveInv
  <2>3. faults' \in 0..MaxFaults
    BY <1>2, <1>6 DEF NoFault, Fault
  <2> QED BY <1>1, <1>2, <1>6, <2>1, <2>2, <2>3, QuietEnd, Zenon
<1> QED BY <1>5, <1>6, Zenon DEF RestorePreimage

\* The script dies.
LEMMA ScriptKilledInv ==
    ASSUME RInv, ScriptKilled
    PROVE  RInv'
<1>0. op.pc # "none"
  BY Zenon DEF ScriptKilled, RInv, LockInv
<1>1. /\ UNCHANGED <<address, live, enabled, phase, draws, rebuilds, archives, outcome, mixed>>
      /\ op' = NoOp /\ lock' = "none"
  BY Zenon DEF ScriptKilled
<1>2. /\ phase = "none" /\ disk \in Disks /\ live \in Lives /\ op \in OpType
      /\ archives \in Seq(Archives) /\ Len(archives) <= MaxArchives /\ Installed
      /\ disk.state = [version |-> Release, address |-> address]
  BY <1>0, OpUnderWay
<1>3. faults' \in 0..MaxFaults
  BY DEF ScriptKilled, Fault, RInv, ScalarInv
<1>4. ScalarInv'
  BY <1>1, <1>3, Zenon DEF RInv, ScalarInv
<1>5. disk' \in Disks /\ disk'.state = disk.state /\ MaterialInv' /\ NodeInv'
  <2>1. CASE UNCHANGED disk
    BY <1>1, <1>2, <2>1, NodeSame, Zenon
  <2>2. CASE /\ op.pc = "apply" /\ ApplyOrder[op.part] \in Trees
             /\ disk' = [disk EXCEPT ![ApplyOrder[op.part]] = NoDisk[ApplyOrder[op.part]]]
    <3> DEFINE p == ApplyOrder[op.part]
    <3>1. op.part \in 1..12 /\ op.part \in DOMAIN ApplyOrder
      BY <1>2, OpParts, Names
    <3>2. p \in Parts /\ p # "state" /\ op.part > 1
      BY <2>2, <3>1, OrderCovers, Zenon
    <3>3. mixed
      <4>1. op.pc \in ReplacePCs
        BY <2>2 DEF ReplacePCs
      <4> QED BY <2>2, <3>2, <4>1, Replacing, Zenon DEF ApplyInv
    <3>4. NoDisk[p] \in PartTypes[p]
      BY <3>2, NoDiskType, DiskParts, FieldTypes, Zenon
    <3>5. disk \in [Parts -> Contents]
      BY <1>2, Zenon DEF Disks
    <3>6. disk' \in Disks /\ disk'[p] = NoDisk[p] /\ \A y \in Parts \ {p} : disk'[y] = disk[y]
      BY <1>2, <2>2, <3>2, <3>4, <3>5, DiskPut, Zenon
    <3> HIDE DEF p
    <3>7. disk'.state = disk.state /\ (disk'.material = disk.material \/ disk'.material = NoMaterial)
      <4>1. NoDisk["material"] = NoMaterial
        BY Zenon DEF NoDisk
      <4> QED BY <3>2, <3>6, <4>1, Names
    <3>8. MaterialInv' /\ NodeInv'
      BY <1>1, <3>3, <3>7, Zenon DEF RInv, MaterialInv, NodeInv
    <3> QED BY <3>6, <3>7, <3>8
  <2> QED BY <2>1, <2>2, Zenon DEF ScriptKilled
<1>6. Installed' /\ (disk.state = [version |-> Release, address |-> address])'
  BY <1>1, <1>2, <1>5, Zenon DEF Installed
<1>7. \A i \in DOMAIN archives' : ArchiveOK(archives'[i])
  BY <1>1, Zenon DEF RInv, ArchiveInv
<1>8. live' \in Lives /\ archives' \in Seq(Archives) /\ Len(archives') <= MaxArchives /\ phase' = "none"
  BY <1>1, <1>2, Zenon
<1> QED BY <1>1, <1>4, <1>5, <1>6, <1>7, <1>8, EndFrame, Zenon

-----------------------------------------------------------------------------
(* The inductive invariant.                                                *)

\* A new server.
LEMMA InitInv == Init => RInv
<1>1. SUFFICES ASSUME Init PROVE RInv
  OBVIOUS
<1>2. /\ address \in Addresses /\ disk = NoDisk /\ live = Down /\ enabled = FALSE /\ lock = "none"
      /\ phase = "none" /\ draws = 0 /\ faults = 0 /\ rebuilds = 0
      /\ archives = <<>> /\ op = NoOp /\ outcome = "none" /\ mixed = FALSE
  BY <1>1, Zenon DEF Init, NodeInit
<1>3. /\ NoDisk.material = NoMaterial /\ NoDisk.state = NoState /\ NoDisk.gateway = 0 /\ NoDisk.xray = 0
      /\ NoDisk.hysteria = NoHysteria /\ NoDisk.compose = 0 /\ NoDisk.stack = 0
      /\ NoDisk.db = NoDatabase
  BY Zenon DEF NoDisk
<1>4. NoDatabase.masters = {}
  BY DEF NoDatabase
<1>5. ScalarInv
  <2>1. 0 \in 0..MaxFaults /\ 0 \in 0..MaxRebuilds /\ 0 \in Nat
    OBVIOUS
  <2> QED BY <1>2, <2>1, Zenon DEF ScalarInv, Outcomes
<1>6. TypesInv
  BY <1>2, NoDiskType, DownType, NoOpType DEF TypesInv
<1>7. ~Installed
  BY <1>2, <1>3 DEF Installed
<1>8. LockInv
  BY <1>2, <1>7, NoOpType DEF LockInv, ReplacePCs
<1>9. MaterialInv
  BY <1>2, <1>3, Zenon DEF MaterialInv
<1>10. NodeInv
  BY <1>2, <1>3, <1>4 DEF NodeInv, Stems, Runs
<1>11. ArchiveInv
  BY <1>2, NoOpType DEF ArchiveInv
<1>12. RestoreInv
  BY <1>2, NoOpType DEF RestoreInv
<1> QED BY <1>5, <1>6, <1>8, <1>9, <1>10, <1>11, <1>12 DEF RInv

\* Nothing happens.
LEMMA StutterInv == RInv /\ UNCHANGED vars => RInv'
<1>1. SUFFICES ASSUME RInv, UNCHANGED vars PROVE RInv'
  OBVIOUS
<1>2. UNCHANGED <<address, disk, live, enabled, lock, phase, draws, faults, rebuilds, archives, op,
                  outcome, mixed>>
  BY <1>1, Zenon DEF vars, nodeVars
<1>3. ScalarInv' /\ TypesInv' /\ LockInv' /\ MaterialInv'
  BY <1>1, <1>2, Zenon DEF RInv, ScalarInv, TypesInv, LockInv, MaterialInv, Installed
<1>4. NodeInv'
  BY <1>1, <1>2, NodeSame, Zenon
<1>5. ArchiveInv'
  BY <1>1, <1>2, Zenon DEF RInv, ArchiveInv, ArchiveOK, ValidMaterial, WholeAt, HysteriaConfig, Decrypts
<1>6. RestoreInv'
  <2>1. op'.pc # "apply" => op'.part = 1
    BY <1>1, <1>2 DEF RInv, RestoreInv
  <2>2. SUFFICES ASSUME lock = "restore" PROVE TargetInv' /\ PreimageInv' /\ ApplyInv' /\ AppliedInv'
    BY <1>2, <2>1, Zenon DEF RestoreInv
  <2>3. TargetInv /\ PreimageInv /\ ApplyInv /\ AppliedInv
    BY <1>1, <2>2, Zenon DEF RInv, RestoreInv
  <2>4. Starts(Services)' = Starts(Services)
    BY <1>2, StartsSame, Zenon DEF SameFiles
  <2>5. TargetInv'
    BY <1>2, <2>3, Zenon DEF TargetInv, ValidMaterial, WholeNode, HysteriaConfig
  <2>6. PreimageInv'
    BY <1>2, <2>3, Zenon DEF PreimageInv, SameFiles
  <2>7. ApplyInv'
    BY <1>2, <2>3, Zenon DEF ApplyInv, SameFiles
  <2>8. AppliedInv'
    BY <1>2, <2>3, <2>4, Zenon DEF AppliedInv, SameFiles
  <2> QED BY <2>5, <2>6, <2>7, <2>8
<1> QED BY <1>3, <1>4, <1>5, <1>6 DEF RInv

\* Every step keeps the invariant.
LEMMA NextInv == RInv /\ [Next]_vars => RInv'
<1>1. SUFFICES ASSUME RInv, [Next]_vars PROVE RInv'
  OBVIOUS
<1>2. CASE UNCHANGED vars
  BY <1>1, <1>2, StutterInv
<1>3. CASE RestoreNext
  BY <1>1, <1>3, BackupStartInv, SnapshotInv, CreateArchiveInv, PackMembersInv, WriteChecksumInv,
     BackupFailsInv, RestoreStartInv, StopServicesInv, ApplyPartInv, StartServicesInv, CheckHealthInv,
     RestorePreimageInv, ScriptKilledInv, Zenon DEF RestoreNext
<1>4. CASE Reboot /\ op' = NoOp /\ UNCHANGED <<archives, outcome, mixed>>
  BY <1>1, <1>4, RebootInv
<1>5. CASE Rebuild /\ op' = NoOp /\ mixed' = FALSE /\ UNCHANGED <<archives, outcome>>
  BY <1>1, <1>5, RebuildInv
<1>6. CASE (InstallStart \/ InstallStep \/ InstallFails \/ InstallKilled \/ PanelWrite)
           /\ UNCHANGED restoreVars
  BY <1>1, <1>6, InstallInv, PanelInv
<1> QED BY <1>1, <1>2, <1>3, <1>4, <1>5, <1>6, Zenon DEF Next

\* RInv holds throughout: installation, backup and restore in any order and with
\* any interruption.
THEOREM RestoreInvariant == Spec => []RInv
BY InitInv, NextInv, PTL DEF Spec

-----------------------------------------------------------------------------
(* The results.                                                            *)

\* Only the temporaries of the installation are ever left behind.
LEMMA LeftoversKnown == Spec => [](leftovers \subseteq {"checkpoint", "stack", "state"})
<1> DEFINE Known == leftovers \subseteq {"checkpoint", "stack", "state"}
<1>1. Init => Known
  BY Zenon DEF Init, NodeInit
<1>2. ASSUME Known, [Next]_vars PROVE Known'
  <2>1. CASE UNCHANGED leftovers
    BY <1>2, <2>1, Zenon
  <2>2. CASE InstallKilled
    <3>1. Temporaries \subseteq {"checkpoint", "stack", "state"}
      BY DEF Temporaries
    <3>2. CASE \E file \in Temporaries : leftovers' = leftovers \cup {file}
      BY <1>2, <3>1, <3>2
    <3> QED BY <2>1, <2>2, <3>2, Zenon DEF InstallKilled
  <2>3. CASE Rebuild
    BY <2>3, Zenon DEF Rebuild
  <2>4. CASE InstallStart \/ InstallFails \/ PanelWrite \/ Reboot \/ UNCHANGED vars
    BY <2>1, <2>4, Zenon DEF InstallStart, InstallFails, InstallRollback, PanelWrite, Reboot, vars, nodeVars
  <2>5. CASE InstallStep
    BY <2>1, <2>5, Zenon DEF InstallStep, RecordPhase, ConfigureSecret, DrawMaterial, CheckMaterial, Render,
       WriteStack, StartGateway, MigrateControl, StartRuntimes, InstallUnit, CompleteInstall, Proceed,
       InstallRollback
  <2>6. CASE RestoreNext
    BY <2>1, <2>6, Zenon DEF RestoreNext, BackupStart, Snapshot, CreateArchive, PackMembers, WriteChecksum,
       BackupFails, BackupAbort, RestoreStart, StopServices, ApplyPart, StartServices, CheckHealth,
       RestoreFails, RestorePreimage, GiveUp, ScriptKilled, nodeVars
  <2> QED BY <1>2, <2>2, <2>3, <2>4, <2>5, <2>6, Zenon DEF Next
<1> QED BY <1>1, <1>2, PTL DEF Spec

\* TypeOK: the installation, backup and restore scripts and the archive tool keep
\* every file, every loaded value, the operation under way and every bound in its type.
THEOREM RestoreTypeCorrect == Spec => []TypeOK
<1>1. ASSUME RInv, leftovers \subseteq {"checkpoint", "stack", "state"} PROVE TypeOK
  <2>1. DiskFields(disk) /\ LiveFields(live) /\ op \in OpType /\ Len(archives) <= MaxArchives
    BY <1>1, DiskParts, Zenon DEF RInv, TypesInv, Lives
  <2>2. /\ op.pc \in OpPCs /\ op.preimage \in 0..MaxArchives /\ op.part \in DOMAIN ApplyOrder
        /\ op.undo \in BOOLEAN
    BY <2>1, Zenon DEF OpType
  <2>3. disk.db.masters \subseteq Nat /\ disk.db.writes \in 0..MaxWrites
    BY <2>1 DEF DiskFields, Database
  <2>4. NodeTypeOK
    BY <1>1, <2>1, <2>3, Zenon DEF RInv, ScalarInv, DiskFields, LiveFields, NodeTypeOK, ControlFile,
       HysteriaFile, MaterialFile, PanelType
  <2> QED BY <1>1, <2>1, <2>2, <2>4, Zenon DEF RInv, ScalarInv, TypeOK, OpPCs, Outcomes
<1> QED BY <1>1, RestoreInvariant, LeftoversKnown, PTL

\* SavedMaterialRenders: whatever runs, dies or is restored, the material that
\* configure.sh saved is one that render_config accepts.
THEOREM MaterialAlwaysRenders == Spec => []SavedMaterialRenders
<1>1. RInv => SavedMaterialRenders
  BY Zenon DEF RInv, MaterialInv, SavedMaterialRenders
<1> QED BY <1>1, RestoreInvariant, PTL

\* AppliesOnlyWholeNodes: validate_and_extract lets only data of one node, at this
\* address and of this release, be applied.
THEOREM OnlyWholeNodesApplied == Spec => []AppliesOnlyWholeNodes
<1>1. ASSUME RInv PROVE AppliesOnlyWholeNodes
  <2>1. SUFFICES ASSUME op.pc = "apply" PROVE op.mixed \/ WholeNode(op.data)
    BY Zenon DEF AppliesOnlyWholeNodes
  <2>2. op.pc \in ReplacePCs
    BY <2>1 DEF ReplacePCs
  <2> QED BY <1>1, <2>2, Replacing, Zenon DEF TargetInv
<1> QED BY <1>1, RestoreInvariant, PTL

\* LinksConnect: unless a restore was interrupted among its files, what the panel
\* hands out fits the transports that run.
THEOREM LinksAlwaysConnect == Spec => []LinksConnect
<1>1. ASSUME RInv PROVE LinksConnect
  <2>1. SUFFICES ASSUME ~mixed, live.control # NoControl PROVE OneNode
    BY Zenon DEF LinksConnect, OneNode
  <2>2. Stems(disk) /\ Runs(live, disk)
    BY <1>1, <2>1, Zenon DEF RInv, NodeInv
  <2>3. disk.material # NoMaterial
    <3>1. Down.control = NoControl
      BY DEF Down
    <3> QED BY <2>1, <2>2, <3>1, Zenon DEF Runs
  <2>4. /\ live.control = Panel(disk) /\ live.gateway \in {0, GatewayConfig(disk.material)}
        /\ live.xray \in {0, XrayConfig(disk.material)}
        /\ live.hysteria \in {NoHysteria, HysteriaConfig(disk.material)}
        /\ disk.material.api = disk.api /\ disk.material.obfs = disk.obfs
        /\ \A m \in disk.db.masters : m = disk.master
    BY <2>1, <2>2, <2>3, Zenon DEF Runs, Stems
  <2>5. /\ live.control.key = disk.material.key /\ live.control.host = address
        /\ live.control.master = disk.master /\ live.control.api = disk.api
        /\ live.control.obfs = disk.obfs
    BY <2>4 DEF Panel
  <2>6. live.xray > 0 => VlessLink(live.control) = [host |-> address, key |-> live.xray]
    BY <2>4, <2>5 DEF VlessLink, XrayConfig
  <2>7. live.hysteria # NoHysteria =>
           /\ HysteriaLink(live.control) = [host |-> address, obfs |-> live.hysteria.obfs]
           /\ live.control.api = live.hysteria.api
           /\ live.gateway > 0 => live.gateway = live.hysteria.page
    BY <2>4, <2>5 DEF HysteriaLink, HysteriaConfig, GatewayConfig
  <2>8. Subscription = {Bundle(live.control)}
    BY <2>4, <2>5, Zenon DEF Subscription, Decrypts
  <2> QED BY <2>6, <2>7, <2>8, Zenon DEF OneNode
<1> QED BY <1>1, RestoreInvariant, PTL

\* What may not happen to a secret or a key that was drawn.
IdentityKept ==
    /\ \A s \in {"master", "api", "obfs"} : disk[s] > 0 => disk'[s] = disk[s]
    /\ disk.material # NoMaterial => disk'.material = disk.material

\* A file that is no secret and no material is replaced.
LEMMA OtherFile ==
    ASSUME disk \in Disks, NEW x \in Parts \ {"master", "api", "obfs", "material"},
           NEW v, disk' = [disk EXCEPT ![x] = v]
    PROVE  IdentityKept
<1>1. \A y \in Parts \ {x} : disk'[y] = disk[y]
  BY Zenon DEF Disks
<1>2. disk'["master"] = disk["master"] /\ disk'["api"] = disk["api"] /\ disk'["obfs"] = disk["obfs"]
      /\ disk'["material"] = disk["material"]
  BY <1>1, Names
<1> QED BY <1>2, Zenon DEF IdentityKept

\* The installation draws what is missing and keeps what is there.
LEMMA InstallKeeps ==
    ASSUME RInv, InstallStart \/ InstallStep \/ InstallFails \/ InstallKilled \/ PanelWrite
    PROVE  IdentityKept
<1>0. disk \in Disks
  BY Zenon DEF RInv, TypesInv
<1>1. ASSUME UNCHANGED disk PROVE IdentityKept
  BY <1>1, Zenon DEF IdentityKept
<1>2. ASSUME NEW x \in Secrets, NEW v, disk' = [disk EXCEPT ![x] = v], disk[x] > 0 => v = disk[x]
      PROVE  IdentityKept
  <2>1. x \in Parts /\ x # "material"
    BY Names DEF Secrets
  <2>2. disk'[x] = v /\ \A y \in Parts \ {x} : disk'[y] = disk[y]
    BY <1>0, <1>2, <2>1, Zenon DEF Disks
  <2>3. disk'.material = disk.material
    BY <2>1, <2>2, Names
  <2>4. \A s \in {"master", "api", "obfs"} : disk[s] > 0 => disk'[s] = disk[s]
    <3>1. {"master", "api", "obfs"} \subseteq Parts
      BY Names
    <3> QED BY <1>2, <2>2, <3>1, Zenon
  <2> QED BY <2>3, <2>4 DEF IdentityKept
<1>3. CASE InstallStart \/ InstallFails
  BY <1>1, <1>3, Zenon DEF InstallStart, InstallFails, InstallRollback
<1>4. CASE ConfigureSecret
  <2>1. CASE UNCHANGED disk
    BY <1>1, <2>1
  <2>2. CASE phase \in Secrets /\ disk[phase] # Torn /\ disk' = [disk EXCEPT ![phase] = Drawn(disk[phase])]
    <3>1. disk[phase] > 0 => Drawn(disk[phase]) = disk[phase]
      BY DEF Drawn
    <3> QED BY <1>2, <2>2, <3>1, Zenon
  <2> QED BY <1>4, <2>1, <2>2, Zenon DEF ConfigureSecret, InstallRollback, Secrets
<1>5. CASE DrawMaterial
  <2>1. CASE UNCHANGED disk
    BY <1>1, <2>1
  <2>2. CASE disk.material = NoMaterial /\ \E v : disk' = [disk EXCEPT !["material"] = v]
    <3>1. PICK v : disk' = [disk EXCEPT !["material"] = v]
      BY <2>2
    <3>2. "material" \in Parts /\ {"master", "api", "obfs"} \subseteq Parts \ {"material"}
      BY Names
    <3>3. \A y \in Parts \ {"material"} : disk'[y] = disk[y]
      BY <1>0, <3>1, Zenon DEF Disks
    <3> QED BY <2>2, <3>2, <3>3, Zenon DEF IdentityKept
  <2> QED BY <1>5, <2>1, <2>2, Zenon DEF DrawMaterial, InstallRollback
<1>6. CASE Render
  <2>1. phase \in {"control", "gateway", "compose", "xray", "hysteria"}
    BY <1>6 DEF Render, Rendered
  <2>2. phase \in Parts \ {"master", "api", "obfs", "material"}
    BY <2>1, Names
  <2> QED BY <1>0, <1>1, <1>6, <2>2, OtherFile, Zenon DEF Render, InstallRollback
<1>7. CASE StartGateway
  <2>1. "caddy" \in Parts \ {"master", "api", "obfs", "material"}
    BY Names
  <2>2. disk' = [disk EXCEPT !["caddy"] = Drawn(disk.caddy)]
    BY <1>7, Zenon DEF StartGateway
  <2> QED BY <1>0, <2>1, <2>2, OtherFile, Zenon
<1>8. CASE MigrateControl
  <2>1. "db" \in Parts \ {"master", "api", "obfs", "material"}
    BY Names
  <2>2. UNCHANGED disk \/ disk' = [disk EXCEPT !["db"] = [disk.db EXCEPT !.exists = TRUE]]
    BY <1>8, Zenon DEF MigrateControl, InstallRollback
  <2> QED BY <1>0, <1>1, <2>1, <2>2, OtherFile, Zenon
<1>9. CASE RecordPhase \/ CheckMaterial \/ StartRuntimes \/ InstallUnit
  BY <1>1, <1>9, Zenon DEF RecordPhase, CheckMaterial, StartRuntimes, InstallUnit, InstallRollback
<1>10. CASE CompleteInstall
  <2>1. "state" \in Parts \ {"master", "api", "obfs", "material"}
    BY Names
  <2>2. \/ UNCHANGED disk
        \/ disk' = [disk EXCEPT !["state"] = [version |-> Release, address |-> address]]
    BY <1>10, Zenon DEF CompleteInstall, InstallRollback
  <2> QED BY <1>0, <1>1, <2>1, <2>2, OtherFile, Zenon
<1>11. CASE InstallKilled
  <2>1. CASE UNCHANGED disk
    BY <1>1, <2>1
  <2>2. CASE phase \in Secrets /\ disk[phase] = 0 /\ disk' = [disk EXCEPT ![phase] = Torn]
    <3>1. ~(disk[phase] > 0)
      BY <2>2
    <3> QED BY <1>2, <2>2, <3>1, Zenon
  <2> QED BY <1>11, <2>1, <2>2, Zenon DEF InstallKilled, Secrets
<1>12. CASE PanelWrite
  <2>1. "db" \in Parts \ {"master", "api", "obfs", "material"}
    BY Names
  <2>2. disk' = [disk EXCEPT !["db"] = [disk.db EXCEPT !.writes = @ + 1,
                                                      !.masters = @ \cup {live.control.master}]]
    BY <1>12, Zenon DEF PanelWrite
  <2> QED BY <1>0, <2>1, <2>2, OtherFile, Zenon
<1>13. CASE WriteStack
  <2>1. "stack" \in Parts \ {"master", "api", "obfs", "material"}
    BY Names
  <2>2. UNCHANGED disk \/ disk' = [disk EXCEPT !["stack"] = address]
    BY <1>13, Zenon DEF WriteStack, InstallRollback
  <2> QED BY <1>0, <1>1, <2>1, <2>2, OtherFile, Zenon
<1> QED BY <1>3, <1>4, <1>5, <1>6, <1>7, <1>8, <1>9, <1>10, <1>11, <1>12, <1>13, Zenon DEF InstallStep

\* Of the backup and the restore only the steps that replace files write any.
LEMMA OnlyReplacing ==
    ASSUME RInv, RestoreNext, lock # "restore"
    PROVE  UNCHANGED disk
<1>1. op.pc # "apply" /\ op.pc # "stop"
  BY DEF RInv, LockInv, ReplacePCs
<1>2. CASE BackupStart \/ Snapshot \/ CreateArchive \/ PackMembers \/ WriteChecksum \/ BackupFails
  BY <1>2, Zenon DEF BackupStart, Snapshot, CreateArchive, PackMembers, WriteChecksum, BackupFails,
     BackupAbort, nodeVars
<1>3. CASE \/ \E i \in DOMAIN archives, flaw \in Flaws : RestoreStart(i, flaw)
           \/ StopServices \/ StartServices
  BY <1>3, Zenon DEF RestoreStart, StopServices, StartServices
<1>4. CASE CheckHealth \/ RestoreFails \/ RestorePreimage
  BY <1>4, Zenon DEF CheckHealth, RestoreFails, GiveUp, RestorePreimage
<1>5. CASE ApplyPart \/ ScriptKilled
  BY <1>1, <1>5, Zenon DEF ApplyPart, ScriptKilled
<1> QED BY <1>2, <1>3, <1>4, <1>5, Zenon DEF RestoreNext

\* IdentityStable: however often the installation is interrupted and repeated,
\* _configure_secret and configure_runtime_material keep what was drawn; only a
\* restore or a new server replaces it.
THEOREM IdentityIsStable == Spec => IdentityStable
<1> DEFINE A == rebuilds' = rebuilds /\ lock # "restore" =>
                   /\ \A s \in {"master", "api", "obfs"} : disk[s] > 0 => disk'[s] = disk[s]
                   /\ disk.material # NoMaterial => disk'.material = disk.material
<1>1. ASSUME RInv, [Next]_vars PROVE [A]_nodeVars
  <2>1. SUFFICES ASSUME rebuilds' = rebuilds, lock # "restore", UNCHANGED nodeVars \/ Next
                 PROVE  IdentityKept
    BY <1>1, Zenon DEF IdentityKept, vars
  <2>2. CASE UNCHANGED disk
    BY <2>2, Zenon DEF IdentityKept
  <2>3. CASE InstallStart \/ InstallStep \/ InstallFails \/ InstallKilled \/ PanelWrite
    BY <1>1, <2>3, InstallKeeps
  <2>4. CASE Reboot
    BY <2>2, <2>4, Zenon DEF Reboot
  <2>5. CASE Rebuild
    <3>1. rebuilds' = rebuilds + 1 /\ rebuilds \in Nat
      BY <1>1, <2>5 DEF Rebuild, RInv, ScalarInv
    <3> QED BY <2>1, <3>1
  <2>6. CASE RestoreNext
    BY <1>1, <2>1, <2>2, <2>6, OnlyReplacing
  <2> QED BY <2>1, <2>2, <2>3, <2>4, <2>5, <2>6, Zenon DEF Next, nodeVars
<1> QED BY <1>1, RestoreInvariant, PTL DEF Spec, IdentityStable

\* A restore ends well only in the check of its health, which writes nothing.
LEMMA EndsInHealth ==
    ASSUME RInv, [Next]_vars, op # NoOp, outcome' \in {"returned", "restored"}
    PROVE  /\ op.pc = "health" /\ lock = "restore" /\ AppliedInv /\ Healthy /\ UNCHANGED <<disk, live>>
           /\ outcome' = IF op.undo THEN "returned" ELSE "restored"
<1>1. op.pc # "none" /\ outcome = "none"
  BY DEF RInv, LockInv
<1>2. lock \notin {"none", "install"}
  BY <1>1, Zenon DEF RInv, LockInv
<1>3. outcome' # outcome /\ outcome' # "none"
  BY <1>1
<1>4. ~UNCHANGED vars
  BY <1>3, Zenon DEF vars
<1>5. Next
  BY <1>4, Zenon
<1>6. RestoreNext
  BY <1>3, <1>5, Zenon DEF Next, restoreVars
<1>7. ~BackupStart /\ ~\E i \in DOMAIN archives, flaw \in Flaws : RestoreStart(i, flaw)
  BY <1>2, Zenon DEF BackupStart, RestoreStart
<1>8. ~End("failed") /\ ~End("saved") /\ ~End("lost")
  BY DEF End
<1>9. ~Snapshot /\ ~CreateArchive /\ ~PackMembers /\ ~WriteChecksum /\ ~BackupFails
  BY <1>3, <1>8, Zenon DEF Snapshot, CreateArchive, PackMembers, WriteChecksum, BackupFails, BackupAbort
<1>10. ~StopServices /\ ~ApplyPart /\ ~StartServices /\ ~ScriptKilled
  BY <1>3, Zenon DEF StopServices, ApplyPart, StartServices, ScriptKilled
<1>11. ~GiveUp
  BY <1>3, <1>8, Zenon DEF GiveUp
<1>12. ~RestoreFails /\ ~RestorePreimage
  BY <1>3, <1>8, <1>11, Zenon DEF RestoreFails, RestorePreimage
<1>13. CheckHealth
  BY <1>6, <1>7, <1>9, <1>10, <1>12, Zenon DEF RestoreNext
<1>14. /\ op.pc = "health" /\ Healthy /\ UNCHANGED <<disk, live>>
       /\ outcome' = IF op.undo THEN "returned" ELSE "restored"
  BY <1>11, <1>13, Zenon DEF CheckHealth, End
<1>15. op.pc \in ReplacePCs
  BY <1>14 DEF ReplacePCs
<1> QED BY <1>14, <1>15, Replacing, Zenon

\* ReturnedIsBefore: when a failed restore reports that the former state is back,
\* _backup_restore_preimage has put every file but the database back.
THEOREM FormerStateIsBack == Spec => ReturnedIsBefore
<1> DEFINE A == outcome' = "returned" /\ op # NoOp /\ op' = NoOp =>
                   \A p \in Parts \ {"db"} : disk'[p] = op.before[p]
<1>1. ASSUME RInv, [Next]_vars PROVE [A]_vars
  <2>1. SUFFICES ASSUME outcome' = "returned", op # NoOp
                 PROVE  \A p \in Parts \ {"db"} : disk'[p] = op.before[p]
    OBVIOUS
  <2>2. /\ op.pc = "health" /\ AppliedInv /\ UNCHANGED disk
        /\ outcome' = IF op.undo THEN "returned" ELSE "restored"
    BY <1>1, <2>1, EndsInHealth, Zenon
  <2>3. op.undo
    BY <2>1, <2>2
  <2> QED BY <2>2, <2>3, Zenon DEF AppliedInv, SameFiles
<1> QED BY <1>1, RestoreInvariant, PTL DEF Spec, ReturnedIsBefore

\* RestoredIsArchive: when a restore reports success, apply_payload has put every
\* file of the archive in its place, and the services have loaded them.
THEOREM RestoreIsComplete == Spec => RestoredIsArchive
<1> DEFINE A == outcome' = "restored" /\ op # NoOp /\ op' = NoOp =>
                   /\ \A p \in Parts \ {"db"} : disk'[p] = op.data[p]
                   /\ op.data.db.masters \subseteq disk'.db.masters
                   /\ op.data.db.writes <= disk'.db.writes
                   /\ live' = Started(Services)
<1>1. ASSUME RInv, [Next]_vars PROVE [A]_vars
  <2>1. SUFFICES ASSUME outcome' = "restored", op # NoOp PROVE A
    BY DEF A
  <2>2. /\ op.pc = "health" /\ AppliedInv /\ Healthy /\ UNCHANGED <<disk, live>>
        /\ outcome' = IF op.undo THEN "returned" ELSE "restored"
    BY <1>1, <2>1, EndsInHealth, Zenon
  <2>3. ~op.undo
    BY <2>1, <2>2
  <2>4. /\ SameFiles(disk, op.data) /\ op.data.db.masters \subseteq disk.db.masters
        /\ op.data.db.writes <= disk.db.writes /\ live \in Starts(Services)
    BY <2>2, <2>3, Zenon DEF AppliedInv
  <2>5. live = Started(Services)
    <3>1. live.gateway # 0
      BY <2>2, Names DEF Healthy, Up, Down
    <3>2. Down.gateway = 0 /\ Started(Services \ {"gateway"}).gateway = 0
      BY DEF Down, Started
    <3> QED BY <2>4, <3>1, <3>2, Zenon DEF Starts
  <2> QED BY <2>2, <2>4, <2>5, Zenon DEF SameFiles
<1> QED BY <1>1, RestoreInvariant, PTL DEF Spec, RestoredIsArchive
=============================================================================
