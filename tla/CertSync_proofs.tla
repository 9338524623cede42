--------------------------- MODULE CertSync_proofs ---------------------------
(***************************************************************************)
(* Machine-checked proofs about CertSync, for any number of places of the  *)
(* storage, any life of a certificate and any bounds.                      *)
(*                                                                         *)
(* The health check reads health.json, the chain and the key while the     *)
(* exporter replaces them.  What makes its answer right is the order of    *)
(* the exporter's renames: the key follows its own chain, so a key that    *)
(* fits a chain read earlier, and fits the record read before that, has    *)
(* been in the directory together with both.                               *)
(***************************************************************************)
EXTENDS CertSync, TLAPS

Pairs == {[cert |-> c, key |-> c] : c \in Numbers}
SyncPCs == {"idle", "cert", "key", "export", "fullchain", "privkey", "directory", "health", "end"}

SyncType == [pc : SyncPCs, at : 0..MaxTime, place : 0..Places, cert : Numbers, best : Pairs]
ProbeType == [pc : {"idle", "fullchain", "privkey"}, at : 0..MaxTime, health : Numbers,
              cert : Numbers, held : BOOLEAN]
Source == [cert : Numbers, key : Numbers]

\* The gateway's side: a renewal under way is at a place of the storage.
StorageInv ==
    /\ now \in 0..MaxTime
    /\ certs \in Seq([notAfter : Nat, ours : BOOLEAN]) /\ Len(certs) <= MaxRenewals
    /\ source \in [1..Places -> Source]
    /\ renewal \in [place : 0..Places, file : {"none", "cert", "key"}]
    /\ renewal # NoRenewal => renewal.place \in 1..Places /\ renewal.file \in {"cert", "key"}

\* The exporter is at a place while it walks, and between the first two renames
\* the directory has the new chain.
SyncInv ==
    /\ sync \in SyncType
    /\ sync.pc \in {"cert", "key"} => sync.place \in 1..Places
    /\ sync.pc = "privkey" => out.fullchain = sync.best.cert

OutInv == out \in [Files -> Numbers] /\ durable \in [Files -> SUBSET Numbers]

\* The history variable saw every moment at which the directory served the
\* recorded certificate; the chain that was read and the key that is there now
\* cannot both fit the record unless it did.
ProbeInv ==
    /\ probe \in ProbeType
    /\ probe.pc # "idle" /\ Serves(out, probe.health) => probe.held
    /\ probe.pc = "privkey" /\ probe.cert = probe.health /\ out.privkey = probe.health => probe.held

RestInv == verdict \in {"healthy", "unhealthy"} /\ faults \in 0..MaxFaults

CInv == StorageInv /\ SyncInv /\ OutInv /\ ProbeInv /\ RestInv

-----------------------------------------------------------------------------
(* Types of the records.                                                   *)

USE CertConstants
USE DEF Files, Numbers

\* The fresh records of the exporter and of the health check are well typed.
LEMMA FreshRecords == Idle \in SyncType /\ NoProbe \in ProbeType /\ Whole(0) \in [Files -> Numbers]
<1>1. 0 \in Numbers /\ 0 \in 0..MaxTime /\ 0 \in 0..Places
  OBVIOUS
<1>2. [cert |-> 0, key |-> 0] \in Pairs
  BY <1>1, Zenon DEF Pairs
<1>3. Idle \in SyncType
  BY <1>1, <1>2, Zenon DEF Idle, SyncType, SyncPCs
<1>4. NoProbe \in ProbeType
  BY <1>1, Zenon DEF NoProbe, ProbeType
<1>5. Whole(0) \in [Files -> Numbers]
  BY <1>1 DEF Whole
<1> QED BY <1>3, <1>4, <1>5

\* A step of the exporter: another state of the walk.
LEMMA SyncUpdates ==
    ASSUME sync \in SyncType, NEW pc \in SyncPCs
    PROVE  /\ [sync EXCEPT !.pc = pc] \in SyncType
           /\ [sync EXCEPT !.pc = pc].pc = pc
           /\ [sync EXCEPT !.pc = pc].place = sync.place
           /\ [sync EXCEPT !.pc = pc].best = sync.best
BY ZenonT(60) DEF SyncType

\* The certificate at a place is remembered while its key is read.
LEMMA SyncRemembers ==
    ASSUME sync \in SyncType, NEW c \in Numbers
    PROVE  /\ [sync EXCEPT !.pc = "key", !.cert = c] \in SyncType
           /\ [sync EXCEPT !.pc = "key", !.cert = c].pc = "key"
           /\ [sync EXCEPT !.pc = "key", !.cert = c].place = sync.place
BY ZenonT(60) DEF SyncType, SyncPCs

\* Walk goes on to the next place, to the export or back to sleep.
LEMMA WalkType ==
    ASSUME sync \in SyncType, sync.place \in 1..Places, NEW best \in Pairs, Walk(best)
    PROVE  /\ sync' \in SyncType
           /\ sync'.pc \in {"idle", "cert", "export"}
           /\ sync'.pc = "cert" => sync'.place \in 1..Places
<1>1. CASE sync.place < Places
  <2>1. sync.place + 1 \in 1..Places /\ sync.place + 1 \in 0..Places /\ 0 \in Numbers
    BY <1>1
  <2> DEFINE place == sync.place + 1
  <2>2. sync' = [sync EXCEPT !.pc = "cert", !.place = place, !.best = best, !.cert = 0]
    BY <1>1, Zenon DEF Walk
  <2> HIDE DEF place
  <2>3. sync'.pc = "cert" /\ sync'.place = place
    BY <2>2, ZenonT(60) DEF SyncType
  <2>4. sync' \in SyncType
    BY <2>1, <2>2, ZenonT(60) DEF SyncType, SyncPCs, place
  <2> QED BY <2>1, <2>3, <2>4, Zenon DEF place
<1>2. CASE ~(sync.place < Places) /\ best.cert = 0
  <2>1. sync' = Idle
    BY <1>2, Zenon DEF Walk
  <2> QED BY <2>1, FreshRecords DEF Idle
<1>3. CASE ~(sync.place < Places) /\ best.cert # 0
  <2>1. sync' = [sync EXCEPT !.pc = "export", !.best = best, !.cert = 0]
    BY <1>3, Zenon DEF Walk
  <2>2. 0 \in Numbers
    OBVIOUS
  <2>3. sync' \in SyncType
    BY <2>1, <2>2, ZenonT(60) DEF SyncType, SyncPCs
  <2>4. sync'.pc = "export"
    BY <2>1, ZenonT(60) DEF SyncType
  <2> QED BY <2>3, <2>4
<1> QED BY <1>1, <1>2, <1>3

\* The certificate and the key of a pair are those of one certificate.
LEMMA PairFields == \A b \in Pairs : b.cert \in Numbers /\ b.key = b.cert
BY SMTT(20) DEF Pairs

\* The gateway replaces one file of one place.
LEMMA SourceUpdate ==
    ASSUME source \in [1..Places -> Source], NEW p \in 1..Places, NEW file \in {"cert", "key"},
           NEW n \in Numbers
    PROVE  [source EXCEPT ![p][file] = n] \in [1..Places -> Source]
<1>1. source[p] \in Source
  BY Zenon
<1>2. [source[p] EXCEPT ![file] = n] \in Source
  <2>1. [source[p] EXCEPT !["cert"] = n] \in Source
    BY <1>1, SMTT(20) DEF Source
  <2>2. [source[p] EXCEPT !["key"] = n] \in Source
    BY <1>1, SMTT(20) DEF Source
  <2> QED BY <2>1, <2>2, Zenon
<1> QED BY <1>2, Zenon

-----------------------------------------------------------------------------
(* The parts of the invariant, one after the other.                        *)

\* The gateway writes at the places of the storage.
LEMMA StorageStep == CInv /\ [Next]_vars => StorageInv'
<1> SUFFICES ASSUME CInv, [Next]_vars PROVE StorageInv'
  OBVIOUS
<1>1. CASE Tick
  BY <1>1, SMTT(20) DEF Tick, CInv, StorageInv
<1>2. ASSUME NEW p \in 1..Places, NEW ours \in BOOLEAN, NEW file \in {"cert", "key"}, Renew(p, ours, file)
      PROVE  StorageInv'
  <2>1. certs' \in Seq([notAfter : Nat, ours : BOOLEAN]) /\ Len(certs') = Len(certs) + 1
    <3>1. [notAfter |-> now + Life, ours |-> ours] \in [notAfter : Nat, ours : BOOLEAN]
      BY DEF CInv, StorageInv
    <3>2. QED BY <1>2, <3>1 DEF Renew, CInv, StorageInv
  <2>2. Len(certs) \in Nat /\ Len(certs') \in Numbers
    BY <1>2, <2>1 DEF Renew, CInv, StorageInv
  <2>3. source' \in [1..Places -> Source]
    BY <1>2, <2>2, SourceUpdate, Zenon DEF Renew, CInv, StorageInv
  <2>4. renewal'.place = p /\ renewal'.file \in {"cert", "key"}
        /\ renewal' \in [place : 0..Places, file : {"none", "cert", "key"}]
    BY <1>2, SMTT(20) DEF Renew
  <2>5. now' \in 0..MaxTime
    BY <1>2, Zenon DEF Renew, CInv, StorageInv
  <2>6. Len(certs') <= MaxRenewals
    BY <2>2
  <2> QED BY <2>1, <2>3, <2>4, <2>5, <2>6, Zenon DEF StorageInv
<1>3. CASE FinishRenewal
  <2>1. Len(certs) \in Numbers
    BY DEF CInv, StorageInv
  <2>2. source' \in [1..Places -> Source]
    <3>1. renewal.place \in 1..Places /\ renewal.file \in {"cert", "key"}
      BY <1>3, Zenon DEF FinishRenewal, CInv, StorageInv
    <3>2. source' = [source EXCEPT ![renewal.place][renewal.file] = Len(certs)]
      BY <1>3, Zenon DEF FinishRenewal
    <3> QED BY <2>1, <3>1, <3>2, SourceUpdate, Zenon DEF CInv, StorageInv
  <2>3. NoRenewal \in [place : 0..Places, file : {"none", "cert", "key"}]
    BY DEF NoRenewal
  <2> QED BY <1>3, <2>2, <2>3, Zenon DEF FinishRenewal, CInv, StorageInv
<1>4. CASE UNCHANGED <<now, certs, source>> /\ (UNCHANGED renewal \/ renewal' = NoRenewal)
  <2>1. NoRenewal \in [place : 0..Places, file : {"none", "cert", "key"}]
    BY DEF NoRenewal
  <2> QED BY <1>4, <2>1, Zenon DEF CInv, StorageInv
<1>5. \/ Tick \/ FinishRenewal
      \/ \E p \in 1..Places, ours \in BOOLEAN, file \in {"cert", "key"} : Renew(p, ours, file)
      \/ UNCHANGED <<now, certs, source>> /\ (UNCHANGED renewal \/ renewal' = NoRenewal)
  BY ZenonT(60) DEF Next, vars, envVars, Synchronize, Exporter, ReadCertificate, FindPrivateKey, Export,
     Rename, SyncDirectory, Probe, ReadHealth, ReadFullchain, CheckHealth, SyncFails, Stop, PowerLoss
<1> QED BY <1>1, <1>2, <1>3, <1>4, <1>5, Zenon

\* What the exporter is about to put in the place of a file.
LEMMA ExpectedType ==
    ASSUME CInv, sync.pc \in Files
    PROVE  Expected[sync.pc] \in Numbers
<1>1. sync.best \in Pairs
  BY Zenon DEF CInv, SyncInv, SyncType
<1> QED BY <1>1, PairFields DEF Expected

\* The exporter walks the places and renames the chain before the key; no other
\* step writes the directory while it is at work.
LEMMA SyncStep == CInv /\ [Next]_vars => SyncInv'
<1> SUFFICES ASSUME CInv, [Next]_vars PROVE SyncInv'
  OBVIOUS
<1>0. sync \in SyncType /\ sync.best \in Pairs /\ sync.pc \in SyncPCs /\ sync.cert \in Numbers
  BY Zenon DEF CInv, SyncInv, SyncType
<1>1. CASE Synchronize
  <2>1. sync' = [Idle EXCEPT !.pc = "cert", !.at = now, !.place = 1]
    BY <1>1, Zenon DEF Synchronize
  <2>2. now \in 0..MaxTime /\ 1 \in 0..Places /\ 1 \in 1..Places
    BY DEF CInv, StorageInv
  <2>3. sync' \in SyncType
    BY <2>1, <2>2, FreshRecords, ZenonT(60) DEF SyncType, SyncPCs
  <2>4. sync'.pc = "cert" /\ sync'.place = 1
    BY <2>1, FreshRecords, ZenonT(60) DEF SyncType
  <2> QED BY <2>2, <2>3, <2>4 DEF SyncInv
<1>2. CASE ReadCertificate
  <2>1. sync.place \in 1..Places /\ source[sync.place].cert \in Numbers
    <3>1. sync.place \in 1..Places
      BY <1>2, Zenon DEF ReadCertificate, CInv, SyncInv
    <3>2. source[sync.place] \in Source
      BY <3>1, Zenon DEF CInv, StorageInv
    <3>3. QED BY <3>1, <3>2, Zenon DEF Source
  <2>2. CASE Walk(sync.best)
    BY <1>0, <2>1, <2>2, WalkType DEF SyncInv
  <2>3. CASE sync' = [sync EXCEPT !.pc = "key", !.cert = source[sync.place].cert]
    BY <1>0, <2>1, <2>3, SyncRemembers DEF SyncInv
  <2> QED BY <1>2, <2>2, <2>3, Zenon DEF ReadCertificate
<1>3. CASE FindPrivateKey
  <2>1. sync.place \in 1..Places
    BY <1>3, Zenon DEF FindPrivateKey, CInv, SyncInv
  <2>2. \E best \in Pairs : Walk(best)
    <3>1. CASE Walk(sync.best)
      BY <1>0, <3>1, Zenon
    <3>2. CASE KeyPair(sync.cert, source[sync.place].key) /\ Walk([cert |-> sync.cert, key |-> source[sync.place].key])
      <4>1. source[sync.place].key = sync.cert
        BY <3>2, Zenon DEF KeyPair
      <4>2. [cert |-> sync.cert, key |-> source[sync.place].key] \in Pairs
        BY <1>0, <4>1, Zenon DEF Pairs
      <4> QED BY <3>2, <4>2, Zenon
    <3> QED BY <1>3, <3>1, <3>2, Zenon DEF FindPrivateKey
  <2> QED BY <1>0, <2>1, <2>2, WalkType DEF SyncInv
<1>4. CASE Export
  <2>1. sync' = Idle \/ sync' = [sync EXCEPT !.pc = "fullchain"]
    BY <1>4, Zenon DEF Export
  <2>2. CASE sync' = Idle
    BY <2>2, FreshRecords DEF SyncInv, Idle
  <2>3. CASE sync' = [sync EXCEPT !.pc = "fullchain"]
    BY <1>0, <2>3, SyncUpdates DEF SyncInv, SyncPCs
  <2> QED BY <2>1, <2>2, <2>3
<1>5. CASE Rename
  <2>1. Following[sync.pc] \in SyncPCs \ {"cert", "key"}
    BY <1>5 DEF Rename, Following, SyncPCs
  <2>2. sync' = [sync EXCEPT !.pc = Following[sync.pc]]
    BY <1>5, Zenon DEF Rename
  <2>3. sync' \in SyncType /\ sync'.pc = Following[sync.pc] /\ sync'.best = sync.best
    BY <1>0, <2>1, <2>2, SyncUpdates, Zenon
  <2>4. sync'.pc = "privkey" => out'.fullchain = sync.best.cert
    <3>1. Following[sync.pc] = "privkey" => sync.pc = "fullchain"
      BY <1>5 DEF Rename, Following
    <3>2. sync.pc = "fullchain" => out'.fullchain = Expected.fullchain
      BY <1>5 DEF Rename, CInv, OutInv
    <3>3. QED BY <2>3, <3>1, <3>2 DEF Expected
  <2> QED BY <2>1, <2>3, <2>4 DEF SyncInv
<1>6. CASE SyncDirectory
  <2>1. sync' = Idle \/ sync' = [sync EXCEPT !.pc = "health"]
    BY <1>6 DEF SyncDirectory, Following
  <2>2. CASE sync' = Idle
    BY <2>2, FreshRecords DEF SyncInv, Idle
  <2>3. CASE sync' = [sync EXCEPT !.pc = "health"]
    BY <1>0, <2>3, SyncUpdates DEF SyncInv, SyncPCs
  <2> QED BY <2>1, <2>2, <2>3
<1>7. CASE sync' = Idle
  BY <1>7, FreshRecords DEF SyncInv, Idle
<1>8. CASE UNCHANGED <<sync, out>>
  BY <1>8, Zenon DEF CInv, SyncInv
<1>9. \/ Synchronize \/ ReadCertificate \/ FindPrivateKey \/ Export \/ Rename \/ SyncDirectory
      \/ sync' = Idle \/ UNCHANGED <<sync, out>>
  BY ZenonT(60) DEF Next, vars, envVars, Exporter, Probe, ReadHealth, ReadFullchain, CheckHealth, Tick,
     Renew, FinishRenewal, SyncFails, Stop, PowerLoss
<1> QED BY <1>1, <1>2, <1>3, <1>4, <1>5, <1>6, <1>7, <1>8, <1>9, Zenon

\* The exported files are certificates of the gateway, before and after a loss of
\* power.
LEMMA OutStep == CInv /\ [Next]_vars => OutInv'
<1> SUFFICES ASSUME CInv, [Next]_vars PROVE OutInv'
  OBVIOUS
<1>1. CASE Rename
  BY <1>1, ExpectedType, SMTT(20) DEF Rename, CInv, OutInv
<1>2. CASE SyncDirectory
  BY <1>2, SMTT(20) DEF SyncDirectory, CInv, OutInv
<1>3. CASE PowerLoss
  BY <1>3, SMTT(20) DEF PowerLoss, CInv, OutInv
<1>4. CASE UNCHANGED <<out, durable>>
  BY <1>4, Zenon DEF CInv, OutInv
<1>5. Rename \/ SyncDirectory \/ PowerLoss \/ UNCHANGED <<out, durable>>
  BY ZenonT(60) DEF Next, vars, envVars, Exporter, ReadCertificate, FindPrivateKey, Export, Synchronize,
     Probe, ReadHealth, ReadFullchain, CheckHealth, Tick, Renew, FinishRenewal, SyncFails, Stop
<1> QED BY <1>1, <1>2, <1>3, <1>4, <1>5

\* The health check beside the exporter.
LEMMA ProbeStep == CInv /\ [Next]_vars => ProbeInv'
<1> SUFFICES ASSUME CInv, [Next]_vars PROVE ProbeInv'
  OBVIOUS
<1>0. probe \in ProbeType /\ out \in [Files -> Numbers]
  BY Zenon DEF CInv, ProbeInv, OutInv
<1>1. CASE ReadHealth
  <2> DEFINE held == Serves(out, out.health)
  <2>1. probe' = [pc |-> "fullchain", at |-> now, health |-> out.health, cert |-> 0, held |-> held]
        /\ UNCHANGED out
    BY <1>1, Zenon DEF ReadHealth
  <2>2. out.health \in Numbers /\ 0 \in Numbers /\ now \in 0..MaxTime
    BY <1>0 DEF CInv, StorageInv
  <2>3. held \in BOOLEAN
    BY Zenon DEF Serves
  <2>4. probe' \in ProbeType
    BY <2>1, <2>2, <2>3, ZenonT(60) DEF ProbeType
  <2>5. probe'.pc = "fullchain" /\ probe'.health = out.health /\ probe'.held = held
    BY <2>1, Zenon
  <2> QED BY <2>1, <2>4, <2>5, Zenon DEF ProbeInv
<1>2. CASE ReadFullchain
  <2>1. probe' = [probe EXCEPT !.pc = "privkey", !.cert = out.fullchain] /\ UNCHANGED out
        /\ probe.pc = "fullchain"
    BY <1>2, Zenon DEF ReadFullchain
  <2>2. out.fullchain \in Numbers
    BY <1>0
  <2>3. probe' \in ProbeType
    BY <1>0, <2>1, <2>2, ZenonT(60) DEF ProbeType
  <2>4. probe'.cert = out.fullchain /\ probe'.health = probe.health /\ probe'.held = probe.held
    BY <1>0, <2>1, ZenonT(60) DEF ProbeType
  <2>5. Serves(out, probe.health) => probe.held
    BY <2>1 DEF CInv, ProbeInv
  <2> QED BY <2>1, <2>3, <2>4, <2>5, Zenon DEF ProbeInv, Serves
<1>3. CASE Rename
  <2> DEFINE held == probe.pc # "idle" /\ (probe.held \/ Serves(out', probe.health))
  <2>1. probe' = [probe EXCEPT !.held = held] /\ held \in BOOLEAN
    BY <1>3, Zenon DEF Rename
  <2>2. probe' \in ProbeType /\ probe'.held = held /\ probe'.pc = probe.pc
        /\ probe'.cert = probe.cert /\ probe'.health = probe.health
    <3> HIDE DEF held
    <3> QED BY <1>0, <2>1, ZenonT(60) DEF ProbeType
  <2>3. ASSUME probe.pc = "privkey", probe.cert = probe.health, out'.privkey = probe.health
        PROVE  held
    <3>1. CASE sync.pc = "privkey"
      <4>1. out'.privkey = sync.best.key /\ out'.fullchain = out.fullchain
        BY <1>0, <1>3, <3>1 DEF Rename, Expected
      <4>2. out.fullchain = sync.best.cert /\ sync.best \in Pairs
        BY <3>1, Zenon DEF CInv, SyncInv, SyncType
      <4>3. Serves(out', probe.health)
        BY <2>3, <4>1, <4>2, PairFields DEF Serves
      <4> QED BY <2>3, <4>3
    <3>2. CASE sync.pc # "privkey"
      <4>1. out'.privkey = out.privkey
        BY <1>0, <1>3, <3>2 DEF Rename
      <4>2. probe.held
        BY <2>3, <4>1, Zenon DEF CInv, ProbeInv
      <4> QED BY <2>3, <4>2
    <3> QED BY <3>1, <3>2
  <2> QED BY <2>2, <2>3, Zenon DEF ProbeInv
<1>4. CASE probe' = NoProbe
  BY <1>4, FreshRecords DEF ProbeInv, NoProbe
<1>5. CASE UNCHANGED <<probe, out>>
  BY <1>5, Zenon DEF CInv, ProbeInv, Serves
<1>6. ReadHealth \/ ReadFullchain \/ Rename \/ probe' = NoProbe \/ UNCHANGED <<probe, out>>
  BY ZenonT(60) DEF Next, vars, envVars, Exporter, ReadCertificate, FindPrivateKey, Export, Synchronize,
     SyncDirectory, Probe, CheckHealth, Tick, Renew, FinishRenewal, SyncFails, Stop, PowerLoss
<1> QED BY <1>1, <1>2, <1>3, <1>4, <1>5, <1>6, Zenon

\* The answer and the count of failures.
LEMMA RestStep == CInv /\ [Next]_vars => RestInv'
<1> SUFFICES ASSUME CInv, [Next]_vars PROVE RestInv'
  OBVIOUS
<1>1. verdict' \in {"healthy", "unhealthy"}
  BY ZenonT(60) DEF Next, vars, envVars, Exporter, ReadCertificate, FindPrivateKey, Export, Synchronize,
     Rename, SyncDirectory, Probe, ReadHealth, ReadFullchain, CheckHealth, Tick, Renew, FinishRenewal,
     SyncFails, Stop, PowerLoss, CInv, RestInv
<1>2. Fault \/ UNCHANGED faults
  BY ZenonT(60) DEF Next, vars, envVars, Exporter, ReadCertificate, FindPrivateKey, Export, Synchronize,
     Rename, SyncDirectory, Probe, ReadHealth, ReadFullchain, CheckHealth, Tick, Renew, FinishRenewal,
     SyncFails, Stop, PowerLoss
<1>3. faults' \in 0..MaxFaults
  BY <1>2 DEF Fault, CInv, RestInv
<1> QED BY <1>1, <1>3 DEF RestInv

-----------------------------------------------------------------------------
(* The theorems.                                                           *)

\* The invariant holds of the export, whatever fails and whenever.
LEMMA CertInvariance == Spec => []CInv
<1>1. Init => CInv
  <2> SUFFICES ASSUME Init PROVE CInv
    OBVIOUS
  <2>1. StorageInv
    BY SMTT(20) DEF Init, StorageInv, NoRenewal, Source
  <2>2. SyncInv
    BY FreshRecords DEF Init, SyncInv, Idle
  <2>3. OutInv
    BY FreshRecords DEF Init, OutInv
  <2>4. ProbeInv
    BY FreshRecords DEF Init, ProbeInv, NoProbe
  <2>5. RestInv
    BY DEF Init, RestInv
  <2> QED BY <2>1, <2>2, <2>3, <2>4, <2>5 DEF CInv
<1>2. CInv /\ [Next]_vars => CInv'
  BY StorageStep, SyncStep, OutStep, ProbeStep, RestStep DEF CInv
<1> QED BY <1>1, <1>2, PTL DEF Spec

\* What Discover hands to Export is a certificate with its own key, whatever the
\* gateway wrote between the two reads, and every file has its type.
THEOREM CertTypeCorrect == Spec => []TypeOK
<1>1. CInv => TypeOK
  <2> SUFFICES ASSUME CInv PROVE TypeOK
    OBVIOUS
  <2>1. sync.pc \in {"idle", "cert", "key", "export", "end"} \cup DOMAIN Following
    BY DEF CInv, SyncInv, SyncType, SyncPCs, Following
  <2>2. sync.best \in {[cert |-> c, key |-> c] : c \in Numbers}
    BY Zenon DEF CInv, SyncInv, SyncType, Pairs
  <2> QED BY <2>1, <2>2, Zenon DEF TypeOK, CInv, StorageInv, Source, OutInv, ProbeInv, ProbeType, RestInv
<1> QED BY <1>1, CertInvariance, PTL

\* A health check that says healthy while the files are being replaced is right:
\* at a moment of the check the directory held the certificate that health.json
\* named, with its own key.
THEOREM HealthyIsServable == Spec => HealthyWasServable
<1>1. ASSUME CInv, [Next]_vars, probe.pc = "privkey", verdict' = "healthy", probe' = NoProbe
      PROVE  probe.held /\ CertificateMatches(probe.health, probe.at)
  <2>1. CheckHealth
    <3>1. probe' # probe
      BY <1>1 DEF NoProbe
    <3>2. verdict' # "unhealthy" /\ probe.pc # "fullchain" /\ probe # NoProbe
      BY <1>1 DEF NoProbe
    <3>3. ~Rename
      <4>1. SUFFICES ASSUME Rename PROVE FALSE
        OBVIOUS
      <4>2. ASSUME NEW held PROVE [probe EXCEPT !.held = held].pc = probe.pc
        BY <1>1, ZenonT(60) DEF CInv, ProbeInv, ProbeType
      <4>3. probe'.pc = probe.pc
        BY <4>1, <4>2, Zenon DEF Rename
      <4> QED BY <1>1, <4>3 DEF NoProbe
    <3> QED BY <1>1, <3>1, <3>2, <3>3, ZenonT(60) DEF Next, vars, envVars, Exporter, ReadCertificate,
        FindPrivateKey, Export, Synchronize, SyncDirectory, Probe, ReadHealth, ReadFullchain, Tick, Renew,
        FinishRenewal, SyncFails, Stop, PowerLoss
  <2>2. Healthy(out.privkey)
    <3>1. "healthy" # "unhealthy"
      OBVIOUS
    <3> QED BY <1>1, <2>1, <3>1, Zenon DEF CheckHealth
  <2> QED BY <1>1, <2>2, Zenon DEF Healthy, KeyPair, CInv, ProbeInv
<1> QED BY <1>1, CertInvariance, PTL DEF Spec, HealthyWasServable
=============================================================================
