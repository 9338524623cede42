------------------------------- MODULE CertSync -------------------------------
(***************************************************************************)
(* The certificate export: cert-sync looks through the gateway's storage,  *)
(* takes the pair that lasts longest and replaces the three files that     *)
(* Hysteria and the health check read, one rename after the other.  The    *)
(* gateway renews meanwhile, the health check is a process of its own, and *)
(* the exporter or the whole server may stop between any two steps.        *)
(*                                                                         *)
(* A certificate is its number in `certs`, a key has the number of its     *)
(* certificate, and 0 is a file that is absent.                            *)
(***************************************************************************)
EXTENDS Integers, Sequences, FiniteSets

CONSTANTS Places,         \* number of places of the storage, walked in order
          Life,           \* how long a new certificate lasts
          MinValidity,    \* --min-validity
          MaxTime, MaxRenewals, MaxFaults    \* bounds

ASSUME CertConstants ==
    /\ MaxTime \in Nat /\ MaxRenewals \in Nat /\ MaxFaults \in Nat
    /\ Places \in Nat \ {0} /\ Life \in Nat /\ MinValidity \in Nat \ {0}

VARIABLES
    now,
    certs,      \* per certificate its NotAfter, and whether it names this address
    source,     \* the storage: per place a certificate and a key file
    renewal,    \* the gateway between its two writes
    out,        \* the exported files
    durable,    \* per exported file what a loss of power may leave of it
    sync,       \* the exporter
    probe,      \* the health check under way ...
    verdict,    \* ... and the last answer of one
    faults

envVars == <<now, certs, source, renewal>>
vars == <<envVars, out, durable, sync, probe, verdict, faults>>

Files == {"fullchain", "privkey", "health"}
Numbers == 0..MaxRenewals
Whole(c) == [f \in Files |-> c]
Serves(o, c) == o.fullchain = c /\ o.privkey = c    \* what Hysteria would present
NoRenewal == [place |-> 0, file |-> "none"]

Idle == [pc |-> "idle", at |-> 0, place |-> 0, cert |-> 0, best |-> [cert |-> 0, key |-> 0]]
NoProbe == [pc |-> "idle", at |-> 0, health |-> 0, cert |-> 0, held |-> FALSE]

Init ==
    /\ now = 0 /\ certs = <<>> /\ source = [p \in 1..Places |-> [cert |-> 0, key |-> 0]]
    /\ renewal = NoRenewal
    /\ out = Whole(0) /\ durable = [f \in Files |-> {0}]
    /\ sync = Idle /\ probe = NoProbe /\ verdict = "unhealthy" /\ faults = 0

-----------------------------------------------------------------------------
(* The gateway.                                                            *)

Tick ==
    /\ now < MaxTime /\ now' = now + 1
    /\ UNCHANGED <<certs, source, renewal, out, durable, sync, probe, verdict, faults>>

\* The first of the two files of a new certificate, at the place of an old one.
Renew(p, ours, file) ==
    /\ renewal = NoRenewal /\ Len(certs) < MaxRenewals
    /\ certs' = Append(certs, [notAfter |-> now + Life, ours |-> ours])
    /\ source' = [source EXCEPT ![p][file] = Len(certs')]
    /\ renewal' = [place |-> p, file |-> IF file = "cert" THEN "key" ELSE "cert"]
    /\ UNCHANGED <<now, out, durable, sync, probe, verdict, faults>>

FinishRenewal ==
    /\ renewal # NoRenewal
    /\ source' = [source EXCEPT ![renewal.place][renewal.file] = Len(certs)]
    /\ renewal' = NoRenewal
    /\ UNCHANGED <<now, certs, out, durable, sync, probe, verdict, faults>>

-----------------------------------------------------------------------------
(* Discover.                                                               *)

\* tls.X509KeyPair.
AnyKey(c, k) == c # 0 /\ k # 0
KeyPair(c, k) == c # 0 /\ c = k

CertificateMatches(c, t) == c # 0 /\ certs[c].ours /\ certs[c].notAfter >= t + MinValidity

Synchronize ==
    /\ sync = Idle
    /\ sync' = [Idle EXCEPT !.pc = "cert", !.at = now, !.place = 1]
    /\ UNCHANGED <<envVars, out, durable, probe, verdict, faults>>

\* On to the next place, or to the export of what was found.
Walk(best) ==
    sync' = IF sync.place < Places
            THEN [sync EXCEPT !.pc = "cert", !.place = @ + 1, !.best = best, !.cert = 0]
            ELSE IF best.cert = 0 THEN Idle
            ELSE [sync EXCEPT !.pc = "export", !.best = best, !.cert = 0]

ReadCertificate ==
    /\ sync.pc = "cert"
    /\ LET c == source[sync.place].cert
       IN  IF CertificateMatches(c, sync.at)
           THEN sync' = [sync EXCEPT !.pc = "key", !.cert = c]
           ELSE Walk(sync.best)
    /\ UNCHANGED <<envVars, out, durable, probe, verdict, faults>>

\* The pair replaces the best so far if it lasts longer.
FindPrivateKey ==
    /\ sync.pc = "key"
    /\ LET k == source[sync.place].key
           later == sync.best.cert # 0 => certs[sync.cert].notAfter > certs[sync.best.cert].notAfter
       IN  Walk(IF KeyPair(sync.cert, k) /\ later THEN [cert |-> sync.cert, key |-> k] ELSE sync.best)
    /\ UNCHANGED <<envVars, out, durable, probe, verdict, faults>>

-----------------------------------------------------------------------------
(* Export.                                                                 *)

Expected == [fullchain |-> sync.best.cert, privkey |-> sync.best.key, health |-> sync.best.cert]

SameCertificate == out.fullchain = Expected.fullchain
ExportMatches == out = Expected

ValidatePair == KeyPair(sync.best.cert, sync.best.key) /\ certs[sync.best.cert].ours

\* Nothing to do, or the three files are staged under names of their own.
Export ==
    /\ sync.pc = "export"
    /\ sync' = IF ~ValidatePair \/ ExportMatches THEN Idle ELSE [sync EXCEPT !.pc = "fullchain"]
    /\ UNCHANGED <<envVars, out, durable, probe, verdict, faults>>

Following == [fullchain |-> "privkey", privkey |-> "directory", directory |-> "health",
              health |-> "end"]

\* One staged file takes the place of the exported one.
Rename ==
    /\ sync.pc \in Files
    /\ out' = [out EXCEPT ![sync.pc] = Expected[sync.pc]]
    /\ durable' = [durable EXCEPT ![sync.pc] = @ \cup {Expected[sync.pc]}]
    /\ sync' = [sync EXCEPT !.pc = Following[@]]
    /\ probe' = [probe EXCEPT !.held = probe.pc # "idle" /\ (@ \/ Serves(out', probe.health))]
    /\ UNCHANGED <<envVars, verdict, faults>>

SyncDirectory ==
    /\ sync.pc \in {"directory", "end"}
    /\ durable' = [f \in Files |-> {out[f]}]
    /\ sync' = IF sync.pc = "end" THEN Idle ELSE [sync EXCEPT !.pc = Following[@]]
    /\ UNCHANGED <<envVars, out, probe, verdict, faults>>

Fault == faults < MaxFaults /\ faults' = faults + 1

\* A step returns an error: the staged files are removed, the next tick tries again.
SyncFails ==
    /\ sync # Idle /\ Fault
    /\ sync' = Idle
    /\ UNCHANGED <<envVars, out, durable, probe, verdict>>

\* The container stops, with the health check in it, and starts without an answer.
Stop ==
    /\ Fault
    /\ sync' = Idle /\ probe' = NoProbe /\ verdict' = "unhealthy"
    /\ UNCHANGED <<envVars, out, durable>>

\* The server loses power: renames since the last sync may be lost, one by one.
PowerLoss ==
    /\ Fault
    /\ out' \in {o \in [Files -> Numbers] : \A f \in Files : o[f] \in durable[f]}
    /\ durable' = [f \in Files |-> {out'[f]}]
    /\ sync' = Idle /\ probe' = NoProbe /\ renewal' = NoRenewal /\ verdict' = "unhealthy"
    /\ UNCHANGED <<now, certs, source>>

-----------------------------------------------------------------------------
(* CheckHealth, in a process of its own.                                   *)

ReadHealth ==
    /\ probe = NoProbe
    /\ probe' = [pc |-> "fullchain", at |-> now, health |-> out.health, cert |-> 0,
                 held |-> Serves(out, out.health)]
    /\ UNCHANGED <<envVars, out, durable, sync, verdict, faults>>

ReadFullchain ==
    /\ probe.pc = "fullchain"
    /\ probe' = [probe EXCEPT !.pc = "privkey", !.cert = out.fullchain]
    /\ UNCHANGED <<envVars, out, durable, sync, verdict, faults>>

\* The key fits the certificate, which lasts and is the one that health.json names.
AnyPair(key) == CertificateMatches(probe.cert, probe.at) /\ probe.health = probe.cert
Healthy(key) ==
    /\ KeyPair(probe.cert, key)
    /\ CertificateMatches(probe.cert, probe.at)
    /\ probe.health = probe.cert

CheckHealth ==
    /\ probe.pc = "privkey"
    /\ verdict' = IF Healthy(out.privkey) THEN "healthy" ELSE "unhealthy"
    /\ probe' = NoProbe
    /\ UNCHANGED <<envVars, out, durable, sync, faults>>

-----------------------------------------------------------------------------
Exporter == ReadCertificate \/ FindPrivateKey \/ Export \/ Rename \/ SyncDirectory
Probe == ReadHealth \/ ReadFullchain \/ CheckHealth

Next ==
    \/ Tick \/ FinishRenewal
    \/ \E p \in 1..Places, ours \in BOOLEAN, file \in {"cert", "key"} : Renew(p, ours, file)
    \/ Synchronize \/ Exporter \/ Probe
    \/ SyncFails \/ Stop \/ PowerLoss

\* The ticker fires, and Docker repeats the health check and restarts the container.
Spec == Init /\ [][Next]_vars /\ WF_vars(Synchronize) /\ WF_vars(Exporter) /\ WF_vars(Probe)

-----------------------------------------------------------------------------
(* Properties.                                                             *)

\* What Discover hands to Export is a certificate with its own key.
TypeOK ==
    /\ now \in 0..MaxTime /\ Len(certs) <= MaxRenewals
    /\ source \in [1..Places -> [cert : Numbers, key : Numbers]]
    /\ renewal \in [place : 0..Places, file : {"none", "cert", "key"}]
    /\ out \in [Files -> Numbers] /\ durable \in [Files -> SUBSET Numbers]
    /\ sync.pc \in {"idle", "cert", "key", "export", "end"} \cup DOMAIN Following
    /\ sync.best \in {[cert |-> c, key |-> c] : c \in Numbers}
    /\ probe \in [pc : {"idle", "fullchain", "privkey"}, at : 0..MaxTime, health : Numbers,
                  cert : Numbers, held : BOOLEAN]
    /\ verdict \in {"healthy", "unhealthy"} /\ faults \in 0..MaxFaults

\* CheckHealth beside Export: the health check reads three files that are being
\* replaced; when it says healthy, at a moment of the check the directory really
\* held the certificate that health.json named together with its own key, for this
\* address and lasting long enough.
HealthyWasServable ==
    [][probe.pc = "privkey" /\ verdict' = "healthy" /\ probe' = NoProbe =>
         probe.held /\ CertificateMatches(probe.health, probe.at)]_vars

\* Export, exportMatches: whatever stopped between the renames, once renewals and
\* faults are over the exported files are the pair that lasts longest and the
\* health check says so.
Lasting == {source[p].cert : p \in {q \in 1..Places :
              KeyPair(source[q].cert, source[q].key) /\ CertificateMatches(source[q].cert, now)}}
Longest == {c \in Lasting : \A d \in Lasting : certs[d].notAfter <= certs[c].notAfter}
ExportConverges ==
    <>[](Lasting # {} => verdict = "healthy" /\ \E c \in Longest : out = Whole(c))
=============================================================================
