------------------------------ MODULE NodeConfig ------------------------------
(***************************************************************************)
(* The files of a node: the secrets and the key that the installation      *)
(* draws, the configuration that render_config derives from them, what the *)
(* services load when they start, and the links that the panel hands out.  *)
(*                                                                         *)
(* A positive number stands for a random value (`draws` counts them, so    *)
(* values drawn at different moments differ), 0 for a file that is absent, *)
(* Torn for one that is cut short or damaged.  `material.key` stands for   *)
(* the private key and the short ID of runtime-values.json, `material.node` *)
(* for the public key and the short ID of node.json.                       *)
(***************************************************************************)
EXTENDS Integers, Sequences, FiniteSetsExt

CONSTANTS Addresses,    \* public addresses a server may have, as numbers
          Release,      \* number of the installed release
          Multiples,    \* of the units that a drawn fallback limit may be
          Faults,       \* subset of {"fail", "kill", "torn", "reboot"}
          MaxFaults, MaxRebuilds, MaxWrites    \* bounds

ASSUME NodeConstants ==
    /\ Addresses \subseteq Nat \ {0} /\ Release \in Nat \ {0} /\ Multiples \subseteq 4..32
    /\ MaxFaults \in Nat /\ MaxRebuilds \in Nat /\ MaxWrites \in Nat

VARIABLES
    address,    \* of the server
    disk,       \* the files
    leftovers,  \* the temporary files of fixed names that a kill left behind
    live,       \* what each running service loaded when it started
    enabled,    \* the systemd unit starts the stack at boot
    lock,       \* the operation that holds the lock
    phase,      \* the next step of the installation
    draws, faults, rebuilds

nodeVars == <<address, disk, leftovers, live, enabled, lock, phase, draws, faults, rebuilds>>

Torn == -1

NoMaterial == [key |-> 0, node |-> 0, api |-> 0, obfs |-> 0, fits |-> FALSE]
NoHysteria == [api |-> 0, obfs |-> 0, page |-> 0]
NoControl == [key |-> 0, host |-> 0, master |-> 0, api |-> 0, obfs |-> 0]
NoDatabase == [exists |-> FALSE, masters |-> {}, writes |-> 0]
NoState == [version |-> 0, address |-> 0]

\* `stack` is the address in stack.env, `state` is install.json; `masters` of
\* the database are the keys its profiles are encrypted under; `fits` tells
\* whether the renderer accepts the limits of the material.
NoDisk == [db |-> NoDatabase, control |-> [key |-> 0, host |-> 0], gateway |-> 0, compose |-> 0,
           stack |-> 0, master |-> 0, api |-> 0, obfs |-> 0, xray |-> 0, hysteria |-> NoHysteria,
           material |-> NoMaterial, caddy |-> 0, state |-> NoState]
Down == [gateway |-> 0, control |-> NoControl, xray |-> 0, hysteria |-> NoHysteria]
Services == DOMAIN Down
Up == {s \in Services : live[s] # Down[s]}
Installed == disk.state # NoState

NodeInit ==
    /\ address \in Addresses
    /\ disk = NoDisk /\ leftovers = {} /\ live = Down /\ enabled = FALSE
    /\ lock = "none" /\ phase = "none"
    /\ draws = 0 /\ faults = 0 /\ rebuilds = 0

NoFault == UNCHANGED faults
Fault(kind) == kind \in Faults /\ faults < MaxFaults /\ faults' = faults + 1

-----------------------------------------------------------------------------
(* What the programs accept.                                               *)

\* A regular file of 32 bytes that only its owner reads.
ReadSecret(v) == v > 0

\* The limits of a fallback in units of 64 KiB, as configure.sh draws them ...
FallbackLimits ==
    UNION {[after : {16 * i : i \in Multiples}, rate : {r}, burst : r..Min({256, 4 * r})] :
              r \in Multiples}
\* ... one pair for the two directions, drawn again while the two are the same ...
AnyPair == FallbackLimits \X FallbackLimits
DrawnPairs == {pair \in FallbackLimits \X FallbackLimits : pair[1] # pair[2]}
\* ... and as render_config accepts them.
Limits(l) == l.after \in 16..1024 /\ l.rate \in 2..128 /\ l.burst \in l.rate..512
AcceptsLimits(pair) == Limits(pair[1]) /\ Limits(pair[2]) /\ pair[1] # pair[2]
DrawnLimitsFit == {AcceptsLimits(pair) : pair \in DrawnPairs}

Key(v) == v > 0
EncodedSecret(v) == v > 0
\* _validate_runtime_material: both files hold keys and the same short ID.
ValidRuntimeMaterial(m) == Key(m.key) /\ Key(m.node) /\ m.node = m.key
\* _validated_values of the renderer.
ValidMaterial(m) ==
    /\ m.node = m.key /\ m.fits
    /\ Key(m.key) /\ Key(m.node) /\ EncodedSecret(m.obfs) /\ EncodedSecret(m.api)

\* The settings and the secrets that control loads before it serves.
LoadSettings(c) == c.key > 0 /\ c.host > 0
SecretFiles(d) == \A s \in {"master", "api", "obfs"} : ReadSecret(d[s])
ControlStarts(d) == LoadSettings(d.control) /\ SecretFiles(d)

\* A profile opens under the master key it was written under.
Decrypts(db, master) == db.masters \subseteq {master}

-----------------------------------------------------------------------------
(* What render_config writes.                                              *)

\* One of a few pages, chosen by the key.
StubPage(key) == 1 + (key % 6)
ControlConfig(m) == [key |-> m.node, host |-> address]
GatewayConfig(m) == StubPage(m.key)
XrayConfig(m) == m.key
HysteriaConfig(m) == [api |-> m.api, obfs |-> m.obfs, page |-> StubPage(m.key)]
Rendered(m) == [control |-> ControlConfig(m), gateway |-> GatewayConfig(m), compose |-> Release,
                xray |-> XrayConfig(m), hysteria |-> HysteriaConfig(m)]

-----------------------------------------------------------------------------
(* What a service loads when it starts, and what it tells.                 *)

\* create_runtime_app; the links carry the key and the obfuscation password.
RuntimeApp == [key |-> disk.control.key, host |-> disk.control.host, master |-> disk.master,
               api |-> disk.api, obfs |-> disk.obfs]

\* The services of S are started; Hysteria waits for a healthy control.
Started(S) ==
    [gateway |-> IF "gateway" \in S THEN disk.gateway ELSE 0,
     control |-> IF "control" \in S /\ ControlStarts(disk) THEN RuntimeApp ELSE NoControl,
     xray |-> IF "xray" \in S /\ disk.xray > 0 THEN disk.xray ELSE 0,
     hysteria |-> IF "hysteria" \in S /\ ControlStarts(disk) THEN disk.hysteria ELSE NoHysteria]

\* Compose may stop at the gateway, whose directory is missing.
Starts(S) == IF disk.caddy > 0 THEN {Started(S)} ELSE {Started(S \ {"gateway"}), Down}

\* GET /health/ready after the first reconciliation.
Ready ==
    /\ live.control # NoControl /\ live.xray > 0
    /\ disk.db.exists /\ Decrypts(disk.db, live.control.master)
Healthy == Up = Services /\ Ready

VlessLink(c) == [host |-> c.host, key |-> c.key]
HysteriaLink(c) == [host |-> c.host, obfs |-> c.obfs]
Bundle(c) == [vless |-> VlessLink(c), hysteria |-> HysteriaLink(c)]
\* The subscription of a known token, which is looked up and decrypted with the
\* master key.
Subscription == IF Decrypts(disk.db, live.control.master) THEN {Bundle(live.control)} ELSE {}

\* The panel stores a profile.
PanelWrite ==
    /\ live.control # NoControl /\ disk.db.exists
    /\ disk.db.writes < MaxWrites
    /\ disk' = [disk EXCEPT !.db.writes = @ + 1, !.db.masters = @ \cup {live.control.master}]
    /\ UNCHANGED <<address, leftovers, live, enabled, lock, phase, draws, faults, rebuilds>>

-----------------------------------------------------------------------------
(* The installation: each run repeats the steps from the first and keeps   *)
(* what it finds.                                                          *)

Following == [preflight |-> "master", master |-> "api", api |-> "obfs", obfs |-> "material",
              material |-> "control", control |-> "gateway", gateway |-> "compose",
              compose |-> "xray", xray |-> "hysteria", hysteria |-> "stack",
              stack |-> "certificate", certificate |-> "migrate", migrate |-> "runtimes",
              runtimes |-> "unit", unit |-> "checks"]
Proceed ==
    /\ phase' = Following[phase]
    /\ UNCHANGED <<address, leftovers, enabled, lock, rebuilds>> /\ NoFault

InstallStart ==
    /\ lock = "none" /\ ~Installed
    /\ lock' = "install" /\ phase' = "preflight"
    /\ UNCHANGED <<address, disk, leftovers, live, enabled, draws, faults, rebuilds>>

\* _rollback_production_install and the end of the lock; the data stay.
RollbackKeepsLock ==
    /\ live' = Down /\ enabled' = FALSE /\ phase' = "none"
    /\ UNCHANGED <<address, disk, leftovers, lock, draws, rebuilds>>
InstallRollback ==
    /\ live' = Down /\ enabled' = FALSE /\ lock' = "none" /\ phase' = "none"
    /\ UNCHANGED <<address, disk, leftovers, draws, rebuilds>>

\* A file that is written through a temporary of a fixed name, which must not
\* exist yet.
Writable(file) == file \notin leftovers

\* The first phases are recorded in current.json; the records of the later ones
\* meet the same temporary, which only a kill leaves behind.
RecordPhase ==
    /\ phase = "preflight"
    /\ IF Writable("checkpoint") THEN Proceed /\ UNCHANGED <<disk, live, draws>>
       ELSE InstallRollback /\ NoFault

Redrawn(v) == draws + 1
Drawn(v) == IF v = 0 THEN draws + 1 ELSE v

\* _configure_secret; configure_layout answers with the status of its last
\* secret, so an unsafe file among the first two is met by the next steps.
ConfigureSecret ==
    /\ phase \in {"master", "api", "obfs"}
    /\ \/ /\ disk[phase] = Torn
          /\ IF phase = "obfs" THEN InstallRollback /\ NoFault
             ELSE Proceed /\ UNCHANGED <<disk, live, draws>>
       \/ /\ disk[phase] # Torn
          /\ disk' = [disk EXCEPT ![phase] = Drawn(@)]
          /\ draws' = IF disk'[phase] = disk[phase] THEN draws ELSE draws + 1
          /\ Proceed /\ UNCHANGED live

SecretsUnread(d) == TRUE
SecretsRead(d) == SecretFiles(d)

\* configure_runtime_material: drawn and moved into place as a whole, unless it
\* is there; then checked, whether it was drawn or kept.
DrawMaterial ==
    /\ phase = "material" /\ disk.material = NoMaterial
    /\ IF SecretsRead(disk)
       THEN /\ \E fits \in DrawnLimitsFit :
                 disk' = [disk EXCEPT !.material = [key |-> draws + 1, node |-> draws + 1,
                                                    api |-> disk.api, obfs |-> disk.obfs,
                                                    fits |-> fits]]
            /\ draws' = draws + 1
            /\ UNCHANGED <<address, leftovers, live, enabled, lock, phase, faults, rebuilds>>
       ELSE InstallRollback /\ NoFault
CheckMaterial ==
    /\ phase = "material" /\ disk.material # NoMaterial
    /\ IF ValidRuntimeMaterial(disk.material) THEN Proceed /\ UNCHANGED <<disk, live, draws>>
       ELSE InstallRollback /\ NoFault

\* render: the material is checked, then the files are replaced one by one
\* (through temporaries of random names).
Render ==
    /\ phase \in DOMAIN Rendered(disk.material)
    /\ IF ValidRuntimeMaterial(disk.material) /\ ValidMaterial(disk.material)
       THEN /\ disk' = [disk EXCEPT ![phase] = Rendered(disk.material)[phase]]
            /\ Proceed /\ UNCHANGED <<live, draws>>
       ELSE InstallRollback /\ NoFault

\* _install_stack_environment; its status is that of chown, which fails if there
\* is no stack.env at all.
WriteStack ==
    /\ phase = "stack"
    /\ \/ /\ Writable("stack")
          /\ disk' = [disk EXCEPT !.stack = address]
          /\ Proceed /\ UNCHANGED <<live, draws>>
       \/ ~Writable("stack") /\ disk.stack > 0 /\ Proceed /\ UNCHANGED <<disk, live, draws>>
       \/ ~Writable("stack") /\ disk.stack = 0 /\ InstallRollback /\ NoFault

\* Gateway and exporter; the gateway obtains the certificate once.
StartGateway ==
    /\ phase = "certificate"
    /\ disk' = [disk EXCEPT !.caddy = Drawn(@)]
    /\ draws' = IF disk.caddy = 0 THEN draws + 1 ELSE draws
    /\ live' = [live EXCEPT !.gateway = disk.gateway]
    /\ Proceed

MigrateControl ==
    /\ phase = "migrate"
    /\ IF ControlStarts(disk)
       THEN /\ live' = [live EXCEPT !.control = RuntimeApp]
            /\ disk' = [disk EXCEPT !.db.exists = TRUE]
            /\ Proceed /\ UNCHANGED draws
       ELSE InstallRollback /\ NoFault

\* Xray and Hysteria are started if they are not running, control is restarted.
StartRuntimes ==
    /\ phase = "runtimes"
    /\ live' = [s \in Services |-> IF s \in Up \ {"control"} THEN live[s] ELSE Started(Services)[s]]
    /\ Proceed /\ UNCHANGED <<disk, draws>>

InstallUnit ==
    /\ phase = "unit"
    /\ enabled' = TRUE /\ phase' = Following[phase]
    /\ UNCHANGED <<address, disk, leftovers, live, lock, draws, faults, rebuilds>>

\* The panel answers that it is ready, and install.json is written
\* (E_INSTALL_STATE if it cannot be).
CompleteInstall ==
    /\ phase = "checks"
    /\ IF Ready /\ Writable("state")
       THEN /\ disk' = [disk EXCEPT !.state = [version |-> Release, address |-> address]]
            /\ lock' = "none" /\ phase' = "none"
            /\ UNCHANGED <<address, leftovers, live, enabled, draws, rebuilds>> /\ NoFault
       ELSE InstallRollback /\ NoFault

InstallStep ==
    \/ RecordPhase \/ ConfigureSecret \/ DrawMaterial \/ CheckMaterial \/ Render \/ WriteStack
    \/ StartGateway \/ MigrateControl \/ StartRuntimes \/ InstallUnit \/ CompleteInstall

\* A step fails: a download, a full disk, a health timeout.
InstallFails == phase # "none" /\ Fault("fail") /\ InstallRollback

\* The temporary files that may be open at a phase: the record of the phase
\* before, stack.env, and at the end the last records and install.json.
Temporaries ==
    CASE phase \in {"preflight", "certificate", "migrate", "runtimes", "unit"} -> {"checkpoint"}
      [] phase = "stack" -> {"stack"}
      [] phase = "checks" /\ Ready -> {"checkpoint", "state"}
      [] OTHER -> {}

\* The script dies; a secret may be cut short (it is written in place), and a
\* temporary file may stay (it is opened before the try that unlinks it).
InstallKilled ==
    /\ phase # "none"
    /\ \/ Fault("kill") /\ UNCHANGED <<disk, leftovers>>
       \/ /\ Fault("torn") /\ phase \in {"master", "api", "obfs"} /\ disk[phase] = 0
          /\ disk' = [disk EXCEPT ![phase] = Torn] /\ UNCHANGED leftovers
       \/ /\ Fault("torn")
          /\ \E file \in Temporaries : Writable(file) /\ leftovers' = leftovers \cup {file}
          /\ UNCHANGED disk
    /\ lock' = "none" /\ phase' = "none"
    /\ UNCHANGED <<address, live, enabled, draws, rebuilds>>

\* Docker restarts what was running, the unit starts everything.
Reboot ==
    /\ Fault("reboot")
    /\ live' \in Starts(IF enabled THEN Services ELSE Up)
    /\ lock' = "none" /\ phase' = "none"
    /\ UNCHANGED <<address, disk, leftovers, enabled, draws, rebuilds>>

\* The provider reinstalls the server, at the same address or another.
Rebuild ==
    /\ rebuilds < MaxRebuilds
    /\ rebuilds' = rebuilds + 1
    /\ address' \in Addresses
    /\ disk' = NoDisk /\ leftovers' = {} /\ live' = Down /\ enabled' = FALSE
    /\ lock' = "none" /\ phase' = "none"
    /\ UNCHANGED <<draws, faults>>

-----------------------------------------------------------------------------
(* Properties.                                                             *)

Value == Nat \cup {Torn}
NodeTypeOK ==
    /\ address \in Addresses /\ enabled \in BOOLEAN
    /\ leftovers \subseteq {"checkpoint", "stack", "state"}
    /\ lock \in {"none", "install", "backup", "restore"}
    /\ phase \in DOMAIN Following \cup {"none", "checks"}
    /\ disk.master \in Value /\ disk.api \in Value /\ disk.obfs \in Value
    /\ disk.material \in [key : Nat, node : Nat, api : Nat, obfs : Nat, fits : BOOLEAN]
    /\ disk.control \in [key : Nat, host : Nat] /\ disk.hysteria \in [api : Nat, obfs : Nat, page : Nat]
    /\ disk.gateway \in 0..6 /\ disk.xray \in Nat /\ disk.compose \in Nat
    /\ disk.stack \in Nat /\ disk.caddy \in Nat
    /\ disk.db.masters \subseteq Nat /\ disk.db.writes \in 0..MaxWrites
    /\ live.control \in [key : Nat, host : Nat, master : Nat, api : Nat, obfs : Nat]
    /\ draws \in Nat /\ faults \in 0..MaxFaults /\ rebuilds \in 0..MaxRebuilds

\* _configure_secret, configure_runtime_material: however often the installation
\* is interrupted and repeated, a secret or key once drawn is replaced by a
\* restore or a new server only: links that were handed out keep working.
IdentityStable ==
    [][rebuilds' = rebuilds /\ lock # "restore" =>
         /\ \A s \in {"master", "api", "obfs"} : disk[s] > 0 => disk'[s] = disk[s]
         /\ disk.material # NoMaterial => disk'.material = disk.material]_nodeVars

\* configure.sh and render_config agree: the material is drawn once and kept, so
\* a value that the renderer refuses (limits out of its ranges, the same limits
\* in both directions, two short IDs) would fail every later run.
SavedMaterialRenders == disk.material # NoMaterial => ValidMaterial(disk.material)

\* What only a new server cures: a secret that is cut short, a leftover of
\* current.json or install.json, and one of stack.env before its first write.
Stuck ==
    \/ \E s \in {"master", "api", "obfs"} : disk[s] = Torn
    \/ ~Writable("checkpoint") \/ ~Writable("state")
    \/ ~Writable("stack") /\ disk.stack = 0

\* An installation that is interrupted anywhere and run again completes, unless
\* the interruption left one of these.
InstallResumes == ~Installed ~> (Installed \/ Stuck)

\* What docs/troubleshooting.md asks for, repeating the installation, is enough.
InterruptedInstallEnds == ~Installed ~> Installed
=============================================================================
