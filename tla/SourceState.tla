---- MODULE SourceState ----
(***************************************************************************)
(* The DHCP source of a cell as the scenarios change it: the config files  *)
(* on its disk, what each daemon serves, the units that run, and the       *)
(* actors (squatter, rogue server, netem qdisc) on its segment leg.        *)
(*                                                                         *)
(* Every change is one or more remote commands.  A command that answers an *)
(* error may have run or not, so a failing operation has a set of          *)
(* outcomes; each operator below returns such a set of source states.  A   *)
(* config is the set of edits it carries.  The nine adapters differ in     *)
(* what they offer, which files an edit goes to and which daemons read     *)
(* them, and in what they undo when a command fails.                       *)
(***************************************************************************)
EXTENDS Naturals, Sequences, FiniteSets

Kinds == {"kea", "isc", "dnsmasq", "udhcpd", "pihole", "openwrt", "pair", "routeros", "windows"}

(* An appliance has no file of its own to rewrite: a command changes what  *)
(* it serves, and restores one value, not a file.                          *)
Appliance(k) == k \in {"routeros", "windows"}

(* The files Ready compares, with the daemon of each in "up".  conf is the *)
(* v4 server's, partner the second server's of a failover pair, lab the    *)
(* OpenWrt dnsmasq's second file.                                          *)
FileSeq == <<"conf", "lab", "conf6", "radvd", "partner">>
Files == {FileSeq[i] : i \in DOMAIN FileSeq}

FilesOf(k) == CASE k \in {"kea", "isc"} -> {"conf", "conf6", "radvd"}
                [] k = "pair" -> {"conf", "conf6", "radvd", "partner"}
                [] k = "dnsmasq" -> {"conf", "conf6"}
                [] k = "openwrt" -> {"conf", "lab"}
                [] OTHER -> {"conf"}

(* The files whose daemon is (re)started with that of f.                   *)
Unit(k, f) == CASE k \in {"dnsmasq", "openwrt"} -> FilesOf(k)
                [] k = "isc" /\ f # "radvd" -> {"conf", "conf6"}
                [] OTHER -> {f}

Features4 == {"classpool", "offer108", "force108", "rapid4", "nonce"}
Features6 == {"rapid6", "temporary6", "pd"}
Features == Features4 \cup Features6
Adverts == {"ra", "ra-second", "ra-off"}
Edits == {"lease", "dns", "pool", "renumber"} \cup Features \cup Adverts
Reservation == "reservation"

(* Edits that move the segment's addresses as well.                        *)
Moving == {"renumber", "ra-second"}

Actors == {"squatter", "rogue", "netem"}
Stops == {"service", "dhcp6", "peer"}
Changes == Edits \cup Actors \cup Stops

(* What each adapter refuses before any command.                           *)
NoV6 == {"dhcp6"} \cup Features6 \cup Adverts

KeaWithholds == {"rapid4", "temporary6"}
ISCWithholds == {"rapid4"}
DnsmasqWithholds == {"pd", "dhcp6"}
UdhcpdWithholds == NoV6 \cup Features4
PiholeWithholds == NoV6 \cup {"lease", "pool", "renumber", "classpool"}
OpenwrtWithholds == NoV6 \cup Actors \cup {"nonce"}
RouterOSWithholds == NoV6 \cup Actors \cup {"nonce", "rapid4"}
WindowsWithholds == NoV6 \cup Actors \cup {"nonce", "rapid4"}
PairWithholds == KeaWithholds \cup {"renumber", "netem"}

Withheld(k) ==
  (IF k = "pair" THEN {} ELSE {"peer"})
    \cup CASE k = "kea" -> KeaWithholds
           [] k = "isc" -> ISCWithholds
           [] k = "dnsmasq" -> DnsmasqWithholds
           [] k = "udhcpd" -> UdhcpdWithholds
           [] k = "pihole" -> PiholeWithholds
           [] k = "openwrt" -> OpenwrtWithholds
           [] k = "routeros" -> RouterOSWithholds
           [] k = "windows" -> WindowsWithholds
           [] k = "pair" -> PairWithholds
Offered(k) == Changes \ Withheld(k)

(* The files an edit is written to, daemon by daemon.                      *)
PlainHomes(x) == CASE x \in Features6 -> <<{"conf6"}>>
                   [] x \in Adverts -> <<{"radvd"}>>
                   [] OTHER -> <<{"conf"}>>

(* Both peers of a pair, but for what its first server alone serves.       *)
PairHomes(x) == IF x \in Features6 \cup Adverts THEN PlainHomes(x) ELSE <<{"conf"}, {"partner"}>>

OpenwrtHomes(x) == CASE x \in {"dns", "offer108", "force108"} -> <<{"lab"}>>
                     [] x \in {"classpool", "renumber"} -> <<{"conf", "lab"}>>
                     [] OTHER -> <<{"conf"}>>

(* dnsmasq serves its v6 features as shipped.                              *)
DnsmasqHomes(x) == CASE x \in Adverts -> <<{"conf6"}>>
                     [] x \in Features6 -> <<>>
                     [] OTHER -> <<{"conf"}>>

Homes(k, x) == CASE k = "pair" -> PairHomes(x)
                 [] k = "openwrt" -> OpenwrtHomes(x)
                 [] k = "dnsmasq" -> DnsmasqHomes(x)
                 [] OTHER -> PlainHomes(x)

HomeFiles(k, x) == UNION {Homes(k, x)[i] : i \in DOMAIN Homes(k, x)}

(* The units a change stops: advertising ends with radvd, but in dnsmasq.  *)
Stopped(k, x) ==
  CASE x = "service" -> Unit(k, "conf") \cup (IF k = "pair" THEN {"partner"} ELSE {})
    [] x = "dhcp6" -> {"conf6"}
    [] x = "peer" -> {"conf"}
    [] x = "ra-off" /\ k # "dnsmasq" -> {"radvd"}
    [] OTHER -> {}

IsStop(k, x) == x \in Stops \/ (x = "ra-off" /\ k # "dnsmasq")
IsEdit(k, x) == x \in Edits /\ ~IsStop(k, x)

(* Edits whose setter does not put the config back when it fails.          *)
Bare(k) == CASE k = "routeros" -> {"lease", "dns", "pool"}
             [] k \in {"windows", "openwrt"} -> {}
             [] OTHER -> {"lease", "dns"}

Contents == SUBSET (Edits \cup {Reservation})
Sources == [kind : Kinds, disk : [Files -> Contents], serves : [Files -> Contents],
            addr : SUBSET Moving, up : SUBSET Files, actors : SUBSET Actors]

(* As cloud-init, or the image, brings the source up.                      *)
Stock(k) == [kind |-> k, disk |-> [f \in Files |-> {}], serves |-> [f \in Files |-> {}],
             addr |-> {}, up |-> FilesOf(k), actors |-> {}]

-----------------------------------------------------------------------------
(* Single commands.                                                        *)

(* The files fs written with what c holds for each.                        *)
Written(s, fs, c) ==
  LET disk == [f \in Files |-> IF f \in fs THEN c[f] ELSE s.disk[f]]
  IN  [s EXCEPT !.disk = disk, !.serves = IF Appliance(s.kind) THEN disk ELSE @]

With(s, x) == [f \in Files |-> s.disk[f] \cup {x}]
Added(s, fs, x) == Written(s, fs, With(s, x))

(* A started daemon reads its files.                                       *)
Started(s, fs) ==
  LET read == UNION {Unit(s.kind, f) : f \in fs}
  IN  [s EXCEPT !.serves = [f \in Files |-> IF f \in read THEN s.disk[f] ELSE @[f]], !.up = @ \cup read]

Down(s, fs) == [s EXCEPT !.up = @ \ fs]

(* A restart that answers an error: never ran, ran, or left the unit down. *)
RestartLost(s, fs) == {s, Started(s, fs)}
  \cup (IF Appliance(s.kind) THEN {} ELSE {Down(s, UNION {Unit(s.kind, f) : f \in fs})})

Moved(s, x) == [s EXCEPT !.addr = @ \cup ({x} \cap Moving)]

-----------------------------------------------------------------------------
(* An edit in the files of one daemon.                                     *)

(* What a setter keeps for its restore: the bytes of the files and the     *)
(* addresses.  An appliance's features are removed by name, and the image's*)
(* scope is what Windows imports after a renumbering, with the lease time  *)
(* it read.                                                                *)
WindowsImports(c) == c \cap {"lease"}

Captured(s, x) ==
  [conf |-> [f \in Files |->
               CASE s.kind = "windows" /\ x = "renumber" -> WindowsImports(s.disk[f])
                 [] Appliance(s.kind) /\ x \in Features -> s.disk[f] \ {x}
                 [] OTHER -> s.disk[f]],
   addr |-> s.addr \cap {x}]
Captures == [conf : [Files -> Contents], addr : SUBSET Moving]

(* What a restore writes.                                                  *)
Former(s, x, was) ==
  IF Appliance(s.kind) /\ ~(s.kind = "windows" /\ x = "renumber")
  THEN [f \in Files |-> (s.disk[f] \ {x}) \cup (was.conf[f] \cap {x})]
  ELSE was.conf

SetIn(s, fs, x) == Started(Added(s, fs, x), fs)

(* Mutant: the daemon is restarted before its file is put back.            *)
SlipBackIn(s, fs, x, was) == Written(Started(s, fs), fs, Former(s, x, was))

BackIn(s, fs, x, was) == Started(Written(s, fs, Former(s, x, was)), fs)

(* The command that failed was a read, a write or the restart.             *)
CutIn(s, fs, x) == {Added(s, g, x) : g \in SUBSET fs} \cup RestartLost(Added(s, fs, x), fs)

(* A bare edit's restore ends at a failed write; the others try every      *)
(* command whatever the ones before it answered.                           *)
LostIn(s, fs, x, was) ==
  LET wrote(g) == Written(s, g, Former(s, x, was))
  IN  IF x \in Bare(s.kind) THEN {s, wrote(fs)} \cup RestartLost(wrote(fs), fs)
      ELSE UNION {RestartLost(wrote(g), fs) : g \in SUBSET fs}

(* A setter that answers an error, and one whose way back fails too.       *)
FailedIn(s, fs, x) ==
  IF x \in Bare(s.kind) THEN CutIn(s, fs, x)
  ELSE {s} \cup {BackIn(r, fs, x, Captured(s, x)) : r \in CutIn(s, fs, x)}

FailedTwiceIn(s, fs, x) ==
  IF x \in Bare(s.kind) THEN {} ELSE UNION {LostIn(r, fs, x, Captured(s, x)) : r \in CutIn(s, fs, x)}

-----------------------------------------------------------------------------
(* A change as the adapter makes it: in every home in turn.                *)

Earlier(k, x, i) == UNION {Homes(k, x)[j] : j \in 1..(i - 1)}

(* A config that carries the edit already, or a second address that is     *)
(* there, makes the setter refuse; a moved segment address does not, nor   *)
(* does what an appliance carries, but for the exclusions of a pool        *)
(* Windows has narrowed.                                                   *)
Carried(s, x) == \E f \in HomeFiles(s.kind, x) : x \in s.disk[f]
InFile(k, x) == IsEdit(k, x) /\ ~Appliance(k)

Refuses(s, x) ==
  \/ x \notin Offered(s.kind)
  \/ s.kind = "windows" /\ x = "pool" /\ x \in s.disk["conf"]
  \/ InFile(s.kind, x) /\ x \in s.addr \cap {"ra-second"}
  \/ InFile(s.kind, x) /\ x \notin {"lease"} \cup Adverts /\ Carried(s, x)

(* A lease time shortened already is refused when it is the same one, but  *)
(* OpenWrt's, which a command sets; what the router advertises, when the   *)
(* lines this change edits are the ones an earlier change edited.          *)
SameLease(s, x) == x = "lease" /\ s.kind # "openwrt" /\ Carried(s, x)
SameAdvert(s, x) == x \in Adverts /\ \E y \in Adverts : Carried(s, y)

MayRefuse(s, x) ==
  Refuses(s, x) \/ (InFile(s.kind, x) /\ (SameLease(s, x) \/ SameAdvert(s, x)))

SetEdit(s, x) == SetIn(Moved(s, x), HomeFiles(s.kind, x), x)
SetActor(s, x) == [s EXCEPT !.actors = @ \cup {x}]
SetStop(s, x) == Down(s, Stopped(s.kind, x))

Set(s, x) == CASE IsEdit(s.kind, x) -> SetEdit(s, x)
               [] x \in Actors -> SetActor(s, x)
               [] OTHER -> SetStop(s, x)

MovedBack(s, x, was) == [s EXCEPT !.addr = (@ \ {x}) \cup was.addr]

EditBack(s, x, was) == BackIn(MovedBack(s, x, was), HomeFiles(s.kind, x), x, was)
ActorGone(s, x) == [s EXCEPT !.actors = @ \ {x}]
StopOver(s, x) == Started(s, Stopped(s.kind, x))

Restored(s, x, was) == CASE IsEdit(s.kind, x) -> EditBack(s, x, was)
                         [] x \in Actors -> ActorGone(s, x)
                         [] OTHER -> StopOver(s, x)

(* What a restore that answers an error may leave.  A pair's restore tries *)
(* both peers and then waits for them to be normal; a pair's start stops   *)
(* the first peer again when the second does not start.                    *)
EditLost(s, x, was) ==
  LET h == Homes(s.kind, x)
      rest(i) == HomeFiles(s.kind, x) \ h[i]
  IN  {EditBack(s, x, was)}
        \cup UNION {UNION {LostIn(BackIn(b, rest(i), x, was), h[i], x, was) :
                             b \in {s, MovedBack(s, x, was)}} : i \in DOMAIN h}

StopLost(s, x) == {Started(s, g) : g \in SUBSET Stopped(s.kind, x)} \cup RestartLost(s, Stopped(s.kind, x))

RestoreLost(s, x, was) == CASE IsEdit(s.kind, x) -> EditLost(s, x, was)
                            [] x \in Actors -> {s, ActorGone(s, x)}
                            [] OTHER -> StopLost(s, x)

(* What a setter that answers an error may leave: a home that fails is put *)
(* back unless the edit is bare, and so are the homes before it.           *)
EditFailed(s, x) ==
  LET h == Homes(s.kind, x)
  IN  {s, EditBack(SetEdit(s, x), x, Captured(s, x))}
        \cup (IF x = "ra-second" THEN {Moved(s, x)} ELSE {})
        \cup UNION {{BackIn(r, Earlier(s.kind, x, i), x, Captured(s, x)) : r \in FailedIn(s, h[i], x)} :
                      i \in DOMAIN h}

(* A second server that fails to stop has the first one started again.     *)
PairStopFailed(s) == {s, Down(s, {"conf"}), Down(s, {"partner"})}

(* A failed stop of ISC's v6 server restarts both.                         *)
StopFailed(s, x) ==
  CASE s.kind = "isc" /\ x = "dhcp6" -> {StopOver(s, x)}
    [] s.kind = "pair" /\ x = "service" -> PairStopFailed(s)
    [] OTHER -> {s, SetStop(s, x)}

SetFailed(s, x) == CASE IsEdit(s.kind, x) -> EditFailed(s, x)
                     [] x \in Actors -> {s}
                     [] OTHER -> StopFailed(s, x)

(* The same when the adapter's own way back fails too.                     *)
EditFailedTwice(s, x) ==
  LET h == Homes(s.kind, x)
      was == Captured(s, x)
      halfway(i) == SetIn(s, Earlier(s.kind, x, i), x)
  IN  EditLost(SetEdit(s, x), x, was)
        \cup (UNION {FailedTwiceIn(m, h[i], x) : m \in {s, Moved(s, x)}, i \in DOMAIN h})
        \cup UNION {UNION {LostIn(r, Earlier(s.kind, x, i), x, was) : r \in FailedIn(halfway(i), h[i], x)} :
                      i \in DOMAIN h}

StopFailedTwice(s, x) ==
  CASE s.kind = "isc" /\ x = "dhcp6" -> RestartLost(SetStop(s, x), {"conf6"})
    [] s.kind = "pair" /\ x = "service" -> {Down(s, {"conf"}), SetStop(s, x)}
    [] OTHER -> {}

SetFailedTwice(s, x) == CASE IsEdit(s.kind, x) -> EditFailedTwice(s, x)
                          [] x \in Actors -> {s, SetActor(s, x)}
                          [] OTHER -> StopFailedTwice(s, x)

-----------------------------------------------------------------------------
(* The lease reset and the reservation of an address.                      *)

(* The server is stopped, its lease file cleared and the server started;   *)
(* a pair stops both first; an appliance removes the leases it lists.      *)
LeasesReset(s) == IF Appliance(s.kind) THEN s ELSE Started(s, Stopped(s.kind, "service"))

ResetFailed(s) ==
  LET fs == Stopped(s.kind, "service")
  IN  IF Appliance(s.kind) THEN {s}
      ELSE RestartLost(s, fs) \cup {Started(Down(s, fs), g) : g \in SUBSET fs}

(* Where a reservation lies in a file that Ready compares.                 *)
ReservedIn(k, by) == CASE k = "openwrt" -> IF by = "mac" THEN {"conf"} ELSE {"lab"}
                       [] k = "udhcpd" -> {"conf"}
                       [] OTHER -> {}

(* udhcpd reserves by MAC alone.                                           *)
Reserves(k, by) == k = "udhcpd" => by = "mac"

(* Kea is told to read its reservations, an appliance has them at once.    *)
Reserved(s, by) ==
  LET w == Added(s, ReservedIn(s.kind, by), Reservation)
  IN  IF s.kind \in {"kea", "pair"} \/ Appliance(s.kind) THEN w ELSE Started(w, {"conf"})

ReserveFailed(s, by) ==
  LET w == Added(s, ReservedIn(s.kind, by), Reservation)
  IN  IF s.kind \in {"kea", "pair"} \/ Appliance(s.kind) THEN {s, w} ELSE {s, w} \cup RestartLost(w, {"conf"})

-----------------------------------------------------------------------------
(* The readiness gate.                                                     *)

(* base is the copy the first Ready of the process took, or no copy yet.   *)
NoBaseline == [taken |-> FALSE, disk |-> [f \in Files |-> {}], addr |-> {}]

Same(s, base) == s.disk = base.disk /\ s.addr = base.addr

Ready(s, base) ==
  /\ s.up = FilesOf(s.kind)
  /\ s.actors = {}
  /\ base.taken => Same(s, base)

Baseline(s, base) ==
  IF base.taken THEN base ELSE [taken |-> TRUE, disk |-> s.disk, addr |-> s.addr]

(* A reservation in a compared file is part of the copy from then on;      *)
(* OpenWrt moves only a copy that was true to the file before.             *)
Reread(s, base, by) ==
  LET fs == {f \in ReservedIn(s.kind, by) : s.kind = "openwrt" => base.disk[f] = s.disk[f]}
  IN  [base EXCEPT !.disk = [f \in Files |-> IF f \in fs THEN Reserved(s, by).disk[f] ELSE @[f]]]

(* Recover sweeps the actors, writes the baseline back where it differs    *)
(* and restarts every unit; an appliance imports its image's baseline.     *)
Goal(s, base) == IF Appliance(s.kind) THEN [Stock(s.kind) EXCEPT !.up = s.up]
                 ELSE [s EXCEPT !.disk = Baseline(s, base).disk, !.addr = Baseline(s, base).addr]

Swept(s) == [s EXCEPT !.actors = {}]
BackOn(s, fs, base) == Written([Swept(s) EXCEPT !.addr = Goal(s, base).addr], fs, Goal(s, base).disk)
RecoveredOn(s, fs, base) == Started(BackOn(s, fs, base), fs)

Recovered(s, base) == RecoveredOn(s, FilesOf(s.kind), base)

(* Recover ends at its first failing command; the files are written one    *)
(* after the other, and the restarts come behind them in turn.             *)
UpTo(i, fs) == {FileSeq[j] : j \in 1..i} \cap fs

RecoverCut(s, fs, base) ==
  LET all == BackOn(s, fs, base)
  IN  {s, Swept(s)}
        \cup {BackOn(s, UpTo(i, fs), base) : i \in 0..Len(FileSeq)}
        \cup UNION {RestartLost(Started(all, UpTo(i - 1, fs)), {FileSeq[i]} \cap fs) : i \in DOMAIN FileSeq}

(* A pair recovers its second server whatever the first one's answer was.  *)
PairRecoverFailed(s, base) ==
  LET partner == FilesOf(s.kind) \cap {"partner"}
      first == FilesOf(s.kind) \ partner
  IN  {RecoveredOn(r, partner, base) : r \in RecoverCut(s, first, base)}
        \cup RecoverCut(RecoveredOn(s, first, base), partner, base)

ImportFailed(s, base) == {s, Recovered(s, base), Down(Recovered(s, base), {"conf"})}

RecoverFailed(s, base) == CASE s.kind = "pair" -> PairRecoverFailed(s, base)
                            [] Appliance(s.kind) -> ImportFailed(s, base)
                            [] OTHER -> RecoverCut(s, FilesOf(s.kind), base)
=============================================================================
