---- MODULE SourceStateProofs ----
(***************************************************************************)
(* Proofs about the operators of SourceState, for every kind of source and *)
(* every state of it: what each change, restore, reset and recovery of a   *)
(* source may touch, whatever its commands answer; that a restore is exact *)
(* and that a recovery is enough.                                          *)
(***************************************************************************)
EXTENDS SourceState, TLAPS

Units(k, fs) == UNION {Unit(k, f) : f \in fs}

(* r comes from s by commands that wrote at most the files fs, started or  *)
(* stopped at most the daemons of us and moved at most the addresses xs.   *)
Within(s, r, fs, us, xs) ==
  /\ r \in Sources /\ r.kind = s.kind /\ r.actors = s.actors
  /\ \A f \in Files \ fs : r.disk[f] = s.disk[f] /\ r.serves[f] \in {s.serves[f], s.disk[f]}
  /\ s.up \ r.up \subseteq us /\ r.up \ s.up \subseteq us
  /\ r.addr \ xs = s.addr \ xs

-----------------------------------------------------------------------------
(* Files and units.                                                        *)

LEMMA FilesAre == Files = {"conf", "lab", "conf6", "radvd", "partner"}
<1>1. DOMAIN FileSeq = 1..5
  BY DEF FileSeq
<1> QED
  BY <1>1 DEF Files, FileSeq

LEMMA UnitsAre ==
  ASSUME NEW k \in Kinds
  PROVE  /\ FilesOf(k) \subseteq Files
         /\ \A f \in Files : Unit(k, f) \subseteq Files
         /\ \A f \in FilesOf(k) : f \in Unit(k, f) /\ Unit(k, f) \subseteq FilesOf(k)
BY FilesAre DEF FilesOf, Unit, Kinds

LEMMA UnitsInFiles ==
  ASSUME NEW k \in Kinds, NEW fs \in SUBSET Files
  PROVE  Units(k, fs) \subseteq Files
BY UnitsAre DEF Units

(* The homes an edit can have, daemon by daemon.                           *)
LEMMA HomesKinds ==
  ASSUME NEW k \in Kinds, NEW x \in Edits
  PROVE  Homes(k, x) \in {<<>>, <<{"conf"}>>, <<{"lab"}>>, <<{"conf6"}>>, <<{"radvd"}>>,
                          <<{"conf", "lab"}>>, <<{"conf"}, {"partner"}>>}
BY DEF Homes, PairHomes, OpenwrtHomes, DnsmasqHomes, PlainHomes

LEMMA FewHomes ==
  ASSUME NEW a, NEW b
  PROVE  /\ DOMAIN <<a>> = {1} /\ <<a>>[1] = a /\ UNION {<<a>>[i] : i \in DOMAIN <<a>>} = a
         /\ DOMAIN <<a, b>> = {1, 2} /\ <<a, b>>[1] = a /\ <<a, b>>[2] = b
         /\ UNION {<<a, b>>[i] : i \in DOMAIN <<a, b>>} = a \cup b
         /\ DOMAIN <<>> = {} /\ UNION {<<>>[i] : i \in DOMAIN <<>>} = {}
<1>1. DOMAIN <<a>> = {1} /\ <<a>>[1] = a
  OBVIOUS
<1>2. DOMAIN <<a, b>> = {1, 2} /\ <<a, b>>[1] = a /\ <<a, b>>[2] = b
  OBVIOUS
<1>3. DOMAIN <<>> = {} /\ UNION {<<>>[i] : i \in DOMAIN <<>>} = {}
  OBVIOUS
<1>4. UNION {<<a>>[i] : i \in DOMAIN <<a>>} = a
  BY <1>1
<1>5. UNION {<<a, b>>[i] : i \in DOMAIN <<a, b>>} = a \cup b
  BY <1>2
<1> QED
  BY <1>1, <1>2, <1>3, <1>4, <1>5

(* The homes of an edit are files of the source, and each is among those   *)
(* its daemon reads.                                                       *)
LEMMA HomesAre ==
  ASSUME NEW k \in Kinds, NEW x \in Edits
  PROVE  /\ HomeFiles(k, x) \subseteq Files
         /\ \A i \in DOMAIN Homes(k, x) : Homes(k, x)[i] \subseteq HomeFiles(k, x)
         /\ \A i \in DOMAIN Homes(k, x) : Earlier(k, x, i) \subseteq HomeFiles(k, x)
<1>1. DOMAIN Homes(k, x) \in {{}, {1}, {1, 2}}
  BY HomesKinds, FewHomes
<1>2. HomeFiles(k, x) \subseteq Files
  BY HomesKinds, FewHomes, FilesAre DEF HomeFiles
<1>3. \A i \in DOMAIN Homes(k, x) : Homes(k, x)[i] \subseteq HomeFiles(k, x)
  BY DEF HomeFiles
<1>4. \A i \in DOMAIN Homes(k, x) : 1..(i - 1) \subseteq DOMAIN Homes(k, x)
  BY <1>1
<1> QED
  BY <1>2, <1>3, <1>4 DEF Earlier

LEMMA HomesAreServed ==
  ASSUME NEW k \in Kinds, NEW x \in Edits
  PROVE  /\ \A f \in HomeFiles(k, x) : f \in Unit(k, f)
         /\ x \in Offered(k) => HomeFiles(k, x) \subseteq FilesOf(k)
<1>1. CASE k = "pair"
  <2>1. Homes(k, x) = PairHomes(x)
    BY <1>1 DEF Homes
  <2>2. HomeFiles(k, x) \in {{"conf6"}, {"radvd"}, {"conf", "partner"}}
    BY <2>1, FewHomes DEF HomeFiles, PairHomes, PlainHomes
  <2> QED
    BY <1>1, <2>2 DEF Unit, FilesOf
<1>2. CASE k = "openwrt"
  <2>1. Homes(k, x) = OpenwrtHomes(x)
    BY <1>2 DEF Homes
  <2>2. HomeFiles(k, x) \in {{"conf"}, {"lab"}, {"conf", "lab"}}
    BY <2>1, FewHomes DEF HomeFiles, OpenwrtHomes
  <2> QED
    BY <1>2, <2>2 DEF Unit, FilesOf
<1>3. CASE k = "dnsmasq"
  <2>1. Homes(k, x) = DnsmasqHomes(x)
    BY <1>3 DEF Homes
  <2>2. HomeFiles(k, x) \in {{}, {"conf"}, {"conf6"}}
    BY <2>1, FewHomes DEF HomeFiles, DnsmasqHomes
  <2> QED
    BY <1>3, <2>2 DEF Unit, FilesOf
<1>4. CASE k \in {"kea", "isc"}
  <2>1. Homes(k, x) = PlainHomes(x)
    BY <1>4 DEF Homes
  <2>2. HomeFiles(k, x) \in {{"conf"}, {"conf6"}, {"radvd"}}
    BY <2>1, FewHomes DEF HomeFiles, PlainHomes
  <2> QED
    BY <1>4, <2>2 DEF Unit, FilesOf
<1>5. CASE k \in {"udhcpd", "pihole", "routeros", "windows"}
  <2>1. Homes(k, x) = PlainHomes(x)
    BY <1>5 DEF Homes
  <2>2. /\ HomeFiles(k, x) \in {{"conf6"}, {"radvd"}, {"conf"}}
        /\ x \notin Features6 \cup Adverts => HomeFiles(k, x) = {"conf"}
    BY <2>1, FewHomes DEF HomeFiles, PlainHomes
  <2>3. x \in Offered(k) => x \notin Features6 \cup Adverts
    BY <1>5 DEF Offered, Withheld, UdhcpdWithholds, PiholeWithholds, RouterOSWithholds, WindowsWithholds, NoV6
  <2> QED
    BY <1>5, <2>2, <2>3 DEF Unit, FilesOf
<1> QED
  BY <1>1, <1>2, <1>3, <1>4, <1>5 DEF Kinds

(* The units a change stops are the source's own.                          *)
LEMMA StoppedAre ==
  ASSUME NEW k \in Kinds, NEW x \in Changes
  PROVE  /\ Stopped(k, x) \subseteq Files
         /\ x \in Offered(k) \cup {"service"} =>
              Stopped(k, x) \subseteq FilesOf(k) /\ \A f \in Stopped(k, x) : f \in Unit(k, f)
<1>1. Stopped(k, x) \subseteq Files
  BY UnitsAre, FilesAre DEF Stopped, FilesOf
<1>2. ASSUME x \in Offered(k) \cup {"service"}
      PROVE  Stopped(k, x) \subseteq FilesOf(k)
  <2>1. CASE k \in {"kea", "isc", "pair", "dnsmasq"}
    BY <1>2, <2>1 DEF Stopped, FilesOf, Unit, Offered, Withheld, DnsmasqWithholds
  <2>2. CASE k \in {"udhcpd", "pihole", "openwrt", "routeros", "windows"}
    <3>1. x \notin {"dhcp6", "ra-off", "peer"}
      BY <1>2, <2>2 DEF Offered, Withheld, UdhcpdWithholds, PiholeWithholds, OpenwrtWithholds,
                        RouterOSWithholds, WindowsWithholds, NoV6, Adverts
    <3> QED
      BY <2>2, <3>1 DEF Stopped, FilesOf, Unit
  <2> QED
    BY <2>1, <2>2 DEF Kinds
<1> QED
  BY <1>1, <1>2, UnitsAre

-----------------------------------------------------------------------------
(* What single commands touch.                                             *)

LEMMA WithinSelf ==
  ASSUME NEW s \in Sources, NEW fs, NEW us, NEW xs
  PROVE  Within(s, s, fs, us, xs)
BY DEF Within

LEMMA WithinTwice ==
  ASSUME NEW s, NEW r, NEW t, NEW fs, NEW us, NEW xs,
         Within(s, r, fs, us, xs), Within(r, t, fs, us, xs)
  PROVE  Within(s, t, fs, us, xs)
BY DEF Within

LEMMA WrittenWithin ==
  ASSUME NEW s \in Sources, NEW c \in [Files -> Contents], NEW gs, NEW fs, gs \subseteq fs, NEW us, NEW xs
  PROVE  Within(s, Written(s, gs, c), fs, us, xs)
<1> DEFINE disk == [f \in Files |-> IF f \in gs THEN c[f] ELSE s.disk[f]]
           serves == IF Appliance(s.kind) THEN disk ELSE s.serves
<1>1. disk \in [Files -> Contents] /\ serves \in [Files -> Contents]
  BY DEF Sources
<1>2. \A f \in Files \ fs : disk[f] = s.disk[f] /\ serves[f] \in {s.serves[f], s.disk[f]}
  OBVIOUS
<1>3. Written(s, gs, c) = [s EXCEPT !.disk = disk, !.serves = serves]
  BY DEF Written, Sources
<1> HIDE DEF disk, serves
<1> QED
  BY <1>1, <1>2, <1>3 DEF Within, Sources

LEMMA StartedWithin ==
  ASSUME NEW s \in Sources, NEW gs \in SUBSET Files, NEW us, Units(s.kind, gs) \subseteq us, NEW fs, NEW xs
  PROVE  Within(s, Started(s, gs), fs, us, xs)
<1> DEFINE read == Units(s.kind, gs)
           serves == [f \in Files |-> IF f \in read THEN s.disk[f] ELSE s.serves[f]]
<1>1. read \subseteq Files
  BY UnitsInFiles DEF Sources
<1>2. serves \in [Files -> Contents] /\ \A f \in Files : serves[f] \in {s.serves[f], s.disk[f]}
  BY DEF Sources
<1>3. Started(s, gs) = [s EXCEPT !.serves = serves, !.up = @ \cup read]
  BY DEF Started, Units, Sources
<1> HIDE DEF serves, read
<1> QED
  BY <1>1, <1>2, <1>3 DEF Within, Sources, read

LEMMA DownWithin ==
  ASSUME NEW s \in Sources, NEW gs, NEW us, gs \subseteq us, NEW fs, NEW xs
  PROVE  Within(s, Down(s, gs), fs, us, xs)
BY DEF Down, Within, Sources

LEMMA MovedWithin ==
  ASSUME NEW s \in Sources, NEW x, NEW xs, x \in xs, NEW fs, NEW us
  PROVE  Within(s, Moved(s, x), fs, us, xs)
<1>1. Moved(s, x) = [s EXCEPT !.addr = s.addr \cup ({x} \cap Moving)]
  BY DEF Moved
<1>2. s.addr \cup ({x} \cap Moving) \in SUBSET Moving
  BY DEF Sources
<1> QED
  BY <1>1, <1>2 DEF Within, Sources

LEMMA MovedBackWithin ==
  ASSUME NEW s \in Sources, NEW x, NEW was \in Captures, was.addr \subseteq {x}, NEW xs, x \in xs, NEW fs, NEW us
  PROVE  Within(s, MovedBack(s, x, was), fs, us, xs)
<1>1. MovedBack(s, x, was) = [s EXCEPT !.addr = (s.addr \ {x}) \cup was.addr]
  BY DEF MovedBack
<1>2. (s.addr \ {x}) \cup was.addr \in SUBSET Moving
  BY DEF Sources, Captures
<1> QED
  BY <1>1, <1>2 DEF Within, Sources

LEMMA RestartLostWithin ==
  ASSUME NEW s \in Sources, NEW gs \in SUBSET Files, NEW us, Units(s.kind, gs) \subseteq us, NEW fs, NEW xs,
         NEW r \in RestartLost(s, gs)
  PROVE  Within(s, r, fs, us, xs)
<1>1. r \in {s, Started(s, gs), Down(s, Units(s.kind, gs))}
  BY DEF RestartLost, Units
<1> QED
  BY <1>1, WithinSelf, StartedWithin, DownWithin

-----------------------------------------------------------------------------
(* What an edit of the files of one daemon touches.                        *)

LEMMA CapturedIs ==
  ASSUME NEW s \in Sources, NEW x \in Edits
  PROVE  Captured(s, x) \in Captures /\ Captured(s, x).addr \subseteq {x}
<1>1. \A f \in Files : Captured(s, x).conf[f] \in Contents
  BY DEF Captured, WindowsImports, Sources, Contents
<1> QED
  BY <1>1 DEF Captured, Captures, Sources

LEMMA FormerIs ==
  ASSUME NEW s \in Sources, NEW x \in Edits, NEW was \in Captures
  PROVE  Former(s, x, was) \in [Files -> Contents]
<1>1. was.conf \in [Files -> Contents] /\ s.disk \in [Files -> Contents]
  BY DEF Captures, Sources
<1>2. \A f \in Files : (s.disk[f] \ {x}) \cup (was.conf[f] \cap {x}) \in Contents
  BY <1>1 DEF Contents
<1> QED
  BY <1>1, <1>2 DEF Former

LEMMA AddedWithin ==
  ASSUME NEW s \in Sources, NEW x \in Edits \cup {Reservation}, NEW gs, NEW fs, gs \subseteq fs, NEW us, NEW xs
  PROVE  Within(s, Added(s, gs, x), fs, us, xs)
<1>1. With(s, x) \in [Files -> Contents]
  BY DEF With, Sources, Contents
<1> QED
  BY <1>1, WrittenWithin DEF Added

LEMMA SetInWithin ==
  ASSUME NEW s \in Sources, NEW x \in Edits, NEW gs \in SUBSET Files, NEW fs, gs \subseteq fs,
         NEW us, Units(s.kind, gs) \subseteq us, NEW xs
  PROVE  Within(s, SetIn(s, gs, x), fs, us, xs)
<1> DEFINE a == Added(s, gs, x)
<1>1. Within(s, a, fs, us, xs)
  BY AddedWithin
<1>2. a \in Sources /\ a.kind = s.kind
  BY <1>1 DEF Within
<1> HIDE DEF a
<1>3. Within(a, Started(a, gs), fs, us, xs)
  BY <1>2, StartedWithin
<1> QED
  BY <1>1, <1>3, WithinTwice DEF SetIn, a

LEMMA BackInWithin ==
  ASSUME NEW s \in Sources, NEW x \in Edits, NEW was \in Captures, NEW gs \in SUBSET Files, NEW fs, gs \subseteq fs,
         NEW us, Units(s.kind, gs) \subseteq us, NEW xs
  PROVE  Within(s, BackIn(s, gs, x, was), fs, us, xs)
<1> DEFINE w == Written(s, gs, Former(s, x, was))
<1>1. Within(s, w, fs, us, xs)
  BY FormerIs, WrittenWithin
<1>2. w \in Sources /\ w.kind = s.kind
  BY <1>1 DEF Within
<1> HIDE DEF w
<1>3. Within(w, Started(w, gs), fs, us, xs)
  BY <1>2, StartedWithin
<1> QED
  BY <1>1, <1>3, WithinTwice DEF BackIn, w

LEMMA CutInWithin ==
  ASSUME NEW s \in Sources, NEW x \in Edits, NEW gs \in SUBSET Files, NEW fs, gs \subseteq fs,
         NEW us, Units(s.kind, gs) \subseteq us, NEW xs, NEW r \in CutIn(s, gs, x)
  PROVE  Within(s, r, fs, us, xs)
<1>1. CASE \E g \in SUBSET gs : r = Added(s, g, x)
  BY <1>1, AddedWithin
<1>2. CASE r \in RestartLost(Added(s, gs, x), gs)
  <2> DEFINE a == Added(s, gs, x)
  <2>1. Within(s, a, fs, us, xs)
    BY AddedWithin
  <2>2. a \in Sources /\ a.kind = s.kind
    BY <2>1 DEF Within
  <2> HIDE DEF a
  <2>3. Within(a, r, fs, us, xs)
    BY <1>2, <2>2, RestartLostWithin DEF a
  <2> QED
    BY <2>1, <2>3, WithinTwice
<1> QED
  BY <1>1, <1>2 DEF CutIn

LEMMA LostInWithin ==
  ASSUME NEW s \in Sources, NEW x \in Edits, NEW was \in Captures, NEW gs \in SUBSET Files, NEW fs, gs \subseteq fs,
         NEW us, Units(s.kind, gs) \subseteq us, NEW xs, NEW r \in LostIn(s, gs, x, was)
  PROVE  Within(s, r, fs, us, xs)
<1> DEFINE w(g) == Written(s, g, Former(s, x, was))
<1>1. \A g \in SUBSET gs : Within(s, w(g), fs, us, xs)
  BY FormerIs, WrittenWithin
<1>2. \A g \in SUBSET gs : w(g) \in Sources /\ w(g).kind = s.kind
  BY <1>1 DEF Within
<1>3. r = s \/ r = w(gs) \/ \E g \in SUBSET gs : r \in RestartLost(w(g), gs)
  BY DEF LostIn
<1> HIDE DEF w
<1>4. CASE r = s \/ r = w(gs)
  BY <1>1, <1>4, WithinSelf
<1>5. CASE \E g \in SUBSET gs : r \in RestartLost(w(g), gs)
  <2>1. PICK g \in SUBSET gs : r \in RestartLost(w(g), gs)
    BY <1>5
  <2>2. Within(w(g), r, fs, us, xs)
    BY <1>2, <2>1, RestartLostWithin
  <2> QED
    BY <1>1, <2>2, WithinTwice
<1> QED
  BY <1>3, <1>4, <1>5

LEMMA FailedInWithin ==
  ASSUME NEW s \in Sources, NEW x \in Edits, NEW gs \in SUBSET Files, NEW fs, gs \subseteq fs,
         NEW us, Units(s.kind, gs) \subseteq us, NEW xs
  PROVE  /\ \A r \in FailedIn(s, gs, x) : Within(s, r, fs, us, xs)
         /\ \A r \in FailedTwiceIn(s, gs, x) : Within(s, r, fs, us, xs)
<1>1. \A c \in CutIn(s, gs, x) : Within(s, c, fs, us, xs)
  BY CutInWithin
<1>2. \A c \in CutIn(s, gs, x) : c \in Sources /\ c.kind = s.kind
  BY <1>1 DEF Within
<1>3. Captured(s, x) \in Captures
  BY CapturedIs
<1>4. ASSUME NEW r \in FailedIn(s, gs, x) PROVE Within(s, r, fs, us, xs)
  <2>1. r = s \/ r \in CutIn(s, gs, x) \/ \E c \in CutIn(s, gs, x) : r = BackIn(c, gs, x, Captured(s, x))
    BY DEF FailedIn
  <2>2. ASSUME NEW c \in CutIn(s, gs, x), r = BackIn(c, gs, x, Captured(s, x)) PROVE Within(s, r, fs, us, xs)
    <3>1. Within(c, r, fs, us, xs)
      BY <1>2, <1>3, <2>2, BackInWithin
    <3> QED
      BY <1>1, <3>1, WithinTwice
  <2> QED
    BY <1>1, <2>1, <2>2, WithinSelf
<1>5. ASSUME NEW r \in FailedTwiceIn(s, gs, x) PROVE Within(s, r, fs, us, xs)
  <2>1. PICK c \in CutIn(s, gs, x) : r \in LostIn(c, gs, x, Captured(s, x))
    BY DEF FailedTwiceIn
  <2>2. Within(c, r, fs, us, xs)
    BY <1>2, <1>3, <2>1, LostInWithin
  <2> QED
    BY <1>1, <2>2, WithinTwice
<1> QED
  BY <1>4, <1>5

-----------------------------------------------------------------------------
(* What a change of the source and its restore touch.                      *)

Ran(k, x) == Units(k, HomeFiles(k, x))

LEMMA EditBackWithin ==
  ASSUME NEW s \in Sources, NEW x \in Edits, NEW was \in Captures, was.addr \subseteq {x}
  PROVE  /\ Within(s, SetEdit(s, x), HomeFiles(s.kind, x), Ran(s.kind, x), {x})
         /\ Within(s, EditBack(s, x, was), HomeFiles(s.kind, x), Ran(s.kind, x), {x})
<1> DEFINE fs == HomeFiles(s.kind, x)
           us == Ran(s.kind, x)
<1>1. fs \in SUBSET Files /\ Units(s.kind, fs) \subseteq us
  BY HomesAre DEF Sources, Ran
<1>2. Within(s, SetEdit(s, x), fs, us, {x})
  <2> DEFINE m == Moved(s, x)
  <2>1. Within(s, m, fs, us, {x})
    BY MovedWithin
  <2>2. m \in Sources /\ m.kind = s.kind
    BY <2>1 DEF Within
  <2>3. SetEdit(s, x) = SetIn(m, fs, x)
    BY DEF SetEdit
  <2> HIDE DEF m, fs, us
  <2>4. Within(m, SetIn(m, fs, x), fs, us, {x})
    BY <1>1, <2>2, SetInWithin
  <2> QED
    BY <2>1, <2>3, <2>4, WithinTwice
<1>3. Within(s, EditBack(s, x, was), fs, us, {x})
  <2> DEFINE m == MovedBack(s, x, was)
  <2>1. Within(s, m, fs, us, {x})
    BY MovedBackWithin
  <2>2. m \in Sources /\ m.kind = s.kind
    BY <2>1 DEF Within
  <2>3. EditBack(s, x, was) = BackIn(m, fs, x, was)
    BY DEF EditBack
  <2> HIDE DEF m, fs, us
  <2>4. Within(m, BackIn(m, fs, x, was), fs, us, {x})
    BY <1>1, <2>2, BackInWithin
  <2> QED
    BY <2>1, <2>3, <2>4, WithinTwice
<1> QED
  BY <1>2, <1>3

(* The homes of an edit, and what lies before or beside one of them.       *)
LEMMA HomeBounds ==
  ASSUME NEW k \in Kinds, NEW x \in Edits, NEW i \in DOMAIN Homes(k, x), NEW gs,
         gs \in {Homes(k, x)[i], HomeFiles(k, x) \ Homes(k, x)[i], Earlier(k, x, i)}
  PROVE  gs \in SUBSET Files /\ gs \subseteq HomeFiles(k, x) /\ Units(k, gs) \subseteq Ran(k, x)
<1>1. gs \subseteq HomeFiles(k, x) /\ HomeFiles(k, x) \subseteq Files
  BY HomesAre
<1> QED
  BY <1>1 DEF Ran, Units

LEMMA EditLostWithin ==
  ASSUME NEW s \in Sources, NEW x \in Edits, NEW was \in Captures, was.addr \subseteq {x},
         NEW r \in EditLost(s, x, was)
  PROVE  Within(s, r, HomeFiles(s.kind, x), Ran(s.kind, x), {x})
<1> DEFINE fs == HomeFiles(s.kind, x)
           us == Ran(s.kind, x)
           h == Homes(s.kind, x)
           rest(i) == fs \ h[i]
<1>1. CASE r = EditBack(s, x, was)
  BY <1>1, EditBackWithin
<1>2. CASE \E i \in DOMAIN h, b \in {s, MovedBack(s, x, was)} :
             r \in LostIn(BackIn(b, rest(i), x, was), h[i], x, was)
  <2>1. PICK i \in DOMAIN h, b \in {s, MovedBack(s, x, was)} :
               r \in LostIn(BackIn(b, rest(i), x, was), h[i], x, was)
    BY <1>2
  <2>2. s.kind \in Kinds
    BY DEF Sources
  <2>3. /\ h[i] \in SUBSET Files /\ h[i] \subseteq fs /\ Units(s.kind, h[i]) \subseteq us
        /\ rest(i) \in SUBSET Files /\ rest(i) \subseteq fs /\ Units(s.kind, rest(i)) \subseteq us
    BY <2>2, HomeBounds
  <2> DEFINE q == rest(i)
             c == BackIn(b, q, x, was)
  <2>4. Within(s, b, fs, us, {x})
    BY WithinSelf, MovedBackWithin
  <2>5. b \in Sources /\ b.kind = s.kind
    BY <2>4 DEF Within
  <2> HIDE DEF fs, us, h, rest, q
  <2>6. Within(b, c, fs, us, {x})
    BY <2>3, <2>5, BackInWithin DEF q
  <2>7. c \in Sources /\ c.kind = s.kind
    BY <2>5, <2>6 DEF Within
  <2>8. r \in LostIn(c, h[i], x, was)
    BY <2>1 DEF q
  <2> HIDE DEF c
  <2>9. Within(c, r, fs, us, {x})
    BY <2>3, <2>7, <2>8, LostInWithin
  <2> QED
    BY <2>4, <2>6, <2>9, WithinTwice DEF fs, us
<1> QED
  BY <1>1, <1>2 DEF EditLost

LEMMA EditFailedWithin ==
  ASSUME NEW s \in Sources, NEW x \in Edits, NEW r \in EditFailed(s, x) \cup EditFailedTwice(s, x)
  PROVE  Within(s, r, HomeFiles(s.kind, x), Ran(s.kind, x), {x})
<1> DEFINE fs == HomeFiles(s.kind, x)
           us == Ran(s.kind, x)
           h == Homes(s.kind, x)
           was == Captured(s, x)
           e(i) == Earlier(s.kind, x, i)
<1>1. was \in Captures /\ was.addr \subseteq {x}
  BY CapturedIs
<1>2. Within(s, SetEdit(s, x), fs, us, {x})
  BY <1>1, EditBackWithin
<1>3. SetEdit(s, x) \in Sources /\ SetEdit(s, x).kind = s.kind
  BY <1>2 DEF Within
<1>4. \A i \in DOMAIN h : /\ h[i] \in SUBSET Files /\ h[i] \subseteq fs /\ Units(s.kind, h[i]) \subseteq us
                          /\ e(i) \in SUBSET Files /\ e(i) \subseteq fs /\ Units(s.kind, e(i)) \subseteq us
  BY HomeBounds DEF Sources
<1>5. Within(s, Moved(s, x), fs, us, {x})
  BY MovedWithin
<1>6. Moved(s, x) \in Sources /\ Moved(s, x).kind = s.kind
  BY <1>5 DEF Within
<1>7. \/ r \in {s, Moved(s, x), EditBack(SetEdit(s, x), x, was)}
      \/ r \in EditLost(SetEdit(s, x), x, was)
      \/ \E i \in DOMAIN h : \E q \in FailedIn(s, h[i], x) : r = BackIn(q, e(i), x, was)
      \/ \E i \in DOMAIN h : \E m \in {s, Moved(s, x)} : r \in FailedTwiceIn(m, h[i], x)
      \/ \E i \in DOMAIN h : \E q \in FailedIn(SetIn(s, e(i), x), h[i], x) : r \in LostIn(q, e(i), x, was)
  <2>1. r \in EditFailed(s, x) =>
          \/ r \in {s, Moved(s, x), EditBack(SetEdit(s, x), x, was)}
          \/ \E i \in DOMAIN h : \E q \in FailedIn(s, h[i], x) : r = BackIn(q, e(i), x, was)
    BY DEF EditFailed
  <2>2. r \in EditFailedTwice(s, x) =>
          \/ r \in EditLost(SetEdit(s, x), x, was)
          \/ \E i \in DOMAIN h : \E m \in {s, Moved(s, x)} : r \in FailedTwiceIn(m, h[i], x)
          \/ \E i \in DOMAIN h : \E q \in FailedIn(SetIn(s, e(i), x), h[i], x) : r \in LostIn(q, e(i), x, was)
    BY DEF EditFailedTwice
  <2> QED
    BY <2>1, <2>2
<1>8. CASE r \in {s, Moved(s, x), EditBack(SetEdit(s, x), x, was)}
  <2>1. Within(SetEdit(s, x), EditBack(SetEdit(s, x), x, was), fs, us, {x})
    BY <1>1, <1>3, EditBackWithin
  <2> QED
    BY <1>2, <1>5, <1>8, <2>1, WithinSelf, WithinTwice
<1>9. CASE r \in EditLost(SetEdit(s, x), x, was)
  <2>1. Within(SetEdit(s, x), r, fs, us, {x})
    BY <1>1, <1>3, <1>9, EditLostWithin
  <2> QED
    BY <1>2, <2>1, WithinTwice
<1> HIDE DEF fs, us, h, was, e
<1>10. ASSUME NEW i \in DOMAIN h, NEW q \in FailedIn(s, h[i], x), r = BackIn(q, e(i), x, was)
       PROVE  Within(s, r, fs, us, {x})
  <2>1. Within(s, q, fs, us, {x})
    BY <1>4, FailedInWithin
  <2>2. q \in Sources /\ q.kind = s.kind
    BY <2>1 DEF Within
  <2>3. Within(q, r, fs, us, {x})
    BY <1>1, <1>4, <1>10, <2>2, BackInWithin
  <2> QED
    BY <2>1, <2>3, WithinTwice
<1>11. ASSUME NEW i \in DOMAIN h, NEW m \in {s, Moved(s, x)}, r \in FailedTwiceIn(m, h[i], x)
       PROVE  Within(s, r, fs, us, {x})
  <2>1. Within(s, m, fs, us, {x}) /\ m \in Sources /\ m.kind = s.kind
    BY <1>5, <1>6, WithinSelf
  <2>2. Within(m, r, fs, us, {x})
    BY <1>4, <1>11, <2>1, FailedInWithin
  <2> QED
    BY <2>1, <2>2, WithinTwice
<1>12. ASSUME NEW i \in DOMAIN h, NEW q \in FailedIn(SetIn(s, e(i), x), h[i], x), r \in LostIn(q, e(i), x, was)
       PROVE  Within(s, r, fs, us, {x})
  <2> DEFINE m == SetIn(s, e(i), x)
  <2>1. Within(s, m, fs, us, {x})
    BY <1>4, SetInWithin
  <2>2. m \in Sources /\ m.kind = s.kind
    BY <2>1 DEF Within
  <2>3. q \in FailedIn(m, h[i], x)
    OBVIOUS
  <2> HIDE DEF m
  <2>4. Within(m, q, fs, us, {x})
    BY <1>4, <2>2, <2>3, FailedInWithin
  <2>5. q \in Sources /\ q.kind = s.kind
    BY <2>2, <2>4 DEF Within
  <2>6. Within(q, r, fs, us, {x})
    BY <1>1, <1>4, <1>12, <2>5, LostInWithin
  <2> QED
    BY <2>1, <2>4, <2>6, WithinTwice
<1> QED
  BY <1>7, <1>8, <1>9, <1>10, <1>11, <1>12 DEF fs, us

(* A stop, its start and the reset of the leases touch no file.            *)
Halted(k, x) == Stopped(k, x) \cup Units(k, Stopped(k, x))

LEMMA StopWithin ==
  ASSUME NEW s \in Sources, NEW x \in Changes,
         NEW r \in {StopOver(s, x), SetStop(s, x)} \cup StopLost(s, x) \cup StopFailed(s, x) \cup StopFailedTwice(s, x)
  PROVE  Within(s, r, {}, Halted(s.kind, x), {})
<1> DEFINE us == Halted(s.kind, x)
           fs == Stopped(s.kind, x)
<1>1. s.kind \in Kinds /\ fs \in SUBSET Files /\ fs \subseteq us /\ Units(s.kind, fs) \subseteq us
  BY StoppedAre DEF Halted, Sources
<1>2. \A g \in SUBSET fs : g \in SUBSET Files /\ Units(s.kind, g) \subseteq us
  BY <1>1 DEF Units
<1>3. \A g \in SUBSET fs : Within(s, Started(s, g), {}, us, {}) /\ Within(s, Down(s, g), {}, us, {})
  BY <1>1, <1>2, StartedWithin, DownWithin
<1>4. Within(s, StopOver(s, x), {}, us, {}) /\ Within(s, SetStop(s, x), {}, us, {})
  BY <1>3 DEF StopOver, SetStop
<1>5. ASSUME r \in StopLost(s, x) PROVE Within(s, r, {}, us, {})
  BY <1>1, <1>3, <1>5, RestartLostWithin DEF StopLost
<1>6. ASSUME r \in StopFailed(s, x) PROVE Within(s, r, {}, us, {})
  <2>1. CASE s.kind = "pair" /\ x = "service"
    <3>1. fs = {"conf", "partner"}
      BY <2>1 DEF Stopped, Unit
    <3> QED
      BY <1>3, <1>4, <1>6, <2>1, <3>1, WithinSelf DEF StopFailed, PairStopFailed
  <2>2. CASE ~(s.kind = "pair" /\ x = "service")
    <3>1. r \in {s, StopOver(s, x), SetStop(s, x)}
      BY <1>6, <2>2 DEF StopFailed
    <3> QED
      BY <1>4, <3>1, WithinSelf
  <2> QED
    BY <2>1, <2>2
<1>7. ASSUME r \in StopFailedTwice(s, x) PROVE Within(s, r, {}, us, {})
  <2>1. CASE s.kind = "pair" /\ x = "service"
    <3>1. fs = {"conf", "partner"}
      BY <2>1 DEF Stopped, Unit
    <3>2. r \in {Down(s, {"conf"}), SetStop(s, x)}
      BY <1>7, <2>1 DEF StopFailedTwice
    <3> QED
      BY <1>3, <1>4, <3>1, <3>2
  <2>2. CASE s.kind = "isc" /\ x = "dhcp6"
    <3> DEFINE t == SetStop(s, x)
    <3>1. fs = {"conf6"}
      BY <2>2 DEF Stopped
    <3>2. r \in RestartLost(t, {"conf6"})
      BY <1>7, <2>2 DEF StopFailedTwice
    <3>3. t \in Sources /\ t.kind = s.kind
      BY <1>4 DEF Within
    <3> HIDE DEF t
    <3>4. Within(t, r, {}, us, {})
      BY <1>1, <3>1, <3>2, <3>3, RestartLostWithin
    <3> QED
      BY <1>4, <3>4, WithinTwice DEF t
  <2>3. CASE ~(s.kind = "pair" /\ x = "service") /\ ~(s.kind = "isc" /\ x = "dhcp6")
    BY <1>7, <2>3 DEF StopFailedTwice
  <2> QED
    BY <2>1, <2>2, <2>3
<1> QED
  BY <1>4, <1>5, <1>6, <1>7

LEMMA ResetWithin ==
  ASSUME NEW s \in Sources, NEW r \in {LeasesReset(s)} \cup ResetFailed(s)
  PROVE  Within(s, r, {}, Halted(s.kind, "service"), {})
<1> DEFINE us == Halted(s.kind, "service")
           fs == Stopped(s.kind, "service")
           d == Down(s, fs)
<1>1. "service" \in Changes /\ s.kind \in Kinds
  BY DEF Changes, Stops, Sources
<1>2. fs \in SUBSET Files /\ fs \subseteq us /\ Units(s.kind, fs) \subseteq us
  BY <1>1, StoppedAre DEF Halted
<1>3. Within(s, d, {}, us, {})
  BY <1>2, DownWithin
<1>4. d \in Sources /\ d.kind = s.kind
  BY <1>3 DEF Within
<1>5. r = s \/ r = Started(s, fs) \/ r \in RestartLost(s, fs) \/ \E g \in SUBSET fs : r = Started(d, g)
  BY DEF LeasesReset, ResetFailed
<1> HIDE DEF d, fs, us
<1>6. ASSUME NEW g \in SUBSET fs, r = Started(d, g) PROVE Within(s, r, {}, us, {})
  <2>1. g \in SUBSET Files /\ Units(s.kind, g) \subseteq us
    BY <1>2 DEF Units
  <2>2. Within(d, r, {}, us, {})
    BY <1>4, <1>6, <2>1, StartedWithin
  <2> QED
    BY <1>3, <2>2, WithinTwice
<1>7. Within(s, Started(s, fs), {}, us, {}) /\ Within(s, s, {}, us, {})
  BY <1>2, StartedWithin, WithinSelf
<1>8. \A q \in RestartLost(s, fs) : Within(s, q, {}, us, {})
  BY <1>2, RestartLostWithin
<1>9. Within(s, r, {}, us, {})
  BY <1>5, <1>6, <1>7, <1>8
<1> QED
  BY <1>9 DEF us

(* What one change of the catalog, its restore and their failures touch.   *)
Wrote(k, x) == IF IsEdit(k, x) THEN HomeFiles(k, x) ELSE {}
Cycled(k, x) == IF IsEdit(k, x) THEN Ran(k, x) ELSE IF x \in Actors THEN {} ELSE Halted(k, x)

Touches(s, r, x) ==
  IF x \in Actors THEN \E as \in SUBSET Actors : r = [s EXCEPT !.actors = as] /\ as \ {x} = s.actors \ {x}
  ELSE Within(s, r, Wrote(s.kind, x), Cycled(s.kind, x), {x})

LEMMA ChangeTouches ==
  ASSUME NEW s \in Sources, NEW x \in Changes, NEW was \in Captures, was.addr \subseteq {x},
         NEW r \in {Set(s, x), Restored(s, x, was)} \cup SetFailed(s, x) \cup SetFailedTwice(s, x)
                     \cup RestoreLost(s, x, was)
  PROVE  Touches(s, r, x)
<1>1. CASE IsEdit(s.kind, x)
  <2>1. x \in Edits /\ x \notin Actors
    BY <1>1 DEF IsEdit, Edits, Actors, Features, Features4, Features6, Adverts
  <2>2. r \in {SetEdit(s, x), EditBack(s, x, was)} \cup EditFailed(s, x) \cup EditFailedTwice(s, x) \cup EditLost(s, x, was)
    <3>1. Set(s, x) = SetEdit(s, x)
      BY <1>1, <2>1 DEF Set
    <3>2. Restored(s, x, was) = EditBack(s, x, was)
      BY <1>1, <2>1 DEF Restored
    <3>3. SetFailed(s, x) = EditFailed(s, x)
      BY <1>1, <2>1 DEF SetFailed
    <3>4. SetFailedTwice(s, x) = EditFailedTwice(s, x)
      BY <1>1, <2>1 DEF SetFailedTwice
    <3>5. RestoreLost(s, x, was) = EditLost(s, x, was)
      BY <1>1, <2>1 DEF RestoreLost
    <3> QED
      BY <3>1, <3>2, <3>3, <3>4, <3>5
  <2>3. Within(s, r, HomeFiles(s.kind, x), Ran(s.kind, x), {x})
    BY <2>1, <2>2, EditBackWithin, EditFailedWithin, EditLostWithin
  <2> QED
    BY <1>1, <2>1, <2>3 DEF Touches, Wrote, Cycled
<1>2. CASE ~IsEdit(s.kind, x) /\ x \in Actors
  <2>1. r \in {s, SetActor(s, x), ActorGone(s, x)}
    BY <1>2 DEF Set, Restored, SetFailed, SetFailedTwice, RestoreLost
  <2>2. s = [s EXCEPT !.actors = s.actors] /\ s.actors \in SUBSET Actors
    BY DEF Sources
  <2>3. SetActor(s, x) = [s EXCEPT !.actors = s.actors \cup {x}] /\ ActorGone(s, x) = [s EXCEPT !.actors = s.actors \ {x}]
    BY DEF SetActor, ActorGone
  <2>4. PICK as \in {s.actors, s.actors \cup {x}, s.actors \ {x}} : r = [s EXCEPT !.actors = as]
    BY <2>1, <2>2, <2>3
  <2>5. as \in SUBSET Actors /\ as \ {x} = s.actors \ {x}
    BY <1>2, <2>2
  <2> QED
    BY <1>2, <2>4, <2>5 DEF Touches
<1>3. CASE ~IsEdit(s.kind, x) /\ x \notin Actors
  <2>0. /\ Set(s, x) = SetStop(s, x) /\ Restored(s, x, was) = StopOver(s, x)
        /\ SetFailed(s, x) = StopFailed(s, x)
        /\ SetFailedTwice(s, x) = StopFailedTwice(s, x)
        /\ RestoreLost(s, x, was) = StopLost(s, x)
    <3>1. Set(s, x) = SetStop(s, x)
      BY <1>3 DEF Set
    <3>2. Restored(s, x, was) = StopOver(s, x)
      BY <1>3 DEF Restored
    <3>3. SetFailed(s, x) = StopFailed(s, x)
      BY <1>3 DEF SetFailed
    <3>4. SetFailedTwice(s, x) = StopFailedTwice(s, x)
      BY <1>3 DEF SetFailedTwice
    <3>5. RestoreLost(s, x, was) = StopLost(s, x)
      BY <1>3 DEF RestoreLost
    <3> QED
      BY <3>1, <3>2, <3>3, <3>4, <3>5
  <2>1. r \in {SetStop(s, x), StopOver(s, x)} \cup StopFailed(s, x) \cup StopFailedTwice(s, x) \cup StopLost(s, x)
    BY <2>0
  <2>2. Within(s, r, {}, Halted(s.kind, x), {})
    BY <2>1, StopWithin
  <2>3. Within(s, r, {}, Halted(s.kind, x), {x})
    BY <2>2 DEF Within
  <2> QED
    BY <1>3, <2>3 DEF Touches, Wrote, Cycled
<1> QED
  BY <1>1, <1>2, <1>3

LEMMA TouchedIs ==
  ASSUME NEW s \in Sources, NEW r, NEW x, Touches(s, r, x)
  PROVE  r \in Sources /\ r.kind = s.kind
BY DEF Touches, Within, Sources

LEMMA ReserveWithin ==
  ASSUME NEW s \in Sources, NEW by \in {"mac", "id"}, NEW r \in {Reserved(s, by)} \cup ReserveFailed(s, by)
  PROVE  Within(s, r, ReservedIn(s.kind, by), Units(s.kind, {"conf"}), {})
<1> DEFINE fs == ReservedIn(s.kind, by)
           us == Units(s.kind, {"conf"})
           w == Added(s, fs, Reservation)
<1>1. Within(s, w, fs, us, {})
  BY AddedWithin
<1>2. w \in Sources /\ w.kind = s.kind
  BY <1>1 DEF Within
<1>3. {"conf"} \in SUBSET Files
  BY FilesAre
<1>4. r \in {s, w, Started(w, {"conf"})} \cup RestartLost(w, {"conf"})
  BY DEF Reserved, ReserveFailed
<1> HIDE DEF w, fs, us
<1>5. Within(w, Started(w, {"conf"}), fs, us, {}) /\ \A q \in RestartLost(w, {"conf"}) : Within(w, q, fs, us, {})
  BY <1>2, <1>3, StartedWithin, RestartLostWithin DEF us
<1>6. Within(s, r, fs, us, {})
  BY <1>1, <1>4, <1>5, WithinSelf, WithinTwice
<1> QED
  BY <1>6 DEF fs, us

-----------------------------------------------------------------------------
(* The copy and the recovery keep their shape.                             *)
Copies == [taken : BOOLEAN, disk : [Files -> Contents], addr : SUBSET Moving]

LEMMA CopyIs ==
  ASSUME NEW s \in Sources, NEW copy \in Copies
  PROVE  /\ NoBaseline \in Copies /\ Baseline(s, copy) \in Copies
         /\ \A by \in {"mac", "id"} : Reread(s, copy, by) \in Copies
<1>1. NoBaseline \in Copies
  BY DEF NoBaseline, Copies, Contents
<1>2. Baseline(s, copy) \in Copies
  BY DEF Baseline, Copies, Sources
<1>3. ASSUME NEW by \in {"mac", "id"} PROVE Reread(s, copy, by) \in Copies
  <2>1. Reserved(s, by).disk \in [Files -> Contents]
    BY ReserveWithin DEF Within, Sources
  <2> QED
    BY <2>1 DEF Reread, Copies
<1> QED
  BY <1>1, <1>2, <1>3

(* Recover may write and restart all there is.                             *)
Like(s) == {r \in Sources : r.kind = s.kind}

LEMMA WithinLike ==
  ASSUME NEW s, NEW r, NEW fs, NEW us, NEW xs, Within(s, r, fs, us, xs)
  PROVE  r \in Like(s)
BY DEF Within, Like

LEMMA BackOnIs ==
  ASSUME NEW s \in Sources, NEW copy \in Copies, NEW fs
  PROVE  Swept(s) \in Like(s) /\ BackOn(s, fs, copy) \in Like(s)
<1>1. Swept(s) \in Like(s)
  BY DEF Swept, Sources, Like
<1>2. Goal(s, copy).disk \in [Files -> Contents] /\ Goal(s, copy).addr \in SUBSET Moving
  BY CopyIs DEF Goal, Stock, Copies, Sources, Contents
<1> DEFINE r == [Swept(s) EXCEPT !.addr = Goal(s, copy).addr]
<1>3. r \in Sources /\ r.kind = s.kind
  BY <1>1, <1>2 DEF Sources, Like
<1>4. BackOn(s, fs, copy) = Written(r, fs, Goal(s, copy).disk)
  BY DEF BackOn
<1> HIDE DEF r
<1>5. Within(r, Written(r, fs, Goal(s, copy).disk), fs, {}, {})
  BY <1>2, <1>3, WrittenWithin
<1> QED
  BY <1>1, <1>3, <1>4, <1>5 DEF Within, Like

LEMMA RecoveredOnIs ==
  ASSUME NEW s \in Sources, NEW copy \in Copies, NEW fs \in SUBSET Files
  PROVE  RecoveredOn(s, fs, copy) \in Like(s)
<1> DEFINE r == BackOn(s, fs, copy)
<1>1. r \in Sources /\ r.kind = s.kind
  BY BackOnIs DEF Like
<1> HIDE DEF r
<1>2. Within(r, Started(r, fs), {}, Files, {})
  BY <1>1, StartedWithin, UnitsInFiles DEF Sources
<1> QED
  BY <1>1, <1>2 DEF RecoveredOn, r, Within, Like

LEMMA RecoverCutIs ==
  ASSUME NEW s \in Sources, NEW copy \in Copies, NEW fs \in SUBSET Files, NEW r \in RecoverCut(s, fs, copy)
  PROVE  r \in Like(s)
<1>1. \/ r \in {s, Swept(s)}
      \/ \E g : r = BackOn(s, g, copy)
      \/ \E i \in DOMAIN FileSeq : r \in RestartLost(Started(BackOn(s, fs, copy), UpTo(i - 1, fs)), {FileSeq[i]} \cap fs)
  BY DEF RecoverCut
<1>2. CASE r \in {s, Swept(s)} \/ \E g : r = BackOn(s, g, copy)
  BY <1>2, BackOnIs DEF Like
<1>3. CASE \E i \in DOMAIN FileSeq : r \in RestartLost(Started(BackOn(s, fs, copy), UpTo(i - 1, fs)), {FileSeq[i]} \cap fs)
  <2>1. PICK i \in DOMAIN FileSeq : r \in RestartLost(Started(BackOn(s, fs, copy), UpTo(i - 1, fs)), {FileSeq[i]} \cap fs)
    BY <1>3
  <2> DEFINE all == BackOn(s, fs, copy)
             first == UpTo(i - 1, fs)
             next == {FileSeq[i]} \cap fs
             m == Started(all, first)
  <2>2. first \in SUBSET Files /\ next \in SUBSET Files
    BY DEF UpTo
  <2>3. all \in Sources /\ all.kind = s.kind
    BY BackOnIs DEF Like
  <2> HIDE DEF all, first, next
  <2>4. Within(all, m, {}, Files, {})
    BY <2>2, <2>3, StartedWithin, UnitsInFiles DEF Sources
  <2>5. m \in Sources /\ m.kind = s.kind
    BY <2>3, <2>4 DEF Within
  <2>6. r \in RestartLost(m, next)
    BY <2>1 DEF all, first, next
  <2> HIDE DEF m
  <2>7. Within(m, r, {}, Files, {})
    BY <2>2, <2>5, <2>6, RestartLostWithin, UnitsInFiles DEF Sources
  <2> QED
    BY <2>5, <2>7 DEF Within, Like
<1> QED
  BY <1>1, <1>2, <1>3

LEMMA RecoverIs ==
  ASSUME NEW s \in Sources, NEW copy \in Copies, NEW r \in {Recovered(s, copy)} \cup RecoverFailed(s, copy)
  PROVE  r \in Like(s)
<1>1. s.kind \in Kinds /\ FilesOf(s.kind) \in SUBSET Files
  BY UnitsAre DEF Sources
<1>2. Recovered(s, copy) \in Like(s)
  BY <1>1, RecoveredOnIs DEF Recovered
<1>3. CASE s.kind = "pair" /\ r \in RecoverFailed(s, copy)
  <2> DEFINE partner == FilesOf(s.kind) \cap {"partner"}
             first == FilesOf(s.kind) \ partner
  <2>1. partner \in SUBSET Files /\ first \in SUBSET Files
    BY <1>1
  <2>2. \/ \E q \in RecoverCut(s, first, copy) : r = RecoveredOn(q, partner, copy)
        \/ r \in RecoverCut(RecoveredOn(s, first, copy), partner, copy)
    <3>1. RecoverFailed(s, copy) = PairRecoverFailed(s, copy)
      BY <1>3 DEF RecoverFailed, Appliance
    <3> QED
      BY <1>3, <3>1 DEF PairRecoverFailed
  <2> HIDE DEF partner, first
  <2>3. CASE \E q \in RecoverCut(s, first, copy) : r = RecoveredOn(q, partner, copy)
    <3>1. PICK q \in RecoverCut(s, first, copy) : r = RecoveredOn(q, partner, copy)
      BY <2>3
    <3>2. q \in Sources /\ q.kind = s.kind
      BY <2>1, RecoverCutIs DEF Like
    <3> QED
      BY <2>1, <3>1, <3>2, RecoveredOnIs DEF Like
  <2>4. CASE r \in RecoverCut(RecoveredOn(s, first, copy), partner, copy)
    <3> DEFINE q == RecoveredOn(s, first, copy)
    <3>1. q \in Sources /\ q.kind = s.kind
      BY <2>1, RecoveredOnIs DEF Like
    <3> HIDE DEF q
    <3>2. r \in Like(q)
      BY <2>1, <2>4, <3>1, RecoverCutIs DEF q
    <3> QED
      BY <3>1, <3>2 DEF Like
  <2> QED
    BY <2>2, <2>3, <2>4
<1>4. CASE s.kind # "pair" /\ Appliance(s.kind) /\ r \in RecoverFailed(s, copy)
  <2> DEFINE q == Recovered(s, copy)
  <2>1. q \in Sources /\ q.kind = s.kind
    BY <1>2 DEF Like
  <2>2. r \in {s, q, Down(q, {"conf"})}
    BY <1>4 DEF RecoverFailed, ImportFailed
  <2> HIDE DEF q
  <2>3. Down(q, {"conf"}) \in Like(q)
    BY <2>1, DownWithin, WithinLike
  <2> QED
    BY <2>1, <2>2, <2>3 DEF Like
<1>5. CASE s.kind # "pair" /\ ~Appliance(s.kind) /\ r \in RecoverFailed(s, copy)
  BY <1>1, <1>5, RecoverCutIs DEF RecoverFailed
<1> QED
  BY <1>2, <1>3, <1>4, <1>5

-----------------------------------------------------------------------------
(* A restore is exact, a recovery is enough.                               *)

(* What a config rewritten and written back holds.                         *)
LEMMA BackDisk ==
  ASSUME NEW s \in Sources, NEW r \in Sources, ~Appliance(s.kind), r.kind = s.kind,
         NEW fs \in SUBSET Files, NEW x \in Edits,
         \A f \in Files \ fs : r.disk[f] = s.disk[f]
  PROVE  /\ BackIn(r, fs, x, Captured(s, x)).disk = s.disk
         /\ BackIn(r, fs, x, Captured(s, x)).addr = r.addr
<1> DEFINE w == Written(r, fs, Former(r, x, Captured(s, x)))
<1>1. Former(r, x, Captured(s, x)) = [f \in Files |-> s.disk[f]]
  BY DEF Former, Captured, Appliance
<1>2. w.disk = s.disk /\ w.addr = r.addr
  <2>1. s.disk \in [Files -> Contents] /\ r.disk \in [Files -> Contents]
    BY DEF Sources
  <2>2. w.disk = [f \in Files |-> IF f \in fs THEN s.disk[f] ELSE r.disk[f]]
    BY <1>1 DEF Written, Sources
  <2>3. w.addr = r.addr
    BY DEF Written, Sources
  <2> QED
    BY <2>1, <2>2, <2>3
<1>3. Started(w, fs).disk = w.disk /\ Started(w, fs).addr = w.addr
  BY DEF Started, Written, Sources
<1> QED
  BY <1>2, <1>3 DEF BackIn

(* A start changes what is served and what is up.                          *)
LEMMA StartedIs ==
  ASSUME NEW r \in Sources, NEW fs, \A f \in fs : Unit(r.kind, f) \subseteq Files
  PROVE  /\ Started(r, fs) \in Sources
         /\ Started(r, fs).kind = r.kind /\ Started(r, fs).disk = r.disk /\ Started(r, fs).addr = r.addr
         /\ \A f \in Files : f \in UNION {Unit(r.kind, g) : g \in fs} => Started(r, fs).serves[f] = r.disk[f]
<1> DEFINE read == UNION {Unit(r.kind, f) : f \in fs}
           now == [f \in Files |-> IF f \in read THEN r.disk[f] ELSE r.serves[f]]
<1>1. read \subseteq Files
  OBVIOUS
<1>2. now \in [Files -> Contents]
  BY DEF Sources
<1>3. Started(r, fs) = [r EXCEPT !.serves = now, !.up = @ \cup read]
  BY DEF Started, Sources
<1> HIDE DEF read
<1>4. r.up \cup read \in SUBSET Files
  BY <1>1 DEF Sources
<1>5. Started(r, fs).serves = now
  BY <1>3 DEF Sources
<1>6. \A f \in Files : f \in read => now[f] = r.disk[f]
  OBVIOUS
<1> HIDE DEF now
<1>7. Started(r, fs) \in Sources
  BY <1>2, <1>3, <1>4 DEF Sources
<1>8. Started(r, fs).kind = r.kind /\ Started(r, fs).disk = r.disk /\ Started(r, fs).addr = r.addr
  BY <1>3 DEF Sources
<1> QED
  BY <1>5, <1>6, <1>7, <1>8 DEF read

(* A setter followed by its restore leaves every file and every address of *)
(* a file-based source as they were, and the daemons of the edit's files   *)
(* serve those files again: no edit of another scenario is lost or kept.   *)
THEOREM RestoreIsExact ==
  ASSUME NEW s \in Sources, ~Appliance(s.kind), NEW x \in Edits
  PROVE  LET r == EditBack(SetEdit(s, x), x, Captured(s, x))
         IN  /\ r.disk = s.disk /\ r.addr = s.addr
             /\ \A f \in HomeFiles(s.kind, x) : r.serves[f] = s.disk[f]
<1> DEFINE fs == HomeFiles(s.kind, x)
           m == MovedBack(SetEdit(s, x), x, Captured(s, x))
<1>0. s.kind \in Kinds /\ fs \subseteq Files /\ \A f \in fs : f \in Unit(s.kind, f)
  BY HomesAre, HomesAreServed DEF Sources
<1> DEFINE v == Moved(s, x)
           a == Added(v, fs, x)
<1>1. m \in Sources /\ m.kind = s.kind /\ \A f \in Files \ fs : m.disk[f] = s.disk[f]
  <2>1. v \in Sources /\ v.kind = s.kind /\ v.disk = s.disk
    BY DEF Moved, Sources
  <2>2. With(v, x) \in [Files -> Contents]
    BY <2>1 DEF With, Sources, Contents
  <2>3. a \in Sources /\ a.kind = s.kind /\ \A f \in Files \ fs : a.disk[f] = s.disk[f]
    BY <2>1, <2>2 DEF Added, Written, Sources
  <2>4. \A f \in fs : Unit(s.kind, f) \subseteq Files
    BY <1>0, FilesAre DEF Unit, FilesOf
  <2>5. SetEdit(s, x) = Started(a, fs)
    BY DEF SetEdit, SetIn
  <2>6. Started(a, fs) \in Sources /\ Started(a, fs).kind = s.kind /\ Started(a, fs).disk = a.disk
    BY <2>3, <2>4, StartedIs
  <2> QED
    BY <2>3, <2>5, <2>6 DEF MovedBack, Sources, Captured
<1>2. m.addr = s.addr
  <2>1. SetEdit(s, x).addr = s.addr \cup ({x} \cap Moving)
    BY DEF SetEdit, SetIn, Moved, Added, Written, Started, Sources
  <2>2. m.addr = (SetEdit(s, x).addr \ {x}) \cup (s.addr \cap {x})
    BY DEF MovedBack, Captured, SetEdit, SetIn, Moved, Added, Written, Started, Sources
  <2> QED
    BY <2>1, <2>2
<1> HIDE DEF a, v
<1>3. EditBack(SetEdit(s, x), x, Captured(s, x)) = BackIn(m, fs, x, Captured(s, x))
  BY DEF EditBack, SetEdit, SetIn, Moved, Added, Written, Started, Sources
<1> HIDE DEF m
<1>4. EditBack(SetEdit(s, x), x, Captured(s, x)).disk = s.disk /\ EditBack(SetEdit(s, x), x, Captured(s, x)).addr = s.addr
  BY <1>0, <1>1, <1>2, <1>3, BackDisk
<1>5. ASSUME NEW f \in fs PROVE EditBack(SetEdit(s, x), x, Captured(s, x)).serves[f] = s.disk[f]
  <2> DEFINE w == Written(m, fs, Former(m, x, Captured(s, x)))
  <2>1. Former(m, x, Captured(s, x)) = s.disk
    <3>1. ~(Appliance(m.kind) /\ ~(m.kind = "windows" /\ x = "renumber"))
      BY <1>1
    <3>2. Captured(s, x).conf = [g \in Files |-> s.disk[g]]
      BY DEF Captured, Appliance
    <3> QED
      BY <3>1, <3>2 DEF Former, Sources
  <2>2. w \in Sources /\ w.kind = s.kind
    BY <1>1, <2>1 DEF Written, Sources
  <2>3. f \in Files /\ f \in UNION {Unit(w.kind, g) : g \in fs} /\ \A g \in fs : Unit(w.kind, g) \subseteq Files
    BY <1>0, <2>2, FilesAre DEF Unit, FilesOf
  <2> HIDE DEF w
  <2>4. Started(w, fs).serves[f] = w.disk[f] /\ Started(w, fs).disk = w.disk
    BY <2>2, <2>3, StartedIs
  <2>5. EditBack(SetEdit(s, x), x, Captured(s, x)) = Started(w, fs)
    BY <1>3 DEF BackIn, w
  <2> QED
    BY <1>4, <2>4, <2>5
<1> QED
  BY <1>4, <1>5

(* Recover is enough: a file-based source, with whatever edits, addresses, *)
(* actors and stopped units a body or a kill left on it, passes the second *)
(* readiness check of the gate when all of Recover's commands ran.         *)
THEOREM RecoverHeals ==
  ASSUME NEW s \in Sources, ~Appliance(s.kind), s.up \subseteq FilesOf(s.kind),
         NEW copy, copy.taken, copy.disk \in [Files -> Contents], copy.addr \in SUBSET Moving,
         \A f \in Files \ FilesOf(s.kind) : copy.disk[f] = s.disk[f]
  PROVE  Ready(Recovered(s, copy), copy)
<1> DEFINE fs == FilesOf(s.kind)
           w == BackOn(s, fs, copy)
<1>1. fs \subseteq Files /\ \A f \in fs : f \in Unit(s.kind, f) /\ Unit(s.kind, f) \subseteq fs
  BY FilesAre DEF FilesOf, Unit
<1>2. Goal(s, copy) = [s EXCEPT !.disk = copy.disk, !.addr = copy.addr]
  BY DEF Goal, Baseline
<1>3. /\ w \in Sources /\ w.kind = s.kind /\ w.up = s.up
      /\ w.disk = copy.disk /\ w.addr = copy.addr /\ w.actors = {}
  <2> DEFINE r == [Swept(s) EXCEPT !.addr = copy.addr]
  <2>1. /\ r \in Sources /\ r.kind = s.kind /\ r.up = s.up /\ r.disk = s.disk
        /\ r.addr = copy.addr /\ r.actors = {}
    BY DEF Swept, Sources
  <2>2. Goal(s, copy).disk = copy.disk /\ Goal(s, copy).addr = copy.addr
    BY <1>2 DEF Sources
  <2>3. w = Written(r, fs, copy.disk)
    BY <2>2 DEF BackOn
  <2> HIDE DEF r
  <2>4. [f \in Files |-> IF f \in fs THEN copy.disk[f] ELSE r.disk[f]] = copy.disk
    BY <2>1
  <2> QED
    <3>1. ~Appliance(r.kind)
      BY <2>1
    <3>2. w = [r EXCEPT !.disk = copy.disk]
      BY <2>3, <2>4, <3>1, <2>1 DEF Written, Sources
    <3> QED
      BY <2>1, <3>2 DEF Sources
<1> HIDE DEF w
<1>4. Recovered(s, copy) = Started(w, fs)
  BY DEF Recovered, RecoveredOn, w
<1>5. /\ Started(w, fs).kind = s.kind /\ Started(w, fs).disk = copy.disk /\ Started(w, fs).addr = copy.addr
      /\ Started(w, fs).actors = {} /\ Started(w, fs).up = s.up \cup UNION {Unit(s.kind, f) : f \in fs}
  BY <1>3 DEF Started, Sources
<1>6. s.up \cup UNION {Unit(s.kind, f) : f \in fs} = fs
  BY <1>1
<1> QED
  BY <1>4, <1>5, <1>6 DEF Ready, Same

-----------------------------------------------------------------------------
(* What a change and its restore make of a source when every command ran.   *)

(* A start brings units up, a write moves none and no address.             *)
LEMMA StartedUp ==
  ASSUME NEW r \in Sources, NEW fs
  PROVE  Started(r, fs).up = r.up \cup Units(r.kind, fs) /\ Started(r, fs).actors = r.actors
BY DEF Started, Sources, Units

LEMMA WrittenIs ==
  ASSUME NEW s \in Sources, NEW c \in [Files -> Contents], NEW fs
  PROVE  /\ Written(s, fs, c) \in Sources /\ Written(s, fs, c).kind = s.kind
         /\ Written(s, fs, c).up = s.up /\ Written(s, fs, c).addr = s.addr /\ Written(s, fs, c).actors = s.actors
         /\ Written(s, fs, c).disk = [f \in Files |-> IF f \in fs THEN c[f] ELSE s.disk[f]]
<1> DEFINE disk == [f \in Files |-> IF f \in fs THEN c[f] ELSE s.disk[f]]
           serves == IF Appliance(s.kind) THEN disk ELSE s.serves
<1>1. disk \in [Files -> Contents] /\ serves \in [Files -> Contents]
  BY DEF Sources
<1>2. Written(s, fs, c) = [s EXCEPT !.disk = disk, !.serves = serves]
  BY DEF Written, Sources
<1> HIDE DEF serves
<1> QED
  BY <1>1, <1>2 DEF Sources

(* Files written and their daemons started.                                *)
LEMMA ServedIs ==
  ASSUME NEW s \in Sources, NEW c \in [Files -> Contents], NEW x \in Edits, NEW r,
         r = Started(Written(s, HomeFiles(s.kind, x), c), HomeFiles(s.kind, x))
  PROVE  /\ r \in Sources /\ r.kind = s.kind /\ r.actors = s.actors /\ r.addr = s.addr
         /\ \A f \in HomeFiles(s.kind, x) : r.disk[f] = c[f] /\ r.serves[f] = c[f]
         /\ \A f \in Files \ HomeFiles(s.kind, x) : r.disk[f] = s.disk[f]
         /\ r.up = s.up \cup Ran(s.kind, x)
<1> DEFINE fs == HomeFiles(s.kind, x)
           w == Written(s, fs, c)
<1>1. /\ w \in Sources /\ w.kind = s.kind /\ w.up = s.up /\ w.addr = s.addr /\ w.actors = s.actors
      /\ w.disk = [f \in Files |-> IF f \in fs THEN c[f] ELSE s.disk[f]]
  BY WrittenIs
<1>2. s.kind \in Kinds /\ fs \subseteq Files
  BY HomesAre DEF Sources
<1>3. \A f \in fs : f \in Unit(s.kind, f) /\ Unit(s.kind, f) \subseteq Files
  BY <1>2, HomesAreServed, UnitsAre
<1> HIDE DEF w
<1>4. \A f \in fs : f \in UNION {Unit(w.kind, g) : g \in fs}
  BY <1>1, <1>3
<1>5. /\ Started(w, fs) \in Sources /\ Started(w, fs).kind = w.kind
      /\ Started(w, fs).disk = w.disk /\ Started(w, fs).addr = w.addr
      /\ \A f \in fs : Started(w, fs).serves[f] = w.disk[f]
  BY <1>1, <1>2, <1>3, <1>4, StartedIs
<1>6. Started(w, fs).up = w.up \cup Units(w.kind, fs) /\ Started(w, fs).actors = w.actors
  BY <1>1, StartedUp
<1>7. r = Started(w, fs)
  BY DEF w
<1> HIDE DEF fs
<1>8. \A f \in fs : w.disk[f] = c[f]
  BY <1>1, <1>2
<1>9. \A f \in Files \ fs : w.disk[f] = s.disk[f]
  BY <1>1
<1>10. Units(s.kind, fs) = Ran(s.kind, x)
  BY DEF Ran, fs
<1>11. r \in Sources /\ r.kind = s.kind /\ r.actors = s.actors /\ r.addr = s.addr /\ r.up = s.up \cup Ran(s.kind, x)
  BY <1>1, <1>5, <1>6, <1>7, <1>10
<1>12. (\A f \in fs : r.disk[f] = c[f] /\ r.serves[f] = c[f]) /\ (\A f \in Files \ fs : r.disk[f] = s.disk[f])
  BY <1>5, <1>7, <1>8, <1>9
<1> QED
  BY <1>11, <1>12 DEF fs

(* What an edit makes of a source, and its restore.                        *)
LEMMA EditMade ==
  ASSUME NEW s \in Sources, NEW x \in Changes, IsEdit(s.kind, x)
  PROVE  LET r == Set(s, x) IN
         /\ r.addr = s.addr \cup ({x} \cap Moving)
         /\ \A f \in HomeFiles(s.kind, x) : r.disk[f] = s.disk[f] \cup {x} /\ r.serves[f] = r.disk[f]
         /\ \A f \in Files \ HomeFiles(s.kind, x) : r.disk[f] = s.disk[f]
         /\ r.up = s.up \cup Ran(s.kind, x)
<1> DEFINE m == Moved(s, x)
           r == Set(s, x)
           fs == HomeFiles(s.kind, x)
<1>0. x \in Edits /\ x \notin Actors
  BY DEF IsEdit, Edits, Actors, Features, Features4, Features6, Adverts
<1>1. /\ m \in Sources /\ m.kind = s.kind /\ m.disk = s.disk /\ m.up = s.up
      /\ m.addr = s.addr \cup ({x} \cap Moving)
  BY DEF Moved, Sources
<1> HIDE DEF m
<1>2. With(m, x) \in [Files -> Contents] /\ \A f \in Files : With(m, x)[f] = s.disk[f] \cup {x}
  BY <1>0, <1>1 DEF With, Sources, Contents
<1>3. r = Started(Written(m, fs, With(m, x)), fs)
  <2>1. Set(s, x) = SetEdit(s, x)
    BY <1>0 DEF Set
  <2> QED
    BY <2>1 DEF SetEdit, SetIn, Added, m
<1>4. fs \subseteq Files
  BY <1>0, HomesAre DEF Sources
<1> HIDE DEF r
<1>5. /\ r.addr = m.addr
      /\ \A f \in fs : r.disk[f] = With(m, x)[f] /\ r.serves[f] = With(m, x)[f]
      /\ \A f \in Files \ fs : r.disk[f] = m.disk[f]
      /\ r.up = m.up \cup Ran(m.kind, x)
  BY <1>0, <1>1, <1>2, <1>3, ServedIs
<1> HIDE DEF fs
<1>6. /\ r.addr = s.addr \cup ({x} \cap Moving) /\ r.up = s.up \cup Ran(s.kind, x)
      /\ \A f \in fs : r.disk[f] = s.disk[f] \cup {x} /\ r.serves[f] = r.disk[f]
      /\ \A f \in Files \ fs : r.disk[f] = s.disk[f]
  BY <1>1, <1>2, <1>4, <1>5
<1> QED
  BY <1>6 DEF r, fs

LEMMA EditTakenBack ==
  ASSUME NEW s \in Sources, NEW x \in Changes, IsEdit(s.kind, x), NEW was \in Captures
  PROVE  LET r == Restored(s, x, was) IN
         /\ r.addr = (s.addr \ {x}) \cup was.addr
         /\ \A f \in HomeFiles(s.kind, x) : r.disk[f] = Former(s, x, was)[f] /\ r.serves[f] = r.disk[f]
         /\ \A f \in Files \ HomeFiles(s.kind, x) : r.disk[f] = s.disk[f]
         /\ r.up = s.up \cup Ran(s.kind, x)
<1> DEFINE m == MovedBack(s, x, was)
           r == Restored(s, x, was)
           fs == HomeFiles(s.kind, x)
<1>0. x \in Edits /\ x \notin Actors
  BY DEF IsEdit, Edits, Actors, Features, Features4, Features6, Adverts
<1>1. /\ m \in Sources /\ m.kind = s.kind /\ m.disk = s.disk /\ m.up = s.up
      /\ m.addr = (s.addr \ {x}) \cup was.addr
  BY DEF MovedBack, Sources, Captures
<1>2. Former(m, x, was) = Former(s, x, was) /\ Former(m, x, was) \in [Files -> Contents]
  BY <1>0, <1>1, FormerIs DEF Former
<1>3. r = Started(Written(m, fs, Former(m, x, was)), fs)
  <2>1. Restored(s, x, was) = EditBack(s, x, was)
    BY <1>0 DEF Restored
  <2> QED
    BY <2>1 DEF EditBack, BackIn
<1>4. fs \subseteq Files
  BY <1>0, HomesAre DEF Sources
<1> HIDE DEF r, m
<1>5. /\ r.addr = m.addr
      /\ \A f \in fs : r.disk[f] = Former(m, x, was)[f] /\ r.serves[f] = Former(m, x, was)[f]
      /\ \A f \in Files \ fs : r.disk[f] = m.disk[f]
      /\ r.up = m.up \cup Ran(m.kind, x)
  BY <1>0, <1>1, <1>2, <1>3, ServedIs
<1> HIDE DEF fs
<1>6. /\ r.addr = (s.addr \ {x}) \cup was.addr /\ r.up = s.up \cup Ran(s.kind, x)
      /\ \A f \in fs : r.disk[f] = Former(s, x, was)[f] /\ r.serves[f] = r.disk[f]
      /\ \A f \in Files \ fs : r.disk[f] = s.disk[f]
  BY <1>1, <1>2, <1>5
<1> QED
  BY <1>6 DEF r, fs

(* What an actor, a stop and a start make of it.                           *)
LEMMA ActorIs ==
  ASSUME NEW s \in Sources, NEW x \in Actors, NEW was
  PROVE  /\ ~IsEdit(s.kind, x) /\ Stopped(s.kind, x) = {}
         /\ Set(s, x).actors = s.actors \cup {x} /\ Restored(s, x, was).actors = s.actors \ {x}
         /\ \A r \in {Set(s, x), Restored(s, x, was)} : r.up = s.up /\ r.disk = s.disk /\ r.serves = s.serves
<1>1. ~IsEdit(s.kind, x) /\ x \notin Stops /\ x # "ra-off"
  BY DEF IsEdit, Edits, Actors, Stops, Features, Features4, Features6, Adverts
<1>2. Set(s, x) = SetActor(s, x)
  BY <1>1 DEF Set
<1>3. Restored(s, x, was) = ActorGone(s, x)
  BY <1>1 DEF Restored
<1>4. Stopped(s.kind, x) = {}
  BY <1>1 DEF Stopped, Stops
<1> QED
  BY <1>1, <1>2, <1>3, <1>4 DEF SetActor, ActorGone, Sources

LEMMA StopIs ==
  ASSUME NEW s \in Sources, NEW x \in Changes, x \in Offered(s.kind), ~IsEdit(s.kind, x), x \notin Actors, NEW was
  PROVE  /\ Set(s, x).up = s.up \ Stopped(s.kind, x)
         /\ s.up \cup Stopped(s.kind, x) \subseteq Restored(s, x, was).up
<1>1. Set(s, x) = SetStop(s, x)
  BY DEF Set
<1>2. Restored(s, x, was) = StopOver(s, x)
  BY DEF Restored
<1>3. Stopped(s.kind, x) \subseteq Units(s.kind, Stopped(s.kind, x))
  BY StoppedAre DEF Units, Sources
<1>4. Started(s, Stopped(s.kind, x)).up = s.up \cup Units(s.kind, Stopped(s.kind, x))
  BY StartedUp
<1> QED
  BY <1>1, <1>2, <1>3, <1>4 DEF SetStop, StopOver, Down, Sources

(* The daemons a change, or a lease reset, starts and stops.               *)
LEMMA CycledIs ==
  ASSUME NEW k \in Kinds
  PROVE  /\ \A x \in Changes : x \in Actors \/ x \in Offered(k) => Cycled(k, x) \subseteq FilesOf(k)
         /\ Halted(k, "service") \subseteq FilesOf(k)
<1>1. ASSUME NEW fs, fs \subseteq FilesOf(k) PROVE Units(k, fs) \subseteq FilesOf(k)
  BY <1>1, UnitsAre DEF Units
<1>2. ASSUME NEW x \in Changes, x \in Offered(k) \cup {"service"} PROVE Halted(k, x) \subseteq FilesOf(k)
  <2>1. Stopped(k, x) \subseteq FilesOf(k)
    BY <1>2, StoppedAre
  <2> QED
    BY <1>1, <2>1 DEF Halted
<1>3. ASSUME NEW x \in Edits, x \in Offered(k) PROVE Ran(k, x) \subseteq FilesOf(k)
  <2>1. HomeFiles(k, x) \subseteq FilesOf(k)
    BY <1>3, HomesAreServed
  <2> QED
    BY <1>1, <2>1 DEF Ran
<1>4. \A x \in Actors : ~IsEdit(k, x)
  BY DEF IsEdit, Edits, Actors, Features, Features4, Features6, Adverts
<1>5. "service" \in Changes
  BY DEF Changes, Stops
<1> QED
  BY <1>2, <1>3, <1>4, <1>5 DEF Cycled, IsEdit

(* A reservation in a compared file is served at once.                     *)
LEMMA ReservedIs ==
  ASSUME NEW s \in Sources, NEW by \in {"mac", "id"}
  PROVE  LET r == Reserved(s, by)
             fs == ReservedIn(s.kind, by)
         IN  /\ s.up \subseteq r.up
             /\ \A f \in fs : r.disk[f] = s.disk[f] \cup {Reservation} /\ r.serves[f] = r.disk[f]
             /\ \A f \in Files \ fs : r.disk[f] = s.disk[f]
<1> DEFINE r == Reserved(s, by)
           fs == ReservedIn(s.kind, by)
           c == With(s, Reservation)
           w == Written(s, fs, c)
<1>1. c \in [Files -> Contents] /\ \A f \in Files : c[f] = s.disk[f] \cup {Reservation}
  BY DEF With, Sources, Contents
<1>2. /\ w \in Sources /\ w.kind = s.kind /\ w.up = s.up
      /\ w.disk = [f \in Files |-> IF f \in fs THEN c[f] ELSE s.disk[f]]
  <2> HIDE DEF c
  <2> QED
    BY <1>1, WrittenIs
<1>3. fs \subseteq Files /\ s.kind \in Kinds
  BY FilesAre DEF ReservedIn, Sources
<1>4. \/ r = w /\ fs = {}
      \/ r = Started(w, {"conf"}) /\ fs \subseteq Unit(s.kind, "conf")
  BY <1>3 DEF Reserved, Added, Appliance, ReservedIn, Unit, FilesOf, Kinds
<1> HIDE DEF r, w, c
<1>5. /\ \A f \in fs : w.disk[f] = s.disk[f] \cup {Reservation}
      /\ \A f \in Files \ fs : w.disk[f] = s.disk[f]
  BY <1>1, <1>2, <1>3
<1>6. CASE r = Started(w, {"conf"}) /\ fs \subseteq Unit(s.kind, "conf")
  <2>1. \A f \in {"conf"} : Unit(w.kind, f) \subseteq Files
    BY <1>2, <1>3, UnitsAre, FilesAre
  <2>2. /\ r.disk = w.disk
        /\ \A f \in Files : f \in UNION {Unit(w.kind, g) : g \in {"conf"}} => r.serves[f] = w.disk[f]
    BY <1>2, <1>6, <2>1, StartedIs
  <2>3. w.up \subseteq r.up
    BY <1>2, <1>6, StartedUp
  <2> QED
    BY <1>2, <1>3, <1>5, <1>6, <2>2, <2>3 DEF r
<1>7. CASE r = w /\ fs = {}
  BY <1>2, <1>5, <1>7 DEF r
<1> QED
  BY <1>4, <1>6, <1>7

LEMMA LeasesResetUp ==
  ASSUME NEW s \in Sources
  PROVE  s.up \subseteq LeasesReset(s).up
BY StartedUp DEF LeasesReset
=============================================================================
