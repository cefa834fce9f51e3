-------------------------- MODULE BackgroundProofs --------------------------
(***************************************************************************)
(* Proofs about what didapi does in goroutines of its own: the two files   *)
(* generated for Asterisk, and the bulk import of DIDs.                    *)
(***************************************************************************)
EXTENDS AsteriskConfig, DidImport, FiniteSetTheorems, SequenceTheorems, TLAPS

(* The generated files.  What is known of a file depends on whether one     *)
(* goroutine at most writes it.                                            *)

ActiveOn(k, f) == regen[k].file = f /\ regen[k].at # "off"

\* A goroutine that was started alone, and beside which no other was and nothing was missed.
CleanOn(k, f) == ActiveOn(k, f) /\ regen[k].clean

Sole(f) == f \notin crossed \/ \E k \in Regens : CleanOn(k, f)
Placed(f) == f \notin crossed \/ \E k \in Regens : CleanOn(k, f) /\ regen[k].at = "placed"
Served(f) == f \notin crossed \cup missed \/ \E k \in Regens : CleanOn(k, f)
ServedAndPlaced(f) ==
    f \notin crossed \cup missed \/ \E k \in Regens : CleanOn(k, f) /\ regen[k].at = "placed"

\* Whoever writes a file alone has <file>.new open, and leaves it as it was read.
WritesAlone(f) ==
    Sole(f) =>
        /\ \A k, l \in Writers(f) : k = l
        /\ \A k \in Writers(f) :
              /\ regen[k].at \in {"open", "written"} => regen[k].handle = "new"
              /\ regen[k].at = "written" => fresh[f] = regen[k].lines

PlacedWhole(f) == Placed(f) => conf[f] # CutShort

\* What was read is what the rows say still; what was placed is, unless somebody is about
\* to place it anew; and so is what was loaded, unless somebody is about to load it anew.
ReadsLast(f) ==
    Served(f) => \A k \in Writers(f) : regen[k].at # "asked" => regen[k].lines = Wanted(f)
PlacedLast(f) == ServedAndPlaced(f) /\ Writers(f) = {} => conf[f] = Wanted(f)
LoadedLast(f) ==
    f \notin crossed \cup missed /\ (\A k \in Regens : ~ActiveOn(k, f)) => loaded[f] = Wanted(f)

FileInv(f) == WritesAlone(f) /\ PlacedWhole(f) /\ ReadsLast(f) /\ PlacedLast(f) /\ LoadedLast(f)

ConfigInv == ConfigTypeOK /\ \A f \in Files : FileInv(f)

RegenForm == [at : Busy \cup {"off"}, file : Files, lines : Texts, handle : {"new", "conf", "gone"},
              clean : BOOLEAN]

TypedFiles ==
    /\ conf \in [Files -> Texts \cup {CutShort}]
    /\ fresh \in [Files -> Texts \cup {CutShort, NoNew}]
    /\ loaded \in [Files -> Texts \cup {CutShort}]
    /\ crossed \subseteq Files /\ missed \subseteq Files

LEMMA ConfigTypes ==
    ASSUME ConfigTypeOK
    PROVE  /\ peers \subseteq Peers /\ activeUsers \subseteq PeerUsers /\ matches \subseteq Matches
           /\ conf \in [Files -> Texts \cup {CutShort}]
           /\ fresh \in [Files -> Texts \cup {CutShort, NoNew}]
           /\ regen \in [Regens -> RegenForm]
           /\ loaded \in [Files -> Texts \cup {CutShort}]
           /\ crossed \subseteq Files /\ missed \subseteq Files
BY DEF ConfigTypeOK, RegenForm

LEMMA IdleTyped == IdleRegen \in RegenForm /\ IdleRegen.at = "off" /\ ~IdleRegen.clean
BY DEF IdleRegen, RegenForm, Busy, Files, Texts

\* What the rows say is a text, and a text is neither cut short nor missing.
LEMMA TextsWhole ==
    /\ ConfigTypeOK => \A f \in Files : Wanted(f) \in Texts
    /\ \A t \in Texts : t # CutShort /\ t # NoNew
<1>1. \A t \in Texts : t # CutShort /\ t # NoNew
    <2>1. "cut" \notin Peers \cup Hosts /\ "none" \notin Peers \cup Hosts
        BY ConfigAssumption
    <2> QED BY <2>1 DEF Texts, CutShort, NoNew
<1>2. ASSUME ConfigTypeOK PROVE UserLines \in Texts /\ SupplierLines \in Texts
    BY <1>2 DEF ConfigTypeOK, UserLines, SupplierLines, Texts, Hosts
<1> QED BY <1>1, <1>2 DEF Wanted

\* Tainting the goroutines of one file.
LEMMA TaintedOnly ==
    ASSUME ConfigTypeOK, NEW f \in Files
    PROVE  /\ Tainted(f) \in [Regens -> RegenForm]
           /\ \A k \in Regens :
                 /\ Tainted(f)[k].at = regen[k].at /\ Tainted(f)[k].file = regen[k].file
                 /\ Tainted(f)[k].lines = regen[k].lines /\ Tainted(f)[k].handle = regen[k].handle
                 /\ regen[k].file = f => ~Tainted(f)[k].clean
                 /\ regen[k].file # f => Tainted(f)[k] = regen[k]
<1>1. regen \in [Regens -> RegenForm]
    BY ConfigTypes
<1>2. \A k \in Regens : [regen[k] EXCEPT !.clean = FALSE] \in RegenForm
    BY <1>1 DEF RegenForm
<1>3. \A k \in Regens : Tainted(f)[k] = IF regen[k].file = f THEN [regen[k] EXCEPT !.clean = FALSE] ELSE regen[k]
    BY DEF Tainted
<1>4. Tainted(f) \in [Regens -> RegenForm]
    BY <1>1, <1>2 DEF Tainted
<1> QED BY <1>1, <1>3, <1>4 DEF RegenForm

\* A step that is about another file.
LEMMA OtherFile ==
    ASSUME NEW f \in Files, FileInv(f),
           \A k \in Regens : /\ ActiveOn(k, f)' <=> ActiveOn(k, f)
                             /\ ActiveOn(k, f) => regen'[k] = regen[k],
           f \in crossed' <=> f \in crossed, f \in missed' <=> f \in missed,
           conf'[f] = conf[f], fresh'[f] = fresh[f], Wanted(f)' = Wanted(f),
           loaded'[f] \in {loaded[f], conf[f]}
    PROVE  FileInv(f)'
<1>1. Writers(f)' = Writers(f) /\ \A k \in Writers(f) : regen'[k] = regen[k]
    BY DEF Writers, ActiveOn, Busy
<1>2. \A k \in Regens : /\ CleanOn(k, f)' <=> CleanOn(k, f)
                        /\ CleanOn(k, f) => regen'[k] = regen[k]
    BY DEF CleanOn
<1>3. Sole(f)' <=> Sole(f)
    BY <1>2 DEF Sole
<1>4. Placed(f)' <=> Placed(f)
    BY <1>2 DEF Placed
<1>5. Served(f)' <=> Served(f)
    BY <1>2 DEF Served
<1>6. ServedAndPlaced(f)' <=> ServedAndPlaced(f)
    BY <1>2 DEF ServedAndPlaced
<1>7. WritesAlone(f)'
    BY <1>1, <1>3 DEF FileInv, WritesAlone
<1>8. PlacedWhole(f)' /\ PlacedLast(f)'
    BY <1>1, <1>4, <1>6 DEF FileInv, PlacedWhole, PlacedLast
<1>9. ReadsLast(f)'
    BY <1>1, <1>5 DEF FileInv, ReadsLast
<1>10. LoadedLast(f)'
    <2>1. (\A k \in Regens : ~ActiveOn(k, f)) => Writers(f) = {}
        BY DEF Writers, ActiveOn, Busy
    <2>2. f \notin crossed \cup missed => ServedAndPlaced(f)
        BY DEF ServedAndPlaced
    <2> QED BY <2>1, <2>2 DEF FileInv, LoadedLast, PlacedLast
<1> QED BY <1>7, <1>8, <1>9, <1>10 DEF FileInv

\* Of a file that two goroutines write nothing is known.
LEMMA CrossedFile ==
    ASSUME NEW f \in Files, f \in crossed', \A k \in Regens : ~CleanOn(k, f)'
    PROVE  FileInv(f)'
BY DEF FileInv, WritesAlone, PlacedWhole, ReadsLast, PlacedLast, LoadedLast, Sole, Placed, Served, ServedAndPlaced

\* Of a file with a change that was missed it is known that it is whole.
LEMMA MissedFile ==
    ASSUME NEW f \in Files, FileInv(f), f \in missed', \A k \in Regens : ~CleanOn(k, f)',
           f \in crossed' <=> f \in crossed, conf'[f] = conf[f], fresh'[f] = fresh[f],
           \A k \in Writers(f)' :
              /\ k \in Writers(f)
              /\ regen'[k].at \in {"open", "written"} =>
                    regen'[k].at = regen[k].at /\ regen'[k].handle = regen[k].handle
                    /\ regen'[k].lines = regen[k].lines
    PROVE  FileInv(f)'
<1>1. Sole(f)' => f \notin crossed /\ Sole(f)
    BY DEF Sole
<1>2. Placed(f)' => Placed(f)
    BY DEF Placed
<1>3. ~Served(f)' /\ ~ServedAndPlaced(f)'
    BY DEF Served, ServedAndPlaced
<1>4. WritesAlone(f)'
    BY <1>1 DEF FileInv, WritesAlone
<1>5. PlacedWhole(f)'
    BY <1>2 DEF FileInv, PlacedWhole
<1> QED BY <1>3, <1>4, <1>5 DEF FileInv, ReadsLast, PlacedLast, LoadedLast

LEMMA ConfigInitInv == ConfigInit => ConfigInv
<1> SUFFICES ASSUME ConfigInit PROVE ConfigInv
    OBVIOUS
<1>1. /\ peers = {} /\ activeUsers = PeerUsers /\ matches = {}
      /\ conf = [f \in Files |-> {}] /\ fresh = [f \in Files |-> NoNew]
      /\ regen = [k \in Regens |-> IdleRegen] /\ loaded = conf /\ crossed = {} /\ missed = {}
    BY DEF ConfigInit
<1>2. {} \in Texts
    BY DEF Texts
<1>3. ConfigTypeOK
    BY <1>1, <1>2, IdleTyped DEF ConfigTypeOK, RegenForm
<1>4. \A f \in Files : Wanted(f) = {}
    BY <1>1 DEF Wanted, UserLines, SupplierLines
<1>5. \A f \in Files : Writers(f) = {} /\ \A k \in Regens : ~ActiveOn(k, f)
    BY <1>1, IdleTyped DEF Writers, ActiveOn, Busy
<1>6. ASSUME NEW f \in Files PROVE FileInv(f)
    <2>1. conf[f] = {} /\ loaded[f] = {} /\ {} # CutShort
        BY <1>1, <1>2, TextsWhole
    <2> QED BY <1>4, <1>5, <2>1 DEF FileInv, WritesAlone, PlacedWhole, ReadsLast, PlacedLast, LoadedLast
<1> QED BY <1>3, <1>6 DEF ConfigInv

-----------------------------------------------------------------------------
(* Handlers *)

\* A goroutine is started for a file whose rows have changed.
LEMMA LaunchInv ==
    ASSUME ConfigInv, NEW k \in Regens, NEW f \in Files, Launch(k, f),
           peers' \subseteq Peers, activeUsers' \subseteq PeerUsers, matches' \subseteq Matches,
           \A g \in Files \ {f} : Wanted(g)' = Wanted(g),
           UNCHANGED <<conf, fresh, loaded, missed>>
    PROVE  ConfigInv'
<1> DEFINE alone == Writers(f) = {}
           before == IF alone THEN regen ELSE Tainted(f)
           new == [IdleRegen EXCEPT !.at = "asked", !.file = f, !.clean = alone]
<1>1. ConfigTypeOK /\ \A g \in Files : FileInv(g)
    BY DEF ConfigInv
<1>2. regen \in [Regens -> RegenForm] /\ crossed \subseteq Files
    BY <1>1, ConfigTypes
<1>3. before \in [Regens -> RegenForm]
    BY <1>1, <1>2, TaintedOnly
<1>4. new \in RegenForm /\ new.at = "asked" /\ new.file = f /\ new.clean = alone
    BY IdleTyped DEF RegenForm, IdleRegen, Busy
<1>5. /\ regen[k].at = "off" /\ regen' = [before EXCEPT ![k] = new]
      /\ crossed' = IF alone THEN crossed ELSE crossed \cup {f}
    BY DEF Launch
<1> HIDE DEF before, new
<1>6. /\ regen' \in [Regens -> RegenForm] /\ crossed' \subseteq Files
      /\ regen'[k] = new /\ \A l \in Regens \ {k} : regen'[l] = before[l]
    BY <1>2, <1>3, <1>4, <1>5
<1>7. ConfigTypeOK'
    BY <1>1, <1>6 DEF ConfigTypeOK, RegenForm
<1>8. ASSUME NEW g \in Files \ {f} PROVE FileInv(g)'
    <2>1. \A l \in Regens \ {k} : regen[l].file = g => before[l] = regen[l]
        BY <1>1, TaintedOnly DEF before
    <2>2. \A l \in Regens \ {k} : before[l].file = regen[l].file
        BY <1>1, TaintedOnly DEF before
    <2>3. \A l \in Regens : (ActiveOn(l, g)' <=> ActiveOn(l, g)) /\ (ActiveOn(l, g) => regen'[l] = regen[l])
        BY <1>4, <1>5, <1>6, <2>1, <2>2 DEF ActiveOn
    <2>4. g \in crossed' <=> g \in crossed
        BY <1>5
    <2> QED BY <1>1, <2>3, <2>4, OtherFile
<1>9. FileInv(f)'
    <2>1. CASE alone
        <3>1. \A l \in Regens \ {k} : regen'[l] = regen[l]
            BY <1>6, <2>1 DEF before
        <3>2. Writers(f)' = {k}
            BY <1>4, <1>6, <2>1, <3>1 DEF Writers, Busy
        <3>3. ActiveOn(k, f)' /\ crossed' = crossed
            BY <1>4, <1>5, <1>6, <2>1 DEF ActiveOn
        <3>4. Placed(f)' => Placed(f)
            BY <1>4, <1>6, <3>1, <3>3 DEF Placed, CleanOn, ActiveOn
        <3>5. WritesAlone(f)' /\ ReadsLast(f)'
            BY <1>4, <1>6, <3>2 DEF WritesAlone, ReadsLast
        <3>6. PlacedWhole(f)'
            BY <1>1, <3>4 DEF FileInv, PlacedWhole
        <3>7. PlacedLast(f)' /\ LoadedLast(f)'
            BY <3>2, <3>3 DEF PlacedLast, LoadedLast
        <3> QED BY <3>5, <3>6, <3>7 DEF FileInv
    <2>2. CASE ~alone
        <3>1. \A l \in Regens : ~CleanOn(l, f)'
            <4>1. \A l \in Regens \ {k} : regen'[l] = Tainted(f)[l]
                BY <1>6, <2>2 DEF before
            <4>2. ~regen'[k].clean
                BY <1>4, <1>6, <2>2
            <4> QED BY <1>1, <4>1, <4>2, TaintedOnly DEF CleanOn, ActiveOn
        <3>2. f \in crossed'
            BY <1>5, <2>2
        <3> QED BY <3>1, <3>2, CrossedFile
    <2> QED BY <2>1, <2>2
<1> QED BY <1>7, <1>8, <1>9 DEF ConfigInv

LEMMA HandlersInv ==
    ASSUME ConfigInv, NEW k \in Regens,
           \/ \E a \in Peers : PeerAdd(k, a) \/ PeerDelete(k, a)
           \/ \E m \in Matches : MemberDelete(k, m) \/ \E n \in Matches : MemberEdit(k, m, n)
           \/ \E ms \in SUBSET Matches : MembersAdd(k, ms) \/ GroupOfMembersDelete(k, ms)
    PROVE  ConfigInv'
<1>1. peers \subseteq Peers /\ activeUsers \subseteq PeerUsers /\ matches \subseteq Matches
    BY ConfigTypes DEF ConfigInv
<1>2. CASE \E a \in Peers : PeerAdd(k, a) \/ PeerDelete(k, a)
    <2>1. /\ Launch(k, "users") /\ peers' \subseteq Peers
          /\ UNCHANGED <<activeUsers, matches, conf, fresh, loaded, missed>>
        BY <1>1, <1>2 DEF PeerAdd, PeerDelete
    <2>2. "users" \in Files /\ \A g \in Files \ {"users"} : Wanted(g)' = Wanted(g)
        BY <2>1 DEF Files, Wanted, SupplierLines
    <2> QED BY <1>1, <2>1, <2>2, LaunchInv
<1>3. CASE \/ \E m \in Matches : MemberDelete(k, m) \/ \E n \in Matches : MemberEdit(k, m, n)
           \/ \E ms \in SUBSET Matches : MembersAdd(k, ms) \/ GroupOfMembersDelete(k, ms)
    <2>1. /\ Launch(k, "suppliers") /\ matches' \subseteq Matches
          /\ UNCHANGED <<peers, activeUsers, conf, fresh, loaded, missed>>
        BY <1>1, <1>3 DEF MemberDelete, MemberEdit, MembersAdd, GroupOfMembersDelete
    <2>2. "suppliers" \in Files /\ \A g \in Files \ {"suppliers"} : Wanted(g)' = Wanted(g)
        BY <2>1 DEF Files, Wanted, UserLines
    <2> QED BY <1>1, <2>1, <2>2, LaunchInv
<1> QED BY <1>2, <1>3

LEMMA UserStatusInv ==
    ASSUME ConfigInv, NEW u \in PeerUsers, UserStatus(u)
    PROVE  ConfigInv'
<1> DEFINE f == "users"
<1>1. ConfigTypeOK /\ f \in Files /\ \A g \in Files : FileInv(g)
    BY DEF ConfigInv, Files
<1>2. /\ activeUsers' = (activeUsers \ {u}) \cup ({u} \ activeUsers)
      /\ missed' = missed \cup {f} /\ regen' = Tainted(f)
      /\ UNCHANGED <<peers, matches, conf, fresh, loaded, crossed>>
    BY DEF UserStatus, Unserved
<1> HIDE DEF f
<1>3. ConfigTypeOK'
    <2>1. activeUsers' \subseteq PeerUsers /\ missed' \subseteq Files /\ regen' \in [Regens -> RegenForm]
        BY <1>1, <1>2, ConfigTypes, TaintedOnly
    <2> QED BY <1>1, <1>2, <2>1 DEF ConfigTypeOK, RegenForm
<1>4. ASSUME NEW g \in Files \ {f} PROVE FileInv(g)'
    <2>1. \A l \in Regens : (ActiveOn(l, g)' <=> ActiveOn(l, g)) /\ (ActiveOn(l, g) => regen'[l] = regen[l])
        BY <1>1, <1>2, TaintedOnly DEF ActiveOn
    <2>2. Wanted(g)' = Wanted(g)
        BY <1>2 DEF Wanted, SupplierLines, f
    <2> QED BY <1>1, <1>2, <2>1, <2>2, OtherFile
<1>5. FileInv(f)'
    <2>1. \A l \in Regens : ~CleanOn(l, f)'
        BY <1>1, <1>2, TaintedOnly DEF CleanOn, ActiveOn
    <2>2. \A l \in Writers(f)' : /\ l \in Writers(f) /\ regen'[l].at = regen[l].at
                                 /\ regen'[l].handle = regen[l].handle /\ regen'[l].lines = regen[l].lines
        BY <1>1, <1>2, TaintedOnly DEF Writers
    <2> QED BY <1>1, <1>2, <2>1, <2>2, MissedFile
<1> QED BY <1>3, <1>4, <1>5 DEF ConfigInv

-----------------------------------------------------------------------------
(* A goroutine *)

\* A step of a goroutine says nothing of the other file.
LEMMA OwnFile ==
    ASSUME ConfigInv, NEW f \in Files, UNCHANGED <<peers, activeUsers, matches>>, ConfigTypeOK', FileInv(f)',
           \A l \in Regens : IF regen[l].file = f THEN regen'[l].file = f \/ regen'[l].at = "off"
                             ELSE regen'[l] = regen[l],
           \A g \in Files \ {f} : /\ g \in crossed' <=> g \in crossed
                                  /\ g \in missed' <=> g \in missed
                                  /\ conf'[g] = conf[g] /\ fresh'[g] = fresh[g]
                                  /\ loaded'[g] \in {loaded[g], conf[g]}
    PROVE  ConfigInv'
<1>1. SUFFICES ASSUME NEW g \in Files \ {f} PROVE FileInv(g)'
    BY DEF ConfigInv
<1>2. \A l \in Regens : (ActiveOn(l, g)' <=> ActiveOn(l, g)) /\ (ActiveOn(l, g) => regen'[l] = regen[l])
    BY DEF ActiveOn
<1>3. Wanted(g)' = Wanted(g)
    BY DEF Wanted, UserLines, SupplierLines
<1> QED BY <1>2, <1>3, OtherFile DEF ConfigInv

\* The same, of a step that changes the goroutine itself alone.
LEMMA OwnStep ==
    ASSUME ConfigInv, NEW k \in Regens, NEW f \in Files, f = regen[k].file, NEW new \in RegenForm,
           new.file = f \/ new.at = "off", regen' = [regen EXCEPT ![k] = new],
           UNCHANGED <<peers, activeUsers, matches>>,
           TypedFiles', FileInv(f)',
           \A g \in Files \ {f} : /\ g \in crossed' <=> g \in crossed
                                  /\ g \in missed' <=> g \in missed
                                  /\ conf'[g] = conf[g] /\ fresh'[g] = fresh[g]
                                  /\ loaded'[g] \in {loaded[g], conf[g]}
    PROVE  ConfigInv'
<1>1. ConfigTypeOK /\ regen \in [Regens -> RegenForm]
    BY ConfigTypes DEF ConfigInv
<1>2. /\ regen' \in [Regens -> RegenForm]
      /\ \A l \in Regens : regen'[l] = IF l = k THEN new ELSE regen[l]
    BY <1>1
<1>3. ConfigTypeOK'
    BY <1>1, <1>2 DEF ConfigTypeOK, RegenForm, TypedFiles
<1>4. \A l \in Regens : IF regen[l].file = f THEN regen'[l].file = f \/ regen'[l].at = "off"
                        ELSE regen'[l] = regen[l]
    BY <1>2
<1> QED BY <1>3, <1>4, OwnFile

\* Something went wrong: every goroutine of the file is tainted, and it is one down.
LEMMA FailureInv ==
    ASSUME ConfigInv, NEW k \in Regens, NEW f \in Files, f = regen[k].file, NEW new \in RegenForm,
           new.at = "off" \/ (new.at = "read" /\ regen[k].at = "asked" /\ new.file = f), ~new.clean,
           regen' = [Tainted(f) EXCEPT ![k] = new], missed' = missed \cup {f},
           UNCHANGED <<peers, activeUsers, matches, conf, fresh, loaded, crossed>>
    PROVE  ConfigInv'
<1>1. ConfigTypeOK /\ FileInv(f)
    BY DEF ConfigInv
<1>2. /\ Tainted(f) \in [Regens -> RegenForm]
      /\ \A l \in Regens :
            /\ Tainted(f)[l].at = regen[l].at /\ Tainted(f)[l].file = regen[l].file
            /\ Tainted(f)[l].lines = regen[l].lines /\ Tainted(f)[l].handle = regen[l].handle
            /\ regen[l].file = f => ~Tainted(f)[l].clean
            /\ regen[l].file # f => Tainted(f)[l] = regen[l]
    BY <1>1, TaintedOnly
<1>3. /\ regen' \in [Regens -> RegenForm] /\ regen'[k] = new
      /\ \A l \in Regens \ {k} : regen'[l] = Tainted(f)[l]
    BY <1>2
<1>4. ConfigTypeOK'
    <2>1. missed' \subseteq Files
        BY <1>1, ConfigTypes
    <2> QED BY <1>1, <1>3, <2>1 DEF ConfigTypeOK, RegenForm
<1>5. \A l \in Regens : ~CleanOn(l, f)'
    BY <1>2, <1>3 DEF CleanOn, ActiveOn
<1>6. \A l \in Writers(f)' :
         /\ l \in Writers(f)
         /\ regen'[l].at \in {"open", "written"} =>
               regen'[l].at = regen[l].at /\ regen'[l].handle = regen[l].handle
               /\ regen'[l].lines = regen[l].lines
    BY <1>2, <1>3 DEF Writers, Busy
<1>7. FileInv(f)'
    BY <1>1, <1>5, <1>6, MissedFile
<1>8. \A l \in Regens : IF regen[l].file = f THEN regen'[l].file = f \/ regen'[l].at = "off"
                        ELSE regen'[l] = regen[l]
    BY <1>2, <1>3
<1> QED BY <1>4, <1>7, <1>8, OwnFile

\* What a goroutine's own step keeps: who is active and clean, but for where it is itself.
LEMMA SameCrew ==
    ASSUME ConfigTypeOK, NEW k \in Regens, NEW f \in Files, f = regen[k].file, NEW new \in RegenForm,
           regen' = [regen EXCEPT ![k] = new], new.file = f, new.clean = regen[k].clean,
           regen[k].at \in Busy, new.at \in Busy, UNCHANGED <<crossed, missed>>
    PROVE  /\ regen'[k] = new /\ \A l \in Regens \ {k} : regen'[l] = regen[l]
           /\ \A l \in Regens : (ActiveOn(l, f)' <=> ActiveOn(l, f)) /\ (CleanOn(l, f)' <=> CleanOn(l, f))
           /\ ActiveOn(k, f)
           /\ Sole(f)' <=> Sole(f)
           /\ Served(f)' <=> Served(f)
<1>1. regen \in [Regens -> RegenForm]
    BY ConfigTypes
<1>2. regen'[k] = new /\ \A l \in Regens \ {k} : regen'[l] = regen[l]
    BY <1>1
<1>3. \A l \in Regens : (ActiveOn(l, f)' <=> ActiveOn(l, f)) /\ (CleanOn(l, f)' <=> CleanOn(l, f))
    BY <1>2 DEF ActiveOn, CleanOn, Busy
<1> QED BY <1>2, <1>3 DEF Sole, Served, ActiveOn, Busy

LEMMA QueryInv ==
    ASSUME ConfigInv, NEW k \in Regens, RegenQuery(k)
    PROVE  ConfigInv'
<1> PICK f : f = regen[k].file
    OBVIOUS
<1>1. ConfigTypeOK /\ regen \in [Regens -> RegenForm] /\ regen[k].at = "asked"
    BY ConfigTypes DEF ConfigInv, RegenQuery
<1>2. f \in Files /\ FileInv(f) /\ Wanted(f) \in Texts
    BY <1>1, TextsWhole DEF RegenForm, ConfigInv
<1>3. UNCHANGED <<peers, activeUsers, matches, conf, fresh, loaded, crossed>>
    BY DEF RegenQuery
<1>4. CASE regen' = [regen EXCEPT ![k].at = "read", ![k].lines = Wanted(f)] /\ UNCHANGED missed
    <2> DEFINE new == [regen[k] EXCEPT !.at = "read", !.lines = Wanted(f)]
    <2>1. /\ new \in RegenForm /\ new.at = "read" /\ new.file = f /\ new.lines = Wanted(f)
          /\ new.clean = regen[k].clean
        BY <1>1, <1>2 DEF RegenForm, Busy
    <2>2. regen' = [regen EXCEPT ![k] = new]
        BY <1>1, <1>4
    <2> HIDE DEF new
    <2>3. /\ regen'[k] = new /\ \A l \in Regens \ {k} : regen'[l] = regen[l]
          /\ \A l \in Regens : (ActiveOn(l, f)' <=> ActiveOn(l, f)) /\ (CleanOn(l, f)' <=> CleanOn(l, f))
          /\ ActiveOn(k, f) /\ (Sole(f)' <=> Sole(f)) /\ (Served(f)' <=> Served(f))
        BY <1>1, <1>2, <1>3, <1>4, <2>1, <2>2, SameCrew DEF Busy
    <2>4. Wanted(f)' = Wanted(f)
        BY <1>3 DEF Wanted, UserLines, SupplierLines
    <2>5. Writers(f)' = Writers(f) /\ k \in Writers(f) /\ Writers(f) \subseteq Regens
        BY <1>1, <2>1, <2>3 DEF Writers, Busy
    <2>6. Placed(f)' => Placed(f)
        BY <1>3, <2>1, <2>3 DEF Placed
    <2>7. WritesAlone(f)' /\ PlacedWhole(f)'
        BY <1>2, <1>3, <2>1, <2>3, <2>5, <2>6 DEF FileInv, WritesAlone, PlacedWhole
    <2>8. ReadsLast(f)' /\ PlacedLast(f)' /\ LoadedLast(f)'
        BY <1>2, <2>1, <2>3, <2>4, <2>5 DEF FileInv, ReadsLast, PlacedLast, LoadedLast
    <2>9. FileInv(f)'
        BY <2>7, <2>8 DEF FileInv
    <2>10. TypedFiles'
        BY <1>1, <1>3, <1>4, ConfigTypes DEF TypedFiles
    <2> QED BY <1>2, <1>3, <1>4, <2>1, <2>2, <2>9, <2>10, OwnStep
<1>5. ASSUME NEW part \in SUBSET Wanted(f), missed' = missed \cup {f},
             regen' = [Tainted(f) EXCEPT ![k].at = "read", ![k].lines = part, ![k].clean = FALSE]
      PROVE  ConfigInv'
    <2> DEFINE new == [Tainted(f)[k] EXCEPT !.at = "read", !.lines = part, !.clean = FALSE]
    <2>1. Tainted(f) \in [Regens -> RegenForm] /\ Tainted(f)[k].file = f
        BY <1>1, <1>2, TaintedOnly
    <2>2. part \in Texts
        BY <1>2 DEF Texts
    <2>3. new \in RegenForm /\ new.at = "read" /\ new.file = f /\ ~new.clean
        BY <2>1, <2>2 DEF RegenForm, Busy
    <2>4. regen' = [Tainted(f) EXCEPT ![k] = new]
        BY <1>5, <2>1
    <2> HIDE DEF new
    <2> QED BY <1>1, <1>2, <1>3, <1>5, <2>3, <2>4, FailureInv
<1>6. CASE regen' = [Tainted(f) EXCEPT ![k] = IdleRegen] /\ missed' = missed \cup {f}
    BY <1>2, <1>3, <1>6, IdleTyped, FailureInv
<1>7. \/ regen' = [regen EXCEPT ![k].at = "read", ![k].lines = Wanted(f)] /\ UNCHANGED missed
      \/ \E part \in SUBSET Wanted(f) :
            /\ regen' = [Tainted(f) EXCEPT ![k].at = "read", ![k].lines = part, ![k].clean = FALSE]
            /\ missed' = missed \cup {f}
      \/ regen' = [Tainted(f) EXCEPT ![k] = IdleRegen] /\ missed' = missed \cup {f}
    BY Zenon DEF RegenQuery
<1> QED BY <1>4, <1>5, <1>6, <1>7

LEMMA OpenInv ==
    ASSUME ConfigInv, NEW k \in Regens, RegenOpen(k)
    PROVE  ConfigInv'
<1> PICK f : f = regen[k].file
    OBVIOUS
<1>1. /\ ConfigTypeOK /\ regen \in [Regens -> RegenForm] /\ regen[k].at = "read"
      /\ fresh \in [Files -> Texts \cup {CutShort, NoNew}]
    BY ConfigTypes DEF ConfigInv, RegenOpen
<1>2. f \in Files /\ FileInv(f)
    BY <1>1 DEF RegenForm, ConfigInv
<1>3. /\ fresh' = [fresh EXCEPT ![f] = CutShort] /\ regen' = [regen EXCEPT ![k].at = "open", ![k].handle = "new"]
      /\ UNCHANGED <<peers, activeUsers, matches, conf, loaded, crossed, missed>>
    BY DEF RegenOpen
<1> DEFINE new == [regen[k] EXCEPT !.at = "open", !.handle = "new"]
<1>4. /\ new \in RegenForm /\ new.at = "open" /\ new.file = f /\ new.lines = regen[k].lines
      /\ new.clean = regen[k].clean /\ new.handle = "new"
    BY <1>1 DEF RegenForm, Busy
<1>5. regen' = [regen EXCEPT ![k] = new]
    BY <1>1, <1>3
<1> HIDE DEF new
<1>6. /\ regen'[k] = new /\ \A l \in Regens \ {k} : regen'[l] = regen[l]
      /\ \A l \in Regens : (ActiveOn(l, f)' <=> ActiveOn(l, f)) /\ (CleanOn(l, f)' <=> CleanOn(l, f))
      /\ ActiveOn(k, f) /\ (Sole(f)' <=> Sole(f)) /\ (Served(f)' <=> Served(f))
    BY <1>1, <1>2, <1>3, <1>4, <1>5, SameCrew DEF Busy
<1>7. Wanted(f)' = Wanted(f)
    BY <1>3 DEF Wanted, UserLines, SupplierLines
<1>8. Writers(f)' = Writers(f) /\ k \in Writers(f) /\ Writers(f) \subseteq Regens
    BY <1>1, <1>4, <1>6 DEF Writers, Busy
<1>9. Placed(f)' => Placed(f)
    BY <1>3, <1>4, <1>6 DEF Placed
<1>10. WritesAlone(f)' /\ PlacedWhole(f)'
    BY <1>2, <1>3, <1>4, <1>6, <1>8, <1>9 DEF FileInv, WritesAlone, PlacedWhole
<1>11. ReadsLast(f)' /\ PlacedLast(f)' /\ LoadedLast(f)'
    BY <1>1, <1>2, <1>4, <1>6, <1>7, <1>8 DEF FileInv, ReadsLast, PlacedLast, LoadedLast
<1>12. FileInv(f)'
    BY <1>10, <1>11 DEF FileInv
<1>13. TypedFiles' /\ \A g \in Files \ {f} : fresh'[g] = fresh[g]
    BY <1>1, <1>3, ConfigTypes DEF TypedFiles
<1> QED BY <1>2, <1>3, <1>4, <1>5, <1>12, <1>13, OwnStep

LEMMA ConfigWriteInv ==
    ASSUME ConfigInv, NEW k \in Regens, RegenWrite(k)
    PROVE  ConfigInv'
<1> PICK f : f = regen[k].file
    OBVIOUS
<1> DEFINE both == \E l \in Regens \ {k} : /\ regen[l].file = f /\ regen[l].handle = regen[k].handle
                                           /\ regen[l].at \in {"open", "written"}
<1>1. /\ ConfigTypeOK /\ regen \in [Regens -> RegenForm] /\ regen[k].at = "open"
      /\ fresh \in [Files -> Texts \cup {CutShort, NoNew}] /\ conf \in [Files -> Texts \cup {CutShort}]
    BY ConfigTypes DEF ConfigInv, RegenWrite
<1>2. f \in Files /\ FileInv(f) /\ regen[k].lines \in Texts
    BY <1>1 DEF RegenForm, ConfigInv
<1>3. PICK lines \in {regen[k].lines} \cup (IF both THEN {CutShort} ELSE {}) :
         /\ fresh' = IF regen[k].handle = "new" THEN [fresh EXCEPT ![f] = lines] ELSE fresh
         /\ conf' = IF regen[k].handle = "conf" THEN [conf EXCEPT ![f] = lines] ELSE conf
    BY DEF RegenWrite
<1>4. /\ regen' = [regen EXCEPT ![k].at = "written"]
      /\ UNCHANGED <<peers, activeUsers, matches, loaded, crossed, missed>>
    BY DEF RegenWrite
<1>5. lines \in Texts \cup {CutShort} /\ (~both => lines = regen[k].lines)
    BY <1>2
<1> HIDE DEF both
<1> DEFINE new == [regen[k] EXCEPT !.at = "written"]
<1>6. /\ new \in RegenForm /\ new.at = "written" /\ new.file = f /\ new.lines = regen[k].lines
      /\ new.clean = regen[k].clean /\ new.handle = regen[k].handle
    BY <1>1 DEF RegenForm, Busy
<1>7. regen' = [regen EXCEPT ![k] = new]
    BY <1>1, <1>4
<1> HIDE DEF new
<1>8. /\ regen'[k] = new /\ \A l \in Regens \ {k} : regen'[l] = regen[l]
      /\ \A l \in Regens : (ActiveOn(l, f)' <=> ActiveOn(l, f)) /\ (CleanOn(l, f)' <=> CleanOn(l, f))
      /\ ActiveOn(k, f) /\ (Sole(f)' <=> Sole(f)) /\ (Served(f)' <=> Served(f))
    BY <1>1, <1>2, <1>4, <1>6, <1>7, SameCrew DEF Busy
<1>9. Wanted(f)' = Wanted(f)
    BY <1>4 DEF Wanted, UserLines, SupplierLines
<1>10. Writers(f)' = Writers(f) /\ k \in Writers(f) /\ Writers(f) \subseteq Regens
    BY <1>1, <1>6, <1>8 DEF Writers, Busy
<1>11. Placed(f)' => Placed(f)
    BY <1>4, <1>6, <1>8 DEF Placed
<1>12. Sole(f) => /\ ~both /\ regen[k].handle = "new" /\ fresh'[f] = regen[k].lines /\ conf' = conf
    <2> SUFFICES ASSUME Sole(f) PROVE ~both /\ regen[k].handle = "new" /\ fresh'[f] = regen[k].lines /\ conf' = conf
        OBVIOUS
    <2>1. regen[k].handle = "new" /\ \A l \in Writers(f) : l = k
        BY <1>1, <1>2, <1>10 DEF FileInv, WritesAlone
    <2>2. ~both
        BY <2>1 DEF Writers, Busy, both
    <2> QED BY <1>1, <1>2, <1>3, <1>5, <2>1, <2>2
<1>13. WritesAlone(f)'
    BY <1>2, <1>6, <1>8, <1>10, <1>12 DEF FileInv, WritesAlone
<1>14. PlacedWhole(f)'
    <2>1. Placed(f) => Sole(f)
        BY DEF Placed, Sole
    <2> QED BY <1>2, <1>11, <1>12, <2>1 DEF FileInv, PlacedWhole
<1>15. ReadsLast(f)' /\ PlacedLast(f)' /\ LoadedLast(f)'
    BY <1>1, <1>2, <1>6, <1>8, <1>9, <1>10 DEF FileInv, ReadsLast, PlacedLast, LoadedLast
<1>16. FileInv(f)'
    BY <1>13, <1>14, <1>15 DEF FileInv
<1>17. TypedFiles' /\ \A g \in Files \ {f} : fresh'[g] = fresh[g] /\ conf'[g] = conf[g]
    BY <1>1, <1>3, <1>4, <1>5, ConfigTypes DEF TypedFiles
<1> QED BY <1>2, <1>4, <1>6, <1>7, <1>16, <1>17, OwnStep

LEMMA ConfigRenameInv ==
    ASSUME ConfigInv, NEW k \in Regens, RegenRename(k)
    PROVE  ConfigInv'
<1> PICK f : f = regen[k].file
    OBVIOUS
<1> DEFINE moved == [l \in Regens |->
                       IF regen[l].file # f THEN regen[l]
                       ELSE [regen[l] EXCEPT !.handle = IF @ = "new" THEN "conf" ELSE "gone"]]
<1>1. /\ ConfigTypeOK /\ regen \in [Regens -> RegenForm] /\ regen[k].at = "written"
      /\ fresh \in [Files -> Texts \cup {CutShort, NoNew}] /\ conf \in [Files -> Texts \cup {CutShort}]
    BY ConfigTypes DEF ConfigInv, RegenRename
<1>2. f \in Files /\ FileInv(f) /\ regen[k].lines \in Texts
    BY <1>1 DEF RegenForm, ConfigInv
<1>3. UNCHANGED <<peers, activeUsers, matches, loaded, crossed>>
    BY DEF RegenRename
<1>4. CASE fresh[f] = NoNew
    <2>1. regen' = [Tainted(f) EXCEPT ![k] = IdleRegen] /\ missed' = missed \cup {f} /\ UNCHANGED <<conf, fresh>>
        BY <1>4 DEF RegenRename
    <2> QED BY <1>2, <1>3, <2>1, IdleTyped, FailureInv
<1>5. CASE fresh[f] # NoNew
    <2>1. /\ conf' = [conf EXCEPT ![f] = fresh[f]] /\ fresh' = [fresh EXCEPT ![f] = NoNew]
          /\ regen' = [moved EXCEPT ![k].at = "placed"] /\ missed' = missed
        BY <1>5, Zenon DEF RegenRename
    <2>2. /\ moved \in [Regens -> RegenForm]
          /\ \A l \in Regens : /\ moved[l].at = regen[l].at /\ moved[l].file = regen[l].file
                               /\ moved[l].lines = regen[l].lines /\ moved[l].clean = regen[l].clean
                               /\ regen[l].file # f => moved[l] = regen[l]
        <3>1. \A l \in Regens : [regen[l] EXCEPT !.handle = IF @ = "new" THEN "conf" ELSE "gone"] \in RegenForm
            BY <1>1 DEF RegenForm
        <3> QED BY <1>1, <3>1 DEF RegenForm
    <2> HIDE DEF moved
    <2> DEFINE new == [moved[k] EXCEPT !.at = "placed"]
    <2>3. /\ new \in RegenForm /\ new.at = "placed" /\ new.file = f /\ new.clean = regen[k].clean
        BY <2>2 DEF RegenForm, Busy
    <2>4. regen' = [moved EXCEPT ![k] = new]
        BY <2>1, <2>2
    <2> HIDE DEF new
    <2>5. /\ regen' \in [Regens -> RegenForm] /\ regen'[k] = new
          /\ \A l \in Regens \ {k} : regen'[l] = moved[l]
        BY <2>2, <2>3, <2>4
    <2>6. ConfigTypeOK'
        <3>1. TypedFiles'
            BY <1>1, <1>2, <1>3, <1>5, <2>1, ConfigTypes DEF TypedFiles
        <3> QED BY <1>1, <1>3, <2>5, <3>1 DEF ConfigTypeOK, RegenForm, TypedFiles
    <2>7. \A l \in Regens : (ActiveOn(l, f)' <=> ActiveOn(l, f)) /\ (CleanOn(l, f)' <=> CleanOn(l, f))
        BY <1>1, <2>2, <2>3, <2>5 DEF ActiveOn, CleanOn
    <2>8. ActiveOn(k, f)
        BY <1>1 DEF ActiveOn
    <2>9. /\ Writers(f)' = Writers(f) \ {k} /\ k \in Writers(f) /\ Writers(f) \subseteq Regens
          /\ \A l \in Writers(f)' : regen'[l].at = regen[l].at /\ regen'[l].lines = regen[l].lines
        BY <1>1, <2>2, <2>3, <2>5 DEF Writers, Busy
    <2>10. (Sole(f)' <=> Sole(f)) /\ (Served(f)' <=> Served(f))
        BY <1>3, <2>1, <2>7 DEF Sole, Served
    <2>11. /\ Placed(f)' => Sole(f)
           /\ ServedAndPlaced(f)' => Served(f) /\ Sole(f)
        BY <1>3, <2>1, <2>7 DEF Placed, Sole, Served, ServedAndPlaced
    <2>12. conf'[f] = fresh[f]
        BY <1>1, <1>2, <2>1
    <2>13. Sole(f) => Writers(f)' = {} /\ fresh[f] = regen[k].lines
        BY <1>1, <1>2, <2>9 DEF FileInv, WritesAlone
    <2>14. Wanted(f)' = Wanted(f)
        BY <1>3 DEF Wanted, UserLines, SupplierLines
    <2>15. WritesAlone(f)'
        BY <2>10, <2>13 DEF WritesAlone
    <2>16. PlacedWhole(f)'
        BY <1>2, <2>11, <2>12, <2>13, TextsWhole DEF PlacedWhole
    <2>17. ReadsLast(f)'
        BY <1>2, <2>9, <2>10, <2>14 DEF FileInv, ReadsLast
    <2>18. PlacedLast(f)'
        <3>1. Served(f) => regen[k].lines = Wanted(f)
            BY <1>1, <1>2, <2>9 DEF FileInv, ReadsLast
        <3> QED BY <2>11, <2>12, <2>13, <2>14, <3>1 DEF PlacedLast
    <2>19. LoadedLast(f)'
        BY <2>7, <2>8 DEF LoadedLast
    <2>20. FileInv(f)'
        BY <2>15, <2>16, <2>17, <2>18, <2>19 DEF FileInv
    <2>21. \A l \in Regens : IF regen[l].file = f THEN regen'[l].file = f \/ regen'[l].at = "off"
                             ELSE regen'[l] = regen[l]
        BY <2>2, <2>3, <2>5
    <2>22. \A g \in Files \ {f} : conf'[g] = conf[g] /\ fresh'[g] = fresh[g]
        BY <1>1, <2>1
    <2> QED BY <1>2, <1>3, <2>1, <2>6, <2>20, <2>21, <2>22, OwnFile
<1> QED BY <1>4, <1>5

LEMMA ReloadInv ==
    ASSUME ConfigInv, NEW k \in Regens, RegenReload(k)
    PROVE  ConfigInv'
<1> PICK f : f = regen[k].file
    OBVIOUS
<1>1. /\ ConfigTypeOK /\ regen \in [Regens -> RegenForm] /\ regen[k].at = "placed"
      /\ conf \in [Files -> Texts \cup {CutShort}] /\ crossed \subseteq Files /\ missed \subseteq Files
    BY ConfigTypes DEF ConfigInv, RegenReload
<1>2. f \in Files /\ FileInv(f)
    BY <1>1 DEF RegenForm, ConfigInv
<1>3. UNCHANGED <<peers, activeUsers, matches, conf, fresh>>
    BY DEF RegenReload
<1>4. CASE /\ loaded' = conf /\ regen' = [regen EXCEPT ![k] = IdleRegen]
           /\ crossed' = IF regen[k].clean THEN crossed \ {f} ELSE crossed
           /\ missed' = IF regen[k].clean THEN missed \ {f} ELSE missed
    <2>1. regen'[k] = IdleRegen /\ \A l \in Regens \ {k} : regen'[l] = regen[l]
        BY <1>1, <1>4
    <2>2. TypedFiles'
        BY <1>1, <1>3, <1>4, ConfigTypes DEF TypedFiles
    <2>3. /\ Writers(f)' = Writers(f) /\ Writers(f) \subseteq Regens \ {k}
        BY <1>1, <2>1, IdleTyped DEF Writers, Busy
    <2>4. \A l \in Regens : CleanOn(l, f)' => CleanOn(l, f)
        BY <2>1, IdleTyped DEF CleanOn, ActiveOn
    <2>5. regen[k].clean => CleanOn(k, f)
        BY <1>1 DEF CleanOn, ActiveOn
    <2>6. /\ Sole(f)' => Sole(f)
          /\ Placed(f)' => Placed(f)
          /\ Served(f)' => Served(f)
          /\ ServedAndPlaced(f)' => ServedAndPlaced(f)
        <3>1. \A l \in Regens : CleanOn(l, f)' => l # k
            BY <2>1, IdleTyped DEF CleanOn
        <3>2. CASE regen[k].clean
            BY <1>1, <2>5, <3>2 DEF Sole, Placed, Served, ServedAndPlaced
        <3>3. CASE ~regen[k].clean
            BY <1>4, <2>1, <2>4, <3>1, <3>3 DEF Sole, Placed, Served, ServedAndPlaced
        <3> QED BY <3>2, <3>3
    <2>7. Wanted(f)' = Wanted(f)
        BY <1>3 DEF Wanted, UserLines, SupplierLines
    <2>8. WritesAlone(f)' /\ PlacedWhole(f)'
        BY <1>2, <1>3, <2>1, <2>3, <2>6 DEF FileInv, WritesAlone, PlacedWhole
    <2>9. ReadsLast(f)' /\ PlacedLast(f)'
        BY <1>2, <1>3, <2>1, <2>3, <2>6, <2>7 DEF FileInv, ReadsLast, PlacedLast
    <2>10. LoadedLast(f)'
        <3> SUFFICES ASSUME f \notin crossed' \cup missed', \A l \in Regens : ~ActiveOn(l, f)'
                     PROVE  loaded'[f] = Wanted(f)
            BY <2>7 DEF LoadedLast
        <3>1. ServedAndPlaced(f)'
            BY DEF ServedAndPlaced
        <3>2. Writers(f)' = {}
            BY <2>3 DEF Writers, ActiveOn, Busy
        <3> QED BY <1>4, <2>3, <2>6, <3>1, <3>2, <1>2 DEF FileInv, PlacedLast
    <2>11. FileInv(f)'
        BY <2>8, <2>9, <2>10 DEF FileInv
    <2>12. \A g \in Files \ {f} : /\ g \in crossed' <=> g \in crossed
                                  /\ g \in missed' <=> g \in missed
        BY <1>4
    <2> QED BY <1>2, <1>3, <1>4, <2>2, <2>11, <2>12, IdleTyped, OwnStep
<1>5. CASE /\ regen' = [Tainted(f) EXCEPT ![k] = IdleRegen] /\ missed' = missed \cup {f}
           /\ UNCHANGED <<loaded, crossed>>
    BY <1>2, <1>3, <1>5, IdleTyped, FailureInv
<1>6. \/ /\ loaded' = conf /\ regen' = [regen EXCEPT ![k] = IdleRegen]
         /\ crossed' = IF regen[k].clean THEN crossed \ {f} ELSE crossed
         /\ missed' = IF regen[k].clean THEN missed \ {f} ELSE missed
      \/ /\ regen' = [Tainted(f) EXCEPT ![k] = IdleRegen] /\ missed' = missed \cup {f}
         /\ UNCHANGED <<loaded, crossed>>
    BY Zenon DEF RegenReload
<1> QED BY <1>4, <1>5, <1>6

\* didapi starts again: no goroutine survives but the one for the suppliers' file.
LEMMA ConfigRestartInv ==
    ASSUME ConfigInv, NEW k \in Regens, ConfigRestart(k)
    PROVE  ConfigInv'
<1> DEFINE new == [IdleRegen EXCEPT !.at = "asked", !.file = "suppliers", !.clean = TRUE]
<1>1. ConfigTypeOK /\ regen \in [Regens -> RegenForm] /\ missed \subseteq Files
    BY ConfigTypes DEF ConfigInv
<1>2. new \in RegenForm /\ new.at = "asked" /\ new.file = "suppliers"
    BY IdleTyped DEF RegenForm, IdleRegen, Busy, Files
<1>3. /\ regen' = [l \in Regens |-> IF l = k THEN new ELSE IdleRegen]
      /\ missed' = missed \cup {regen[l].file : l \in {x \in Regens : regen[x].at # "off"}}
      /\ UNCHANGED <<peers, activeUsers, matches, conf, fresh, loaded, crossed>>
    BY DEF ConfigRestart
<1> HIDE DEF new
<1>4. ConfigTypeOK'
    <2>1. missed' \subseteq Files /\ regen' \in [Regens -> RegenForm]
        BY <1>1, <1>2, <1>3, IdleTyped DEF RegenForm
    <2> QED BY <1>1, <1>3, <2>1 DEF ConfigTypeOK, RegenForm
<1>5. ASSUME NEW f \in Files PROVE FileInv(f)'
    <2>1. FileInv(f)
        BY DEF ConfigInv
    <2>2. Writers(f)' \subseteq {k} /\ \A l \in Writers(f)' : regen'[l].at = "asked"
        BY <1>2, <1>3, IdleTyped DEF Writers, Busy
    <2>3. \A l \in Regens : CleanOn(l, f)' => l = k /\ k \in Writers(f)' /\ regen'[l].at = "asked"
        BY <1>2, <1>3, IdleTyped DEF CleanOn, ActiveOn, Writers, Busy
    <2>4. f \notin missed' => \A l \in Regens : ~ActiveOn(l, f)
        BY <1>3 DEF ActiveOn
    <2>5. Placed(f)' => Placed(f)
        BY <1>3, <2>3 DEF Placed
    <2>6. Wanted(f)' = Wanted(f)
        BY <1>3 DEF Wanted, UserLines, SupplierLines
    <2>7. WritesAlone(f)' /\ PlacedWhole(f)' /\ ReadsLast(f)'
        BY <1>3, <2>1, <2>2, <2>5 DEF FileInv, WritesAlone, PlacedWhole, ReadsLast
    <2>8. PlacedLast(f)'
        <3> SUFFICES ASSUME ServedAndPlaced(f)' PROVE conf'[f] = Wanted(f)
            BY <2>6 DEF PlacedLast
        <3>1. f \notin crossed \cup missed'
            BY <1>3, <2>3 DEF ServedAndPlaced
        <3>2. f \notin crossed \cup missed /\ Writers(f) = {}
            BY <1>3, <2>4, <3>1 DEF Writers, ActiveOn, Busy
        <3> QED BY <1>3, <2>1, <3>2 DEF FileInv, PlacedLast, ServedAndPlaced
    <2>9. LoadedLast(f)'
        <3> SUFFICES ASSUME f \notin crossed' \cup missed' PROVE loaded'[f] = Wanted(f)
            BY <2>6 DEF LoadedLast
        <3>1. f \notin crossed \cup missed /\ \A l \in Regens : ~ActiveOn(l, f)
            BY <1>3, <2>4
        <3> QED BY <1>3, <2>1, <3>1 DEF FileInv, LoadedLast
    <2> QED BY <2>7, <2>8, <2>9 DEF FileInv
<1> QED BY <1>4, <1>5 DEF ConfigInv

LEMMA ConfigIdle ==
    ASSUME ConfigInv, UNCHANGED configVars
    PROVE  ConfigInv'
<1>1. UNCHANGED <<peers, activeUsers, matches, conf, fresh, regen, loaded, crossed, missed>>
    BY DEF configVars
<1>2. ConfigTypeOK'
    BY <1>1 DEF ConfigInv, ConfigTypeOK
<1>3. ASSUME NEW f \in Files PROVE FileInv(f)'
    <2>1. Wanted(f)' = Wanted(f)
        BY <1>1 DEF Wanted, UserLines, SupplierLines
    <2>2. \A l \in Regens : ActiveOn(l, f)' <=> ActiveOn(l, f)
        BY <1>1 DEF ActiveOn
    <2> QED BY <1>1, <2>1, <2>2, OtherFile DEF ConfigInv
<1> QED BY <1>2, <1>3 DEF ConfigInv

LEMMA ConfigInvariant == ConfigSpec => []ConfigInv
<1>1. ASSUME ConfigInv, [ConfigNext]_configVars PROVE ConfigInv'
    <2>1. CASE \E u \in PeerUsers : UserStatus(u)
        BY <1>1, <2>1, UserStatusInv
    <2>2. ASSUME NEW k \in Regens,
                 \/ RegenQuery(k) \/ RegenOpen(k) \/ RegenWrite(k) \/ RegenRename(k) \/ RegenReload(k)
                 \/ ConfigRestart(k)
          PROVE  ConfigInv'
        BY <1>1, <2>2, QueryInv, OpenInv, ConfigWriteInv, ConfigRenameInv, ReloadInv, ConfigRestartInv
    <2>3. ASSUME NEW k \in Regens,
                 \/ \E a \in Peers : PeerAdd(k, a) \/ PeerDelete(k, a)
                 \/ \E m \in Matches : MemberDelete(k, m) \/ \E n \in Matches : MemberEdit(k, m, n)
                 \/ \E ms \in SUBSET Matches : MembersAdd(k, ms) \/ GroupOfMembersDelete(k, ms)
          PROVE  ConfigInv'
        BY <1>1, <2>3, HandlersInv
    <2>4. CASE UNCHANGED configVars
        BY <1>1, <2>4, ConfigIdle
    <2> QED BY <1>1, <2>1, <2>2, <2>3, <2>4 DEF ConfigNext
<1> QED BY <1>1, ConfigInitInv, PTL DEF ConfigSpec

\* The two files and their goroutines keep their types.
THEOREM ConfigTypeCorrect == ConfigSpec => []ConfigTypeOK
<1>1. ConfigInv => ConfigTypeOK
    BY DEF ConfigInv
<1> QED BY <1>1, ConfigInvariant, PTL

\* Unless two goroutines write one file at the same time, neither generated file is ever
\* cut short, wherever didapi is stopped: os.WriteFile goes to <file>.new and os.Rename puts
\* it in place whole (regenPJSIPUsers, regenPJSIPSuppliers).
THEOREM FilesStayWhole == ConfigSpec => []ConfigIntact
<1>1. ConfigInv => ConfigIntact
    BY DEF ConfigInv, FileInv, PlacedWhole, Placed, ConfigIntact
<1> QED BY <1>1, ConfigInvariant, PTL

\* When the goroutines have ended, Asterisk runs what the rows say of every file that was
\* written by one goroutine at a time, with every one carried through.
THEOREM AsteriskFollows == ConfigSpec => []ConfigCatchesUp
<1>1. ConfigInv => ConfigCatchesUp
    BY DEF ConfigInv, FileInv, LoadedLast, ConfigCatchesUp, ActiveOn
<1> QED BY <1>1, ConfigInvariant, PTL

-----------------------------------------------------------------------------
(* The import of DIDs.  What is known of a job, whatever its readers do; of *)
(* the numbers it owns; and of the connections that stream it.             *)

EntryForm == [number : Numbers, country : BOOLEAN]
ImportForm ==
    [status : Status, pc : Places, entries : Seq(EntryForm), warnings : Nat, pos : Nat \ {0},
     added : Nat, skipped : Nat, errors : Nat, processed : Nat,
     out : Kinds \cup {NoEvent}, events : Seq(Kinds), closed : BOOLEAN, waits : 0..Deadline,
     late : BOOLEAN, lost : BOOLEAN, panicked : BOOLEAN]
ReaderForm ==
    [job : Imports \cup {Nobody}, last : Kinds \cup {NoEvent}, state : {"off", "on", "closed", "gone"}]

\* Nothing was counted before the first row, and warnings as errors before that.
Uncounted(m) ==
    m.pc \in {"none", "start", "warn"} =>
        /\ m.added = 0 /\ m.skipped = 0 /\ m.processed = 0 /\ ~m.panicked
        /\ m.errors <= IF m.pc = "warn" THEN m.warnings ELSE 0

\* Where the worker is says what the status is.
StatusAtPlace(m) ==
    /\ m.status = "none" <=> m.pc = "none"
    /\ m.status = "pending" <=> m.pc = "start"
    /\ m.status = "running" <=> m.pc \in {"warn", "check", "row", "count"}

Position(m) ==
    /\ m.pos <= Len(m.entries) + 1 /\ m.processed = m.pos - 1
    /\ m.pc \in {"row", "count"} => m.pos <= Len(m.entries)

Warned(m) == IF m.pc \in {"none", "start", "warn"} THEN m.errors ELSE m.warnings
Halfway(m) == IF m.pc = "count" THEN 1 ELSE 0

AddsUp(m) ==
    ~m.panicked =>
        /\ m.added + m.skipped + m.errors = m.processed + Warned(m) + Halfway(m)
        /\ m.status = "done" => m.processed = Len(m.entries)

\* The worker has nothing to send after the done event, which it closes the channel behind.
DoneSent(m) == m.pc = "ended" \/ (m.pc = "close" /\ m.out = NoEvent)

LastWords(m) ==
    /\ m.closed <=> m.pc = "ended"
    /\ m.pc = "ended" => m.out = NoEvent
    /\ m.pc = "close" => m.out \in {"done", NoEvent}
    /\ DoneSent(m) /\ m.waits = 0 /\ m.events # <<>> => m.events[Len(m.events)] = "done"

JobInv(m) == Uncounted(m) /\ StatusAtPlace(m) /\ Position(m) /\ AddsUp(m) /\ LastWords(m)

\* The numbers a job owns are those it added, or of which it lost the answer.
Own(j) == {n \in Numbers : table[n] = j}
OwnInv(j) ==
    /\ IsFiniteSet(Own(j))
    /\ imports[j].added <= Cardinality(Own(j))
    /\ imports[j].lost \/ imports[j].added = Cardinality(Own(j))

RegistryInv(j) == imports[j].status \in {"pending", "running"} => j \in registry

\* The done event was sent, nothing was dropped, and somebody took every event.
Drained(m) == DoneSent(m) /\ m.waits = 0 /\ m.events = <<>>

Alone(r) == \A s \in Readers \ {r} : reader[s].job # reader[r].job

StreamInv(j) ==
    /\ Drained(imports[j]) => \E r \in Readers : reader[r].job = j
    /\ \A r \in Readers :
          reader[r].job = j =>
             /\ reader[r].state # "off"
             /\ reader[r].state = "closed" => imports[j].closed /\ imports[j].events = <<>>
             /\ Drained(imports[j]) /\ Alone(r) /\ reader[r].state \in {"on", "closed"}
                   => reader[r].last = "done"

ImportTypes ==
    /\ imports \in [Imports -> ImportForm] /\ registry \subseteq Imports
    /\ table \in [Numbers -> Imports \cup {Nobody, Legacy}] /\ reader \in [Readers -> ReaderForm]
    /\ \A r \in Readers : reader[r].state = "off" <=> reader[r].job = Nobody

ImportInv ==
    /\ ImportTypes
    /\ \A j \in Imports : JobInv(imports[j]) /\ OwnInv(j) /\ RegistryInv(j) /\ StreamInv(j)

-----------------------------------------------------------------------------
(* Steps of one job *)

\* What a step of its own leaves of a job for its readers ...
Onward(m, n) ==
    /\ m.status \in Ended => n.status = m.status
    /\ m.closed => n.closed /\ n.events = m.events
    /\ Drained(n) => Drained(m)

\* ... and for the registry.
StillUnderWay(m, n) == n.status \in {"pending", "running"} => m.status \in {"pending", "running"}

JobStep(m, n) == n \in ImportForm /\ JobInv(n) /\ Onward(m, n) /\ StillUnderWay(m, n)

LEMMA JobTypes ==
    ASSUME NEW m \in ImportForm
    PROVE  /\ m.status \in Status /\ m.pc \in Places /\ m.entries \in Seq(EntryForm) /\ m.warnings \in Nat
           /\ m.pos \in Nat \ {0} /\ m.added \in Nat /\ m.skipped \in Nat /\ m.errors \in Nat
           /\ m.processed \in Nat /\ m.out \in Kinds \cup {NoEvent} /\ m.events \in Seq(Kinds)
           /\ m.closed \in BOOLEAN /\ m.waits \in 0..Deadline
           /\ m.late \in BOOLEAN /\ m.lost \in BOOLEAN /\ m.panicked \in BOOLEAN
           /\ Len(m.entries) \in Nat /\ Len(m.events) \in Nat
BY DEF ImportForm

\* didImportStart.
LEMMA StartStep ==
    ASSUME NEW m \in ImportForm, JobInv(m), m.status = "none", NEW es \in Seq(EntryForm),
           NEW w \in Nat
    PROVE  LET n == [m EXCEPT !.status = "pending", !.pc = "start", !.entries = es, !.warnings = w] IN
           n \in ImportForm /\ JobInv(n) /\ Onward(m, n)
<1> DEFINE n == [m EXCEPT !.status = "pending", !.pc = "start", !.entries = es, !.warnings = w]
<1>1. /\ n \in ImportForm
      /\ n.status = "pending" /\ n.pc = "start" /\ n.entries = es /\ n.warnings = w
      /\ n.pos = m.pos /\ n.added = m.added /\ n.skipped = m.skipped /\ n.errors = m.errors
      /\ n.processed = m.processed /\ n.out = m.out /\ n.events = m.events
      /\ n.closed = m.closed /\ n.waits = m.waits /\ n.late = m.late /\ n.lost = m.lost
      /\ n.panicked = m.panicked
    BY JobTypes DEF ImportForm, Status, Places, Kinds
<1> HIDE DEF n
<1>2. Uncounted(n) /\ StatusAtPlace(n) /\ Position(n)
    BY <1>1, JobTypes DEF JobInv, Uncounted, StatusAtPlace, Position, NoEvent
<1>3. AddsUp(n)
    BY <1>1, JobTypes DEF JobInv, Uncounted, StatusAtPlace, Position, AddsUp, Warned, Halfway, NoEvent
<1>4. LastWords(n)
    BY <1>1, JobTypes DEF JobInv, StatusAtPlace, LastWords, DoneSent, NoEvent
<1>5. Onward(m, n)
    BY <1>1, JobTypes
       DEF JobInv, Onward, StatusAtPlace, LastWords, Drained, DoneSent, Ended, StillUnderWay, NoEvent
<1> QED BY <1>1, <1>2, <1>3, <1>4, <1>5 DEF JobInv, n

\* The worker begins.
LEMMA BeginStep ==
    ASSUME NEW m \in ImportForm, JobInv(m), m.pc = "start", m.out = NoEvent
    PROVE  JobStep(m, [m EXCEPT !.status = "running", !.out = "init", !.pc = "warn"])
<1> DEFINE n == [m EXCEPT !.status = "running", !.out = "init", !.pc = "warn"]
<1>1. n \in ImportForm
    BY JobTypes DEF ImportForm, Status, Places, Kinds
<1>2. JobInv(n)
    BY JobTypes DEF ImportForm,
       JobInv, Uncounted, StatusAtPlace, Position, AddsUp, LastWords, Warned, Halfway, DoneSent, NoEvent
<1>3. Onward(m, n) /\ StillUnderWay(m, n)
    BY JobTypes DEF ImportForm, JobInv, Onward, StatusAtPlace, LastWords, Drained, DoneSent, Ended,
       StillUnderWay, NoEvent
<1> QED BY <1>1, <1>2, <1>3 DEF JobStep

\* One warning more.
LEMMA WarnStep ==
    ASSUME NEW m \in ImportForm, JobInv(m), m.pc = "warn", m.out = NoEvent,
           m.errors < m.warnings
    PROVE  JobStep(m, [m EXCEPT !.errors = @ + 1, !.out = "row"])
<1> DEFINE n == [m EXCEPT !.errors = @ + 1, !.out = "row"]
<1>1. m.errors + 1 \in Nat
    BY JobTypes
<1>2. /\ n \in ImportForm
      /\ n.status = m.status /\ n.pc = m.pc /\ n.entries = m.entries
      /\ n.warnings = m.warnings /\ n.pos = m.pos /\ n.added = m.added
      /\ n.skipped = m.skipped /\ n.errors = m.errors + 1 /\ n.processed = m.processed
      /\ n.out = "row" /\ n.events = m.events /\ n.closed = m.closed /\ n.waits = m.waits
      /\ n.late = m.late /\ n.lost = m.lost /\ n.panicked = m.panicked
    BY <1>1, JobTypes DEF ImportForm, Status, Places, Kinds
<1> HIDE DEF n
<1>3. Uncounted(n) /\ StatusAtPlace(n) /\ Position(n)
    BY <1>1, <1>2, JobTypes DEF JobInv, Uncounted, StatusAtPlace, Position, NoEvent
<1>4. AddsUp(n)
    <2> SUFFICES ASSUME ~n.panicked
                 PROVE  /\ n.added + n.skipped + n.errors = n.processed + Warned(n) + Halfway(n)
                        /\ n.status = "done" => n.processed = Len(n.entries)
        BY DEF AddsUp
    <2>1. m.added + m.skipped + m.errors = m.processed + Warned(m) + Halfway(m)
        BY <1>2 DEF JobInv, AddsUp
    <2>2. Warned(m) = m.errors /\ Warned(n) = m.errors + 1 /\ Halfway(m) = 0 /\ Halfway(n) = 0
        BY <1>2 DEF Warned, Halfway
    <2>3. n.added + n.skipped + n.errors = n.processed + Warned(n) + Halfway(n)
        <3>1. /\ m.added \in Int /\ m.skipped \in Int /\ m.errors \in Int /\ m.processed \in Int
              /\ m.warnings \in Int
            BY JobTypes
        <3>2. n.added = m.added /\ n.skipped = m.skipped /\ n.errors = m.errors + 1 /\ n.processed = m.processed
            BY <1>2
        <3> QED BY <2>1, <2>2, <3>1, <3>2, SMTT(40)
    <2>4. n.status # "done"
        BY <1>2, JobTypes DEF JobInv, StatusAtPlace
    <2> QED BY <2>3, <2>4
<1>5. LastWords(n)
    BY <1>1, <1>2, JobTypes DEF JobInv, StatusAtPlace, LastWords, DoneSent, NoEvent
<1>6. Onward(m, n) /\ StillUnderWay(m, n)
    BY <1>1, <1>2, JobTypes
       DEF JobInv, Onward, StatusAtPlace, LastWords, Drained, DoneSent, Ended, StillUnderWay, NoEvent
<1> QED BY <1>2, <1>3, <1>4, <1>5, <1>6 DEF JobInv, JobStep, n

\* No warning more.
LEMMA WarnedStep ==
    ASSUME NEW m \in ImportForm, JobInv(m), m.pc = "warn", m.out = NoEvent,
           ~(m.errors < m.warnings)
    PROVE  JobStep(m, [m EXCEPT !.pc = "check"])
<1> DEFINE n == [m EXCEPT !.pc = "check"]
<1>1. /\ n \in ImportForm
      /\ n.status = m.status /\ n.pc = "check" /\ n.entries = m.entries
      /\ n.warnings = m.warnings /\ n.pos = m.pos /\ n.added = m.added
      /\ n.skipped = m.skipped /\ n.errors = m.errors /\ n.processed = m.processed
      /\ n.out = m.out /\ n.events = m.events /\ n.closed = m.closed /\ n.waits = m.waits
      /\ n.late = m.late /\ n.lost = m.lost /\ n.panicked = m.panicked
    BY JobTypes DEF ImportForm, Status, Places, Kinds
<1> HIDE DEF n
<1>2. Uncounted(n) /\ StatusAtPlace(n) /\ Position(n)
    BY <1>1, JobTypes DEF JobInv, Uncounted, StatusAtPlace, Position, NoEvent
<1>3. AddsUp(n)
    <2>1. m.errors = m.warnings
        BY JobTypes DEF JobInv, Uncounted
    <2>2. Warned(m) = Warned(n) /\ Halfway(m) = Halfway(n)
        BY <1>1, <2>1 DEF Warned, Halfway
    <2> QED BY <1>1, <2>2 DEF JobInv, AddsUp
<1>4. LastWords(n)
    BY <1>1, JobTypes DEF JobInv, StatusAtPlace, LastWords, DoneSent, NoEvent
<1>5. Onward(m, n) /\ StillUnderWay(m, n)
    BY <1>1, JobTypes
       DEF JobInv, Onward, StatusAtPlace, LastWords, Drained, DoneSent, Ended, StillUnderWay, NoEvent
<1> QED BY <1>1, <1>2, <1>3, <1>4, <1>5 DEF JobInv, JobStep, n

\* The ticker.
LEMMA ProgressStep ==
    ASSUME NEW m \in ImportForm, JobInv(m), m.pc = "check", m.out = NoEvent,
           m.pos <= Len(m.entries)
    PROVE  JobStep(m, [m EXCEPT !.out = "progress", !.pc = "row"])
<1> DEFINE n == [m EXCEPT !.out = "progress", !.pc = "row"]
<1>1. n \in ImportForm
    BY JobTypes DEF ImportForm, Status, Places, Kinds
<1>2. JobInv(n)
    BY JobTypes DEF ImportForm,
       JobInv, Uncounted, StatusAtPlace, Position, AddsUp, LastWords, Warned, Halfway, DoneSent, NoEvent
<1>3. Onward(m, n) /\ StillUnderWay(m, n)
    BY JobTypes DEF ImportForm, JobInv, Onward, StatusAtPlace, LastWords, Drained, DoneSent, Ended,
       StillUnderWay, NoEvent
<1> QED BY <1>1, <1>2, <1>3 DEF JobStep

\* The context is over.
LEMMA CancelStep ==
    ASSUME NEW m \in ImportForm, JobInv(m), m.pc = "check", m.out = NoEvent
    PROVE  JobStep(m, Cancelled(m))
<1> DEFINE n == Cancelled(m)
<1>1. n \in ImportForm
    BY JobTypes DEF ImportForm, Status, Places, Kinds, Cancelled
<1>2. JobInv(n)
    BY JobTypes DEF ImportForm, Cancelled,
       JobInv, Uncounted, StatusAtPlace, Position, AddsUp, LastWords, Warned, Halfway, DoneSent, NoEvent
<1>3. Onward(m, n) /\ StillUnderWay(m, n)
    BY JobTypes DEF ImportForm, Cancelled, JobInv, Onward, StatusAtPlace, LastWords, Drained, DoneSent, Ended,
       StillUnderWay, NoEvent
<1> QED BY <1>1, <1>2, <1>3 DEF JobStep

\* The deferred recover.
LEMMA PanicStep ==
    ASSUME NEW m \in ImportForm, JobInv(m), m.pc \in {"check", "row", "count"}, m.out = NoEvent
    PROVE  JobStep(m, [Cancelled(m) EXCEPT !.panicked = TRUE])
<1> DEFINE n == [Cancelled(m) EXCEPT !.panicked = TRUE]
<1>1. n \in ImportForm
    BY JobTypes DEF ImportForm, Status, Places, Kinds, Cancelled
<1>2. JobInv(n)
    BY JobTypes DEF ImportForm, Cancelled,
       JobInv, Uncounted, StatusAtPlace, Position, AddsUp, LastWords, Warned, Halfway, DoneSent, NoEvent
<1>3. Onward(m, n) /\ StillUnderWay(m, n)
    BY JobTypes DEF ImportForm, Cancelled, JobInv, Onward, StatusAtPlace, LastWords, Drained, DoneSent, Ended,
       StillUnderWay, NoEvent
<1> QED BY <1>1, <1>2, <1>3 DEF JobStep

\* A row without a country.
LEMMA IncompleteStep ==
    ASSUME NEW m \in ImportForm, JobInv(m), m.pc \in {"check", "row"}, m.out = NoEvent,
           m.pos <= Len(m.entries)
    PROVE  JobStep(m, [m EXCEPT !.errors = @ + 1, !.processed = @ + 1, !.pos = @ + 1, !.out = "row", !.pc = "check"])
<1> DEFINE n == [m EXCEPT !.errors = @ + 1, !.processed = @ + 1, !.pos = @ + 1, !.out = "row", !.pc = "check"]
<1>1. m.errors + 1 \in Nat /\ m.processed + 1 \in Nat /\ m.pos + 1 \in Nat \ {0}
    BY JobTypes
<1>2. /\ n \in ImportForm
      /\ n.status = m.status /\ n.pc = "check" /\ n.entries = m.entries
      /\ n.warnings = m.warnings /\ n.pos = m.pos + 1 /\ n.added = m.added
      /\ n.skipped = m.skipped /\ n.errors = m.errors + 1 /\ n.processed = m.processed + 1
      /\ n.out = "row" /\ n.events = m.events /\ n.closed = m.closed /\ n.waits = m.waits
      /\ n.late = m.late /\ n.lost = m.lost /\ n.panicked = m.panicked
    BY <1>1, JobTypes DEF ImportForm, Status, Places, Kinds
<1> HIDE DEF n
<1>3. Uncounted(n) /\ StatusAtPlace(n) /\ Position(n)
    BY <1>1, <1>2, JobTypes DEF JobInv, Uncounted, StatusAtPlace, Position, NoEvent
<1>4. AddsUp(n)
    <2> SUFFICES ASSUME ~n.panicked
                 PROVE  /\ n.added + n.skipped + n.errors = n.processed + Warned(n) + Halfway(n)
                        /\ n.status = "done" => n.processed = Len(n.entries)
        BY DEF AddsUp
    <2>1. m.added + m.skipped + m.errors = m.processed + Warned(m) + Halfway(m)
        BY <1>2 DEF JobInv, AddsUp
    <2>2. Warned(m) = m.warnings /\ Warned(n) = m.warnings /\ Halfway(m) = 0 /\ Halfway(n) = 0
        BY <1>2 DEF Warned, Halfway
    <2>3. n.added + n.skipped + n.errors = n.processed + Warned(n) + Halfway(n)
        <3>1. /\ m.added \in Int /\ m.skipped \in Int /\ m.errors \in Int /\ m.processed \in Int
              /\ m.warnings \in Int
            BY JobTypes
        <3>2. n.added = m.added /\ n.skipped = m.skipped /\ n.errors = m.errors + 1 /\ n.processed = m.processed + 1
            BY <1>2
        <3> QED BY <2>1, <2>2, <3>1, <3>2, SMTT(40)
    <2>4. n.status # "done"
        BY <1>2, JobTypes DEF JobInv, StatusAtPlace
    <2> QED BY <2>3, <2>4
<1>5. LastWords(n)
    BY <1>1, <1>2, JobTypes DEF JobInv, StatusAtPlace, LastWords, DoneSent, NoEvent
<1>6. Onward(m, n) /\ StillUnderWay(m, n)
    BY <1>1, <1>2, JobTypes
       DEF JobInv, Onward, StatusAtPlace, LastWords, Drained, DoneSent, Ended, StillUnderWay, NoEvent
<1> QED BY <1>2, <1>3, <1>4, <1>5, <1>6 DEF JobInv, JobStep, n

\* A row that failed.
LEMMA ErrorStep ==
    ASSUME NEW m \in ImportForm, JobInv(m), m.pc \in {"check", "row"}, m.out = NoEvent,
           m.pos <= Len(m.entries)
    PROVE  JobStep(m, [m EXCEPT !.errors = @ + 1, !.out = "row", !.pc = "count"])
<1> DEFINE n == [m EXCEPT !.errors = @ + 1, !.out = "row", !.pc = "count"]
<1>1. m.errors + 1 \in Nat
    BY JobTypes
<1>2. /\ n \in ImportForm
      /\ n.status = m.status /\ n.pc = "count" /\ n.entries = m.entries
      /\ n.warnings = m.warnings /\ n.pos = m.pos /\ n.added = m.added
      /\ n.skipped = m.skipped /\ n.errors = m.errors + 1 /\ n.processed = m.processed
      /\ n.out = "row" /\ n.events = m.events /\ n.closed = m.closed /\ n.waits = m.waits
      /\ n.late = m.late /\ n.lost = m.lost /\ n.panicked = m.panicked
    BY <1>1, JobTypes DEF ImportForm, Status, Places, Kinds
<1> HIDE DEF n
<1>3. Uncounted(n) /\ StatusAtPlace(n) /\ Position(n)
    BY <1>1, <1>2, JobTypes DEF JobInv, Uncounted, StatusAtPlace, Position, NoEvent
<1>4. AddsUp(n)
    <2> SUFFICES ASSUME ~n.panicked
                 PROVE  /\ n.added + n.skipped + n.errors = n.processed + Warned(n) + Halfway(n)
                        /\ n.status = "done" => n.processed = Len(n.entries)
        BY DEF AddsUp
    <2>1. m.added + m.skipped + m.errors = m.processed + Warned(m) + Halfway(m)
        BY <1>2 DEF JobInv, AddsUp
    <2>2. Warned(m) = m.warnings /\ Warned(n) = m.warnings /\ Halfway(m) = 0 /\ Halfway(n) = 1
        BY <1>2 DEF Warned, Halfway
    <2>3. n.added + n.skipped + n.errors = n.processed + Warned(n) + Halfway(n)
        <3>1. /\ m.added \in Int /\ m.skipped \in Int /\ m.errors \in Int /\ m.processed \in Int
              /\ m.warnings \in Int
            BY JobTypes
        <3>2. n.added = m.added /\ n.skipped = m.skipped /\ n.errors = m.errors + 1 /\ n.processed = m.processed
            BY <1>2
        <3> QED BY <2>1, <2>2, <3>1, <3>2, SMTT(40)
    <2>4. n.status # "done"
        BY <1>2, JobTypes DEF JobInv, StatusAtPlace
    <2> QED BY <2>3, <2>4
<1>5. LastWords(n)
    BY <1>1, <1>2, JobTypes DEF JobInv, StatusAtPlace, LastWords, DoneSent, NoEvent
<1>6. Onward(m, n) /\ StillUnderWay(m, n)
    BY <1>1, <1>2, JobTypes
       DEF JobInv, Onward, StatusAtPlace, LastWords, Drained, DoneSent, Ended, StillUnderWay, NoEvent
<1> QED BY <1>2, <1>3, <1>4, <1>5, <1>6 DEF JobInv, JobStep, n

\* A row that was there.
LEMMA SkippedStep ==
    ASSUME NEW m \in ImportForm, JobInv(m), m.pc \in {"check", "row"}, m.out = NoEvent,
           m.pos <= Len(m.entries)
    PROVE  JobStep(m, [m EXCEPT !.skipped = @ + 1, !.out = "row", !.pc = "count"])
<1> DEFINE n == [m EXCEPT !.skipped = @ + 1, !.out = "row", !.pc = "count"]
<1>1. m.skipped + 1 \in Nat
    BY JobTypes
<1>2. /\ n \in ImportForm
      /\ n.status = m.status /\ n.pc = "count" /\ n.entries = m.entries
      /\ n.warnings = m.warnings /\ n.pos = m.pos /\ n.added = m.added
      /\ n.skipped = m.skipped + 1 /\ n.errors = m.errors /\ n.processed = m.processed
      /\ n.out = "row" /\ n.events = m.events /\ n.closed = m.closed /\ n.waits = m.waits
      /\ n.late = m.late /\ n.lost = m.lost /\ n.panicked = m.panicked
    BY <1>1, JobTypes DEF ImportForm, Status, Places, Kinds
<1> HIDE DEF n
<1>3. Uncounted(n) /\ StatusAtPlace(n) /\ Position(n)
    BY <1>1, <1>2, JobTypes DEF JobInv, Uncounted, StatusAtPlace, Position, NoEvent
<1>4. AddsUp(n)
    <2> SUFFICES ASSUME ~n.panicked
                 PROVE  /\ n.added + n.skipped + n.errors = n.processed + Warned(n) + Halfway(n)
                        /\ n.status = "done" => n.processed = Len(n.entries)
        BY DEF AddsUp
    <2>1. m.added + m.skipped + m.errors = m.processed + Warned(m) + Halfway(m)
        BY <1>2 DEF JobInv, AddsUp
    <2>2. Warned(m) = m.warnings /\ Warned(n) = m.warnings /\ Halfway(m) = 0 /\ Halfway(n) = 1
        BY <1>2 DEF Warned, Halfway
    <2>3. n.added + n.skipped + n.errors = n.processed + Warned(n) + Halfway(n)
        <3>1. /\ m.added \in Int /\ m.skipped \in Int /\ m.errors \in Int /\ m.processed \in Int
              /\ m.warnings \in Int
            BY JobTypes
        <3>2. n.added = m.added /\ n.skipped = m.skipped + 1 /\ n.errors = m.errors /\ n.processed = m.processed
            BY <1>2
        <3> QED BY <2>1, <2>2, <3>1, <3>2, SMTT(40)
    <2>4. n.status # "done"
        BY <1>2, JobTypes DEF JobInv, StatusAtPlace
    <2> QED BY <2>3, <2>4
<1>5. LastWords(n)
    BY <1>1, <1>2, JobTypes DEF JobInv, StatusAtPlace, LastWords, DoneSent, NoEvent
<1>6. Onward(m, n) /\ StillUnderWay(m, n)
    BY <1>1, <1>2, JobTypes
       DEF JobInv, Onward, StatusAtPlace, LastWords, Drained, DoneSent, Ended, StillUnderWay, NoEvent
<1> QED BY <1>2, <1>3, <1>4, <1>5, <1>6 DEF JobInv, JobStep, n

\* A row that was added.
LEMMA AddedStep ==
    ASSUME NEW m \in ImportForm, JobInv(m), m.pc \in {"check", "row"}, m.out = NoEvent,
           m.pos <= Len(m.entries)
    PROVE  JobStep(m, [m EXCEPT !.added = @ + 1, !.out = "row", !.pc = "count"])
<1> DEFINE n == [m EXCEPT !.added = @ + 1, !.out = "row", !.pc = "count"]
<1>1. m.added + 1 \in Nat
    BY JobTypes
<1>2. /\ n \in ImportForm
      /\ n.status = m.status /\ n.pc = "count" /\ n.entries = m.entries
      /\ n.warnings = m.warnings /\ n.pos = m.pos /\ n.added = m.added + 1
      /\ n.skipped = m.skipped /\ n.errors = m.errors /\ n.processed = m.processed
      /\ n.out = "row" /\ n.events = m.events /\ n.closed = m.closed /\ n.waits = m.waits
      /\ n.late = m.late /\ n.lost = m.lost /\ n.panicked = m.panicked
    BY <1>1, JobTypes DEF ImportForm, Status, Places, Kinds
<1> HIDE DEF n
<1>3. Uncounted(n) /\ StatusAtPlace(n) /\ Position(n)
    BY <1>1, <1>2, JobTypes DEF JobInv, Uncounted, StatusAtPlace, Position, NoEvent
<1>4. AddsUp(n)
    <2> SUFFICES ASSUME ~n.panicked
                 PROVE  /\ n.added + n.skipped + n.errors = n.processed + Warned(n) + Halfway(n)
                        /\ n.status = "done" => n.processed = Len(n.entries)
        BY DEF AddsUp
    <2>1. m.added + m.skipped + m.errors = m.processed + Warned(m) + Halfway(m)
        BY <1>2 DEF JobInv, AddsUp
    <2>2. Warned(m) = m.warnings /\ Warned(n) = m.warnings /\ Halfway(m) = 0 /\ Halfway(n) = 1
        BY <1>2 DEF Warned, Halfway
    <2>3. n.added + n.skipped + n.errors = n.processed + Warned(n) + Halfway(n)
        <3>1. /\ m.added \in Int /\ m.skipped \in Int /\ m.errors \in Int /\ m.processed \in Int
              /\ m.warnings \in Int
            BY JobTypes
        <3>2. n.added = m.added + 1 /\ n.skipped = m.skipped /\ n.errors = m.errors /\ n.processed = m.processed
            BY <1>2
        <3> QED BY <2>1, <2>2, <3>1, <3>2, SMTT(40)
    <2>4. n.status # "done"
        BY <1>2, JobTypes DEF JobInv, StatusAtPlace
    <2> QED BY <2>3, <2>4
<1>5. LastWords(n)
    BY <1>1, <1>2, JobTypes DEF JobInv, StatusAtPlace, LastWords, DoneSent, NoEvent
<1>6. Onward(m, n) /\ StillUnderWay(m, n)
    BY <1>1, <1>2, JobTypes
       DEF JobInv, Onward, StatusAtPlace, LastWords, Drained, DoneSent, Ended, StillUnderWay, NoEvent
<1> QED BY <1>2, <1>3, <1>4, <1>5, <1>6 DEF JobInv, JobStep, n

\* A row whose answer was lost.
LEMMA LostStep ==
    ASSUME NEW m \in ImportForm, JobInv(m), m.pc \in {"check", "row"}, m.out = NoEvent,
           m.pos <= Len(m.entries)
    PROVE  JobStep(m, [m EXCEPT !.errors = @ + 1, !.out = "row", !.pc = "count", !.lost = TRUE])
<1> DEFINE n == [m EXCEPT !.errors = @ + 1, !.out = "row", !.pc = "count", !.lost = TRUE]
<1>1. m.errors + 1 \in Nat
    BY JobTypes
<1>2. /\ n \in ImportForm
      /\ n.status = m.status /\ n.pc = "count" /\ n.entries = m.entries
      /\ n.warnings = m.warnings /\ n.pos = m.pos /\ n.added = m.added
      /\ n.skipped = m.skipped /\ n.errors = m.errors + 1 /\ n.processed = m.processed
      /\ n.out = "row" /\ n.events = m.events /\ n.closed = m.closed /\ n.waits = m.waits
      /\ n.late = m.late /\ n.lost = TRUE /\ n.panicked = m.panicked
    BY <1>1, JobTypes DEF ImportForm, Status, Places, Kinds
<1> HIDE DEF n
<1>3. Uncounted(n) /\ StatusAtPlace(n) /\ Position(n)
    BY <1>1, <1>2, JobTypes DEF JobInv, Uncounted, StatusAtPlace, Position, NoEvent
<1>4. AddsUp(n)
    <2> SUFFICES ASSUME ~n.panicked
                 PROVE  /\ n.added + n.skipped + n.errors = n.processed + Warned(n) + Halfway(n)
                        /\ n.status = "done" => n.processed = Len(n.entries)
        BY DEF AddsUp
    <2>1. m.added + m.skipped + m.errors = m.processed + Warned(m) + Halfway(m)
        BY <1>2 DEF JobInv, AddsUp
    <2>2. Warned(m) = m.warnings /\ Warned(n) = m.warnings /\ Halfway(m) = 0 /\ Halfway(n) = 1
        BY <1>2 DEF Warned, Halfway
    <2>3. n.added + n.skipped + n.errors = n.processed + Warned(n) + Halfway(n)
        <3>1. /\ m.added \in Int /\ m.skipped \in Int /\ m.errors \in Int /\ m.processed \in Int
              /\ m.warnings \in Int
            BY JobTypes
        <3>2. n.added = m.added /\ n.skipped = m.skipped /\ n.errors = m.errors + 1 /\ n.processed = m.processed
            BY <1>2
        <3> QED BY <2>1, <2>2, <3>1, <3>2, SMTT(40)
    <2>4. n.status # "done"
        BY <1>2, JobTypes DEF JobInv, StatusAtPlace
    <2> QED BY <2>3, <2>4
<1>5. LastWords(n)
    BY <1>1, <1>2, JobTypes DEF JobInv, StatusAtPlace, LastWords, DoneSent, NoEvent
<1>6. Onward(m, n) /\ StillUnderWay(m, n)
    BY <1>1, <1>2, JobTypes
       DEF JobInv, Onward, StatusAtPlace, LastWords, Drained, DoneSent, Ended, StillUnderWay, NoEvent
<1> QED BY <1>2, <1>3, <1>4, <1>5, <1>6 DEF JobInv, JobStep, n

\* A row is done with.
LEMMA CountedStep ==
    ASSUME NEW m \in ImportForm, JobInv(m), m.pc = "count", m.out = NoEvent
    PROVE  JobStep(m, [m EXCEPT !.processed = @ + 1, !.pos = @ + 1, !.pc = "check"])
<1> DEFINE n == [m EXCEPT !.processed = @ + 1, !.pos = @ + 1, !.pc = "check"]
<1>1. m.processed + 1 \in Nat /\ m.pos + 1 \in Nat \ {0}
    BY JobTypes
<1>2. /\ n \in ImportForm
      /\ n.status = m.status /\ n.pc = "check" /\ n.entries = m.entries
      /\ n.warnings = m.warnings /\ n.pos = m.pos + 1 /\ n.added = m.added
      /\ n.skipped = m.skipped /\ n.errors = m.errors /\ n.processed = m.processed + 1
      /\ n.out = m.out /\ n.events = m.events /\ n.closed = m.closed /\ n.waits = m.waits
      /\ n.late = m.late /\ n.lost = m.lost /\ n.panicked = m.panicked
    BY <1>1, JobTypes DEF ImportForm, Status, Places, Kinds
<1> HIDE DEF n
<1>3. Uncounted(n) /\ StatusAtPlace(n) /\ Position(n)
    BY <1>1, <1>2, JobTypes DEF JobInv, Uncounted, StatusAtPlace, Position, NoEvent
<1>4. AddsUp(n)
    <2> SUFFICES ASSUME ~n.panicked
                 PROVE  /\ n.added + n.skipped + n.errors = n.processed + Warned(n) + Halfway(n)
                        /\ n.status = "done" => n.processed = Len(n.entries)
        BY DEF AddsUp
    <2>1. m.added + m.skipped + m.errors = m.processed + Warned(m) + Halfway(m)
        BY <1>2 DEF JobInv, AddsUp
    <2>2. Warned(m) = m.warnings /\ Warned(n) = m.warnings /\ Halfway(m) = 1 /\ Halfway(n) = 0
        BY <1>2 DEF Warned, Halfway
    <2>3. n.added + n.skipped + n.errors = n.processed + Warned(n) + Halfway(n)
        <3>1. /\ m.added \in Int /\ m.skipped \in Int /\ m.errors \in Int /\ m.processed \in Int
              /\ m.warnings \in Int
            BY JobTypes
        <3>2. n.added = m.added /\ n.skipped = m.skipped /\ n.errors = m.errors /\ n.processed = m.processed + 1
            BY <1>2
        <3> QED BY <2>1, <2>2, <3>1, <3>2, SMTT(40)
    <2>4. n.status # "done"
        BY <1>2, JobTypes DEF JobInv, StatusAtPlace
    <2> QED BY <2>3, <2>4
<1>5. LastWords(n)
    BY <1>1, <1>2, JobTypes DEF JobInv, StatusAtPlace, LastWords, DoneSent, NoEvent
<1>6. Onward(m, n) /\ StillUnderWay(m, n)
    BY <1>1, <1>2, JobTypes
       DEF JobInv, Onward, StatusAtPlace, LastWords, Drained, DoneSent, Ended, StillUnderWay, NoEvent
<1> QED BY <1>2, <1>3, <1>4, <1>5, <1>6 DEF JobInv, JobStep, n

\* No row is left.
LEMMA FinishStep ==
    ASSUME NEW m \in ImportForm, JobInv(m), m.pc = "check", m.out = NoEvent,
           ~(m.pos <= Len(m.entries))
    PROVE  JobStep(m, [m EXCEPT !.status = "done", !.out = "progress", !.pc = "last"])
<1> DEFINE n == [m EXCEPT !.status = "done", !.out = "progress", !.pc = "last"]
<1>1. n \in ImportForm
    BY JobTypes DEF ImportForm, Status, Places, Kinds
<1>2. JobInv(n)
    BY JobTypes DEF ImportForm,
       JobInv, Uncounted, StatusAtPlace, Position, AddsUp, LastWords, Warned, Halfway, DoneSent, NoEvent
<1>3. Onward(m, n) /\ StillUnderWay(m, n)
    BY JobTypes DEF ImportForm, JobInv, Onward, StatusAtPlace, LastWords, Drained, DoneSent, Ended,
       StillUnderWay, NoEvent
<1> QED BY <1>1, <1>2, <1>3 DEF JobStep

\* emitDone.
LEMMA LastStep ==
    ASSUME NEW m \in ImportForm, JobInv(m), m.pc = "last", m.out = NoEvent
    PROVE  JobStep(m, [m EXCEPT !.out = "done", !.pc = "close"])
<1> DEFINE n == [m EXCEPT !.out = "done", !.pc = "close"]
<1>1. n \in ImportForm
    BY JobTypes DEF ImportForm, Status, Places, Kinds
<1>2. JobInv(n)
    BY JobTypes DEF ImportForm,
       JobInv, Uncounted, StatusAtPlace, Position, AddsUp, LastWords, Warned, Halfway, DoneSent, NoEvent
<1>3. Onward(m, n) /\ StillUnderWay(m, n)
    BY JobTypes DEF ImportForm, JobInv, Onward, StatusAtPlace, LastWords, Drained, DoneSent, Ended,
       StillUnderWay, NoEvent
<1> QED BY <1>1, <1>2, <1>3 DEF JobStep

\* The channel is closed.
LEMMA CloseStep ==
    ASSUME NEW m \in ImportForm, JobInv(m), m.pc = "close", m.out = NoEvent
    PROVE  JobStep(m, [m EXCEPT !.closed = TRUE, !.pc = "ended"])
<1> DEFINE n == [m EXCEPT !.closed = TRUE, !.pc = "ended"]
<1>1. n \in ImportForm
    BY JobTypes DEF ImportForm, Status, Places, Kinds
<1>2. JobInv(n)
    BY JobTypes DEF ImportForm,
       JobInv, Uncounted, StatusAtPlace, Position, AddsUp, LastWords, Warned, Halfway, DoneSent, NoEvent
<1>3. Onward(m, n) /\ StillUnderWay(m, n)
    BY JobTypes DEF ImportForm, JobInv, Onward, StatusAtPlace, LastWords, Drained, DoneSent, Ended,
       StillUnderWay, NoEvent
<1> QED BY <1>1, <1>2, <1>3 DEF JobStep

\* emit: there is room ...
LEMMA EmitStep ==
    ASSUME NEW m \in ImportForm, JobInv(m), m.out # NoEvent
    PROVE  JobStep(m, [m EXCEPT !.events = Append(@, m.out), !.out = NoEvent])
<1> DEFINE n == [m EXCEPT !.events = Append(@, m.out), !.out = NoEvent]
<1>1. /\ Append(m.events, m.out) \in Seq(Kinds) /\ Append(m.events, m.out) # <<>>
      /\ Len(Append(m.events, m.out)) = Len(m.events) + 1
      /\ Append(m.events, m.out)[Len(m.events) + 1] = m.out
    BY JobTypes, AppendProperties
<1>2. /\ n \in ImportForm
      /\ n.status = m.status /\ n.pc = m.pc /\ n.entries = m.entries
      /\ n.warnings = m.warnings /\ n.pos = m.pos /\ n.added = m.added
      /\ n.skipped = m.skipped /\ n.errors = m.errors /\ n.processed = m.processed
      /\ n.out = NoEvent /\ n.events = Append(m.events, m.out) /\ n.closed = m.closed
      /\ n.waits = m.waits /\ n.late = m.late /\ n.lost = m.lost /\ n.panicked = m.panicked
    BY <1>1, JobTypes DEF ImportForm, Status, Places, Kinds
<1> HIDE DEF n
<1>3. Uncounted(n) /\ StatusAtPlace(n) /\ Position(n)
    BY <1>1, <1>2, JobTypes DEF JobInv, Uncounted, StatusAtPlace, Position, NoEvent
<1>4. AddsUp(n)
    BY <1>1, <1>2, JobTypes DEF JobInv, Uncounted, StatusAtPlace, Position, AddsUp, Warned, Halfway, NoEvent
<1>5. LastWords(n)
    BY <1>1, <1>2, JobTypes DEF JobInv, StatusAtPlace, LastWords, DoneSent, NoEvent
<1>6. Onward(m, n) /\ StillUnderWay(m, n)
    BY <1>1, <1>2, JobTypes
       DEF JobInv, Onward, StatusAtPlace, LastWords, Drained, DoneSent, Ended, StillUnderWay, NoEvent
<1> QED BY <1>2, <1>3, <1>4, <1>5, <1>6 DEF JobInv, JobStep, n

\* ... or none for a second.
LEMMA DropStep ==
    ASSUME NEW m \in ImportForm, JobInv(m), m.out # NoEvent
    PROVE  JobStep(m, [m EXCEPT !.out = NoEvent, !.waits = IF @ < Deadline THEN @ + 1 ELSE @])
<1> DEFINE n == [m EXCEPT !.out = NoEvent, !.waits = IF @ < Deadline THEN @ + 1 ELSE @]
<1>1. /\ (IF m.waits < Deadline THEN m.waits + 1 ELSE m.waits) \in 0..Deadline
      /\ (IF m.waits < Deadline THEN m.waits + 1 ELSE m.waits) # 0
    BY JobTypes, ImportAssumption
<1>2. /\ n \in ImportForm
      /\ n.status = m.status /\ n.pc = m.pc /\ n.entries = m.entries
      /\ n.warnings = m.warnings /\ n.pos = m.pos /\ n.added = m.added
      /\ n.skipped = m.skipped /\ n.errors = m.errors /\ n.processed = m.processed
      /\ n.out = NoEvent /\ n.events = m.events /\ n.closed = m.closed
      /\ n.waits = (IF m.waits < Deadline THEN m.waits + 1 ELSE m.waits) /\ n.late = m.late
      /\ n.lost = m.lost /\ n.panicked = m.panicked
    BY <1>1, JobTypes DEF ImportForm, Status, Places, Kinds
<1> HIDE DEF n
<1>3. Uncounted(n) /\ StatusAtPlace(n) /\ Position(n)
    BY <1>1, <1>2, JobTypes DEF JobInv, Uncounted, StatusAtPlace, Position, NoEvent
<1>4. AddsUp(n)
    BY <1>1, <1>2, JobTypes DEF JobInv, Uncounted, StatusAtPlace, Position, AddsUp, Warned, Halfway, NoEvent
<1>5. LastWords(n)
    BY <1>1, <1>2, JobTypes DEF JobInv, StatusAtPlace, LastWords, DoneSent, NoEvent
<1>6. Onward(m, n) /\ StillUnderWay(m, n)
    BY <1>1, <1>2, JobTypes
       DEF JobInv, Onward, StatusAtPlace, LastWords, Drained, DoneSent, Ended, StillUnderWay, NoEvent
<1> QED BY <1>2, <1>3, <1>4, <1>5, <1>6 DEF JobInv, JobStep, n

\* The ten minutes are over.
LEMMA LateStep ==
    ASSUME NEW m \in ImportForm, JobInv(m), m.status = "running"
    PROVE  JobStep(m, [m EXCEPT !.late = TRUE])
<1> DEFINE n == [m EXCEPT !.late = TRUE]
<1>1. n \in ImportForm
    BY JobTypes DEF ImportForm, Status, Places, Kinds
<1>2. JobInv(n)
    BY JobTypes DEF ImportForm,
       JobInv, Uncounted, StatusAtPlace, Position, AddsUp, LastWords, Warned, Halfway, DoneSent, NoEvent
<1>3. Onward(m, n) /\ StillUnderWay(m, n)
    BY JobTypes DEF ImportForm, JobInv, Onward, StatusAtPlace, LastWords, Drained, DoneSent, Ended,
       StillUnderWay, NoEvent
<1> QED BY <1>1, <1>2, <1>3 DEF JobStep

\* A reader takes an event.
LEMMA TakenStep ==
    ASSUME NEW m \in ImportForm, JobInv(m), m.events # <<>>
    PROVE  LET n == [m EXCEPT !.events = Tail(@)] IN
           /\ n \in ImportForm /\ JobInv(n) /\ n.status = m.status /\ n.closed = m.closed
           /\ n.added = m.added /\ n.lost = m.lost /\ n.waits = m.waits
           /\ Drained(n) => Head(m.events) = "done"
<1> DEFINE n == [m EXCEPT !.events = Tail(@)]
<1>1. /\ Tail(m.events) \in Seq(Kinds) /\ Len(Tail(m.events)) = Len(m.events) - 1
      /\ \A i \in 1..Len(Tail(m.events)) : Tail(m.events)[i] = m.events[i + 1]
      /\ Len(m.events) \in Nat \ {0} /\ Head(m.events) = m.events[1]
    BY JobTypes, HeadTailProperties, EmptySeq
<1>2. Tail(m.events) # <<>> => Tail(m.events)[Len(Tail(m.events))] = m.events[Len(m.events)]
    BY <1>1, EmptySeq
<1>3. Tail(m.events) = <<>> => Head(m.events) = m.events[Len(m.events)]
    BY <1>1, EmptySeq, LenProperties
<1> QED BY <1>1, <1>2, <1>3, JobTypes DEF ImportForm, Drained,
       JobInv, Uncounted, StatusAtPlace, Position, AddsUp, LastWords, Warned, Halfway, DoneSent

-----------------------------------------------------------------------------
(* Steps of the component *)

\* What the parsers accept are numbers.
LEMMA ParsedEntries ==
    ASSUME NEW form \in Forms, NEW parsed \in Parse(form)
    PROVE  parsed.entries \in Seq(EntryForm) /\ parsed.warnings \in Nat
<1>1. ASSUME NEW rows \in Seq(Rows), NEW noted \in Nat, NEW p \in ParseRows(rows, noted)
      PROVE  p.entries \in Seq(EntryForm) /\ p.warnings \in Nat
    <2>1. rows \in [1..Len(rows) -> Rows] /\ DOMAIN rows = 1..Len(rows) /\ Len(rows) \in Nat
        BY LenProperties
    <2>2. IsFiniteSet(DOMAIN rows)
        BY <2>1, FS_Interval
    <2>3. IsFiniteSet(Kept(rows)) /\ IsFiniteSet(DOMAIN rows \ Kept(rows))
        BY <2>2, FS_Subset DEF Kept
    <2>4. Cardinality(Kept(rows)) \in Nat /\ Cardinality(DOMAIN rows \ Kept(rows)) \in Nat
        BY <2>3, FS_CardinalityType
    <2>5. PICK e \in InOrder(Kept(rows)) :
             p = [entries |-> [i \in DOMAIN e |-> Entry(rows[e[i]].number, rows[e[i]].country)],
                  warnings |-> Cardinality(DOMAIN rows \ Kept(rows)) + noted]
        BY <1>1 DEF ParseRows
    <2>6. e \in [1..Cardinality(Kept(rows)) -> Kept(rows)] /\ DOMAIN e = 1..Cardinality(Kept(rows))
        BY DEF InOrder
    <2>7. \A i \in 1..Cardinality(Kept(rows)) : Entry(rows[e[i]].number, rows[e[i]].country) \in EntryForm
        BY <2>1, <2>6 DEF Kept, Rows, Entry, EntryForm
    <2>8. [i \in DOMAIN e |-> Entry(rows[e[i]].number, rows[e[i]].country)] \in Seq(EntryForm)
        BY <2>4, <2>6, <2>7
    <2> QED BY <2>4, <2>5, <2>8
<1>2. ASSUME NEW rows \in Seq(Rows) PROVE Notes(rows) \in Nat
    <2>1. DOMAIN rows = 1..Len(rows) /\ Len(rows) \in Nat
        BY LenProperties
    <2>2. IsFiniteSet(DOMAIN rows)
        BY <2>1, FS_Interval
    <2>3. {i \in Kept(rows) : rows[i].notes = 1} \subseteq DOMAIN rows
        BY DEF Kept
    <2> QED BY <2>2, <2>3, FS_Subset, FS_CardinalityType DEF Notes
<1>3. form \in FormType
    BY ImportAssumption
<1>4. CASE form.mode = "range"
    <2>1. form.from \in Int /\ form.to \in Int
        BY <1>3, <1>4 DEF FormType
    <2>2. parsed \in ParseRange(form.from, form.to)
        BY <1>4 DEF Parse
    <2> DEFINE refused == form.from <= 0 \/ form.to < form.from \/ form.to - form.from + 1 > MaxRows
    <2>3. ~refused
        BY <2>2, Zenon DEF ParseRange
    <2>4. /\ form.from > 0 /\ form.to >= form.from
          /\ parsed = [entries |-> [i \in 1..(form.to - form.from + 1) |-> Entry(form.from + i - 1, TRUE)],
                       warnings |-> 0]
        <3>1. form.from > 0 /\ form.to >= form.from
            BY <2>1, <2>3
        <3> HIDE DEF refused
        <3> QED BY <2>2, <2>3, <3>1, Zenon DEF ParseRange, refused
    <2> HIDE DEF refused
    <2>5. form.from..form.to \subseteq Numbers
        BY <1>4, <2>4, ImportAssumption
    <2>6. form.to - form.from + 1 \in Nat
        BY <2>1, <2>4
    <2>7. \A i \in 1..(form.to - form.from + 1) : Entry(form.from + i - 1, TRUE) \in EntryForm
        <3> TAKE i \in 1..(form.to - form.from + 1)
        <3>1. form.from + i - 1 \in form.from..form.to
            BY <2>1, <2>4
        <3> QED BY <2>5, <3>1 DEF Entry, EntryForm
    <2>8. [i \in 1..(form.to - form.from + 1) |-> Entry(form.from + i - 1, TRUE)] \in Seq(EntryForm)
        <3>1. \A w \in Nat : [1..w -> EntryForm] \subseteq Seq(EntryForm)
            BY SeqDef
        <3>2. [i \in 1..(form.to - form.from + 1) |-> Entry(form.from + i - 1, TRUE)]
                 \in [1..(form.to - form.from + 1) -> EntryForm]
            BY <2>7
        <3> QED BY <2>6, <3>1, <3>2
    <2> QED BY <2>4, <2>8
<1>5. CASE form.mode # "range"
    <2>1. form.mode \in {"bulk", "csv"} /\ form.rows \in Seq(Rows)
        BY <1>3, <1>5 DEF FormType
    <2>2. Notes(form.rows) \in Nat
        BY <1>2, <2>1
    <2>3. parsed \in ParseRows(form.rows, 0) \/ parsed \in ParseRows(form.rows, Notes(form.rows))
        BY <2>1 DEF Parse
    <2> QED BY <1>1, <2>1, <2>2, <2>3
<1> QED BY <1>4, <1>5

\* A step of one job that its readers do not share.
LEMMA JobMoves ==
    ASSUME ImportInv, NEW j \in Imports, NEW n \in ImportForm, JobInv(n), Onward(imports[j], n),
           imports' = [imports EXCEPT ![j] = n], reader' = reader,
           registry \subseteq registry', registry' \subseteq Imports, RegistryInv(j)',
           table' \in [Numbers -> Imports \cup {Nobody, Legacy}],
           OwnInv(j)', \A i \in Imports \ {j} : Own(i)' = Own(i)
    PROVE  ImportInv'
<1>1. ImportTypes /\ imports \in [Imports -> ImportForm]
    BY DEF ImportInv, ImportTypes
<1>2. imports'[j] = n /\ \A i \in Imports \ {j} : imports'[i] = imports[i]
    BY <1>1
<1>3. ImportTypes'
    BY <1>1 DEF ImportTypes
<1>4. ASSUME NEW i \in Imports \ {j}
      PROVE  JobInv(imports'[i]) /\ OwnInv(i)' /\ RegistryInv(i)' /\ StreamInv(i)'
    <2>1. JobInv(imports[i]) /\ OwnInv(i) /\ RegistryInv(i) /\ StreamInv(i)
        BY DEF ImportInv
    <2>2. \A r \in Readers : Alone(r)' <=> Alone(r)
        BY DEF Alone
    <2>3. OwnInv(i)'
        BY <1>2, <2>1 DEF OwnInv
    <2>4. RegistryInv(i)'
        BY <1>2, <2>1 DEF RegistryInv
    <2>5. StreamInv(i)'
        BY <1>2, <2>1, <2>2 DEF StreamInv
    <2> QED BY <1>2, <2>1, <2>3, <2>4, <2>5
<1>5. StreamInv(j)'
    <2>1. StreamInv(j)
        BY DEF ImportInv
    <2>2. \A r \in Readers : Alone(r)' <=> Alone(r)
        BY DEF Alone
    <2>3. Drained(n) => Drained(imports[j])
        BY DEF Onward
    <2>4. imports[j].closed => n.closed /\ n.events = imports[j].events
        BY DEF Onward
    <2> QED BY <1>2, <2>1, <2>2, <2>3, <2>4 DEF StreamInv
<1>6. JobInv(imports'[j])
    BY <1>2
<1> QED BY <1>3, <1>4, <1>5, <1>6 DEF ImportInv

\* The same, where the job owns what it owned.
LEMMA JobMovesOn ==
    ASSUME ImportInv, NEW j \in Imports, NEW n, JobStep(imports[j], n),
           imports' = [imports EXCEPT ![j] = n], UNCHANGED <<registry, table, reader>>,
           n.added = imports[j].added, n.lost = imports[j].lost
    PROVE  ImportInv'
<1>1. n \in ImportForm /\ JobInv(n) /\ Onward(imports[j], n) /\ StillUnderWay(imports[j], n)
    BY DEF JobStep
<1>2. ImportTypes /\ OwnInv(j) /\ RegistryInv(j)
    BY DEF ImportInv
<1>3. imports'[j] = n
    BY <1>2 DEF ImportTypes
<1>4. \A i \in Imports : Own(i)' = Own(i)
    BY DEF Own
<1>5. OwnInv(j)'
    BY <1>2, <1>3, <1>4 DEF OwnInv
<1>6. RegistryInv(j)'
    BY <1>1, <1>2, <1>3 DEF RegistryInv, StillUnderWay
<1> QED BY <1>1, <1>2, <1>4, <1>5, <1>6, JobMoves DEF ImportTypes

\* Steps of the worker that touch no number.
LEMMA WorkerInv ==
    ASSUME ImportInv, NEW j \in Imports,
           \/ Begin(j) \/ Warn(j) \/ Progress(j) \/ Cancel(j) \/ RowIncomplete(j) \/ RowCounted(j) \/ Finish(j)
           \/ LastEvent(j) \/ Close(j) \/ Panic(j) \/ Emit(j) \/ Drop(j) \/ Expire(j)
    PROVE  ImportInv'
<1> PICK m : m = imports[j]
    OBVIOUS
<1>1. imports \in [Imports -> ImportForm] /\ m \in ImportForm /\ JobInv(m)
    BY DEF ImportInv, ImportTypes
<1>2. SUFFICES ASSUME UNCHANGED <<registry, table, reader>>
               PROVE  \E n : /\ JobStep(m, n) /\ imports' = [imports EXCEPT ![j] = n]
                             /\ n.added = m.added /\ n.lost = m.lost
    <2>1. UNCHANGED <<registry, table, reader>>
        BY DEF Begin, Warn, Progress, Cancel, RowIncomplete, RowCounted, Finish, LastEvent, Close, Panic,
               Emit, Drop, Expire
    <2> QED BY <2>1, JobMovesOn
<1>3. CASE Begin(j)
    <2> DEFINE n == [m EXCEPT !.status = "running", !.out = "init", !.pc = "warn"]
    <2>1. m.pc = "start" /\ m.out = NoEvent
        BY <1>1, <1>3 DEF Begin, At
    <2>2. imports' = [imports EXCEPT ![j] = n]
        BY <1>1, <1>3 DEF Begin
    <2>3. JobStep(m, n)
        BY <1>1, <2>1, BeginStep
    <2>4. n.added = m.added /\ n.lost = m.lost
        BY <1>1 DEF ImportForm
    <2> HIDE DEF n
    <2> QED BY <2>2, <2>3, <2>4
<1>4. CASE Progress(j)
    <2> DEFINE n == [m EXCEPT !.out = "progress", !.pc = "row"]
    <2>1. m.pc = "check" /\ m.out = NoEvent /\ m.pos <= Len(m.entries)
        BY <1>1, <1>4 DEF Progress, At, RowsLeft
    <2>2. imports' = [imports EXCEPT ![j] = n]
        BY <1>1, <1>4 DEF Progress
    <2>3. JobStep(m, n)
        BY <1>1, <2>1, ProgressStep
    <2>4. n.added = m.added /\ n.lost = m.lost
        BY <1>1 DEF ImportForm
    <2> HIDE DEF n
    <2> QED BY <2>2, <2>3, <2>4
<1>5. CASE Cancel(j)
    <2> DEFINE n == Cancelled(m)
    <2>1. m.pc = "check" /\ m.out = NoEvent
        BY <1>1, <1>5 DEF Cancel, At
    <2>2. imports' = [imports EXCEPT ![j] = n]
        BY <1>1, <1>5 DEF Cancel, Cancelled
    <2>3. JobStep(m, n)
        BY <1>1, <2>1, CancelStep
    <2>4. n.added = m.added /\ n.lost = m.lost
        BY <1>1 DEF ImportForm, Cancelled
    <2> HIDE DEF n
    <2> QED BY <2>2, <2>3, <2>4
<1>6. CASE RowIncomplete(j)
    <2> DEFINE n == [m EXCEPT !.errors = @ + 1, !.processed = @ + 1, !.pos = @ + 1, !.out = "row", !.pc = "check"]
    <2>1. m.pc \in {"check", "row"} /\ m.out = NoEvent /\ m.pos <= Len(m.entries)
        BY <1>1, <1>6 DEF RowIncomplete, AtRow, At, RowsLeft
    <2>2. imports' = [imports EXCEPT ![j] = n]
        BY <1>1, <1>6 DEF RowIncomplete
    <2>3. JobStep(m, n)
        BY <1>1, <2>1, IncompleteStep
    <2>4. n.added = m.added /\ n.lost = m.lost
        BY <1>1 DEF ImportForm
    <2> HIDE DEF n
    <2> QED BY <2>2, <2>3, <2>4
<1>7. CASE RowCounted(j)
    <2> DEFINE n == [m EXCEPT !.processed = @ + 1, !.pos = @ + 1, !.pc = "check"]
    <2>1. m.pc = "count" /\ m.out = NoEvent
        BY <1>1, <1>7 DEF RowCounted, At
    <2>2. imports' = [imports EXCEPT ![j] = n]
        BY <1>1, <1>7 DEF RowCounted
    <2>3. JobStep(m, n)
        BY <1>1, <2>1, CountedStep
    <2>4. n.added = m.added /\ n.lost = m.lost
        BY <1>1 DEF ImportForm
    <2> HIDE DEF n
    <2> QED BY <2>2, <2>3, <2>4
<1>8. CASE Finish(j)
    <2> DEFINE n == [m EXCEPT !.status = "done", !.out = "progress", !.pc = "last"]
    <2>1. m.pc = "check" /\ m.out = NoEvent /\ ~(m.pos <= Len(m.entries))
        BY <1>1, <1>8 DEF Finish, At, RowsLeft
    <2>2. imports' = [imports EXCEPT ![j] = n]
        BY <1>1, <1>8 DEF Finish
    <2>3. JobStep(m, n)
        BY <1>1, <2>1, FinishStep
    <2>4. n.added = m.added /\ n.lost = m.lost
        BY <1>1 DEF ImportForm
    <2> HIDE DEF n
    <2> QED BY <2>2, <2>3, <2>4
<1>9. CASE LastEvent(j)
    <2> DEFINE n == [m EXCEPT !.out = "done", !.pc = "close"]
    <2>1. m.pc = "last" /\ m.out = NoEvent
        BY <1>1, <1>9 DEF LastEvent, At
    <2>2. imports' = [imports EXCEPT ![j] = n]
        BY <1>1, <1>9 DEF LastEvent
    <2>3. JobStep(m, n)
        BY <1>1, <2>1, LastStep
    <2>4. n.added = m.added /\ n.lost = m.lost
        BY <1>1 DEF ImportForm
    <2> HIDE DEF n
    <2> QED BY <2>2, <2>3, <2>4
<1>10. CASE Close(j)
    <2> DEFINE n == [m EXCEPT !.closed = TRUE, !.pc = "ended"]
    <2>1. m.pc = "close" /\ m.out = NoEvent
        BY <1>1, <1>10 DEF Close, At
    <2>2. imports' = [imports EXCEPT ![j] = n]
        BY <1>1, <1>10 DEF Close
    <2>3. JobStep(m, n)
        BY <1>1, <2>1, CloseStep
    <2>4. n.added = m.added /\ n.lost = m.lost
        BY <1>1 DEF ImportForm
    <2> HIDE DEF n
    <2> QED BY <2>2, <2>3, <2>4
<1>11. CASE Panic(j)
    <2> DEFINE n == [Cancelled(m) EXCEPT !.panicked = TRUE]
    <2>1. m.pc \in {"check", "row", "count"} /\ m.out = NoEvent
        BY <1>1, <1>11 DEF Panic, At
    <2>2. imports' = [imports EXCEPT ![j] = n]
        BY <1>1, <1>11 DEF Panic, Cancelled
    <2>3. JobStep(m, n)
        BY <1>1, <2>1, PanicStep
    <2>4. n.added = m.added /\ n.lost = m.lost
        BY <1>1 DEF ImportForm, Cancelled
    <2> HIDE DEF n
    <2> QED BY <2>2, <2>3, <2>4
<1>12. CASE Emit(j)
    <2> DEFINE n == [m EXCEPT !.events = Append(@, m.out), !.out = NoEvent]
    <2>1. m.out # NoEvent
        BY <1>1, <1>12 DEF Emit
    <2>2. imports' = [imports EXCEPT ![j] = n]
        BY <1>1, <1>12 DEF Emit
    <2>3. JobStep(m, n)
        BY <1>1, <2>1, EmitStep
    <2>4. n.added = m.added /\ n.lost = m.lost
        BY <1>1 DEF ImportForm
    <2> HIDE DEF n
    <2> QED BY <2>2, <2>3, <2>4
<1>13. CASE Drop(j)
    <2> DEFINE n == [m EXCEPT !.out = NoEvent, !.waits = IF @ < Deadline THEN @ + 1 ELSE @]
    <2>1. m.out # NoEvent
        BY <1>1, <1>13 DEF Drop
    <2>2. imports' = [imports EXCEPT ![j] = n]
        BY <1>1, <1>13 DEF Drop
    <2>3. JobStep(m, n)
        BY <1>1, <2>1, DropStep
    <2>4. n.added = m.added /\ n.lost = m.lost
        BY <1>1 DEF ImportForm
    <2> HIDE DEF n
    <2> QED BY <2>2, <2>3, <2>4
<1>14. CASE Expire(j)
    <2> DEFINE n == [m EXCEPT !.late = TRUE]
    <2>1. m.status = "running"
        BY <1>1, <1>14 DEF Expire
    <2>2. imports' = [imports EXCEPT ![j] = n]
        BY <1>1, <1>14 DEF Expire
    <2>3. JobStep(m, n)
        BY <1>1, <2>1, LateStep
    <2>4. n.added = m.added /\ n.lost = m.lost
        BY <1>1 DEF ImportForm
    <2> HIDE DEF n
    <2> QED BY <2>2, <2>3, <2>4
<1>15. CASE Warn(j)
    <2>1. CASE m.errors < m.warnings
        <3> DEFINE n == [m EXCEPT !.errors = @ + 1, !.out = "row"]
        <3>1. m.pc = "warn" /\ m.out = NoEvent
            BY <1>1, <2>1, <1>15 DEF Warn, At
        <3>2. imports' = [imports EXCEPT ![j] = n]
            BY <1>1, <2>1, <1>15 DEF Warn
        <3>3. JobStep(m, n)
            BY <1>1, <2>1, <3>1, WarnStep
        <3>4. n.added = m.added /\ n.lost = m.lost
            BY <1>1 DEF ImportForm
        <3> HIDE DEF n
        <3> QED BY <3>2, <3>3, <3>4
    <2>2. CASE ~(m.errors < m.warnings)
        <3> DEFINE n == [m EXCEPT !.pc = "check"]
        <3>1. m.pc = "warn" /\ m.out = NoEvent
            BY <1>1, <2>2, <1>15 DEF Warn, At
        <3>2. imports' = [imports EXCEPT ![j] = n]
            BY <1>1, <2>2, <1>15 DEF Warn
        <3>3. JobStep(m, n)
            BY <1>1, <2>2, <3>1, WarnedStep
        <3>4. n.added = m.added /\ n.lost = m.lost
            BY <1>1 DEF ImportForm
        <3> HIDE DEF n
        <3> QED BY <3>2, <3>3, <3>4
    <2> QED BY <2>1, <2>2
<1> QED BY <1>3, <1>4, <1>5, <1>6, <1>7, <1>8, <1>9, <1>10, <1>11, <1>12, <1>13, <1>14, <1>15

LEMMA StartInv ==
    ASSUME ImportInv, NEW j \in Imports, NEW form \in Forms, StartImport(j, form)
    PROVE  ImportInv'
<1> PICK m : m = imports[j]
    OBVIOUS
<1>1. imports \in [Imports -> ImportForm] /\ m \in ImportForm /\ JobInv(m) /\ OwnInv(j) /\ registry \subseteq Imports
    BY DEF ImportInv, ImportTypes
<1>2. m.status = "none" /\ registry' = registry \cup {j} /\ UNCHANGED <<table, reader>>
    BY DEF StartImport
<1>3. PICK parsed \in Parse(form) :
         imports' = [imports EXCEPT ![j].status = "pending", ![j].pc = "start",
                                    ![j].entries = parsed.entries, ![j].warnings = parsed.warnings]
    BY DEF StartImport
<1>4. parsed.entries \in Seq(EntryForm) /\ parsed.warnings \in Nat
    BY ParsedEntries
<1> DEFINE n == [m EXCEPT !.status = "pending", !.pc = "start", !.entries = parsed.entries,
                          !.warnings = parsed.warnings]
<1>5. n \in ImportForm /\ JobInv(n) /\ Onward(m, n)
    BY <1>1, <1>2, <1>4, StartStep
<1>6. imports' = [imports EXCEPT ![j] = n]
    BY <1>1, <1>3
<1>7. n.added = m.added /\ n.lost = m.lost
    BY <1>1 DEF ImportForm
<1> HIDE DEF n
<1>8. \A i \in Imports : Own(i)' = Own(i)
    BY <1>2 DEF Own
<1>9. OwnInv(j)' /\ RegistryInv(j)'
    BY <1>1, <1>2, <1>6, <1>7, <1>8 DEF OwnInv, RegistryInv
<1>10. table' \in [Numbers -> Imports \cup {Nobody, Legacy}]
    BY <1>2 DEF ImportInv, ImportTypes
<1> QED BY <1>1, <1>2, <1>5, <1>6, <1>8, <1>9, <1>10, JobMoves

LEMMA RowInsertInv ==
    ASSUME ImportInv, NEW j \in Imports, RowInsert(j)
    PROVE  ImportInv'
<1> PICK m : m = imports[j]
    OBVIOUS
<1>1. /\ imports \in [Imports -> ImportForm] /\ m \in ImportForm /\ JobInv(m) /\ OwnInv(j) /\ RegistryInv(j)
      /\ registry \subseteq Imports /\ table \in [Numbers -> Imports \cup {Nobody, Legacy}]
    BY DEF ImportInv, ImportTypes
<1>2. m.pc \in {"check", "row"} /\ m.out = NoEvent /\ m.pos <= Len(m.entries)
    BY DEF RowInsert, AtRow, At, RowsLeft
<1>3. UNCHANGED <<registry, reader>>
    BY DEF RowInsert
<1> PICK k : k = m.entries[m.pos].number
    OBVIOUS
<1>4. k \in Numbers
    <2>1. m.entries \in Seq(EntryForm) /\ m.pos \in 1..Len(m.entries)
        BY <1>1, <1>2, JobTypes
    <2>2. m.entries[m.pos] \in EntryForm
        BY <2>1
    <2> QED BY <2>2 DEF EntryForm
<1>5. Nobody # j /\ Legacy # j
    BY ImportAssumption
<1>6. CASE imports' = [imports EXCEPT ![j].errors = @ + 1, ![j].out = "row", ![j].pc = "count"] /\ UNCHANGED table
    <2> DEFINE n == [m EXCEPT !.errors = @ + 1, !.out = "row", !.pc = "count"]
    <2>1. JobStep(m, n) /\ imports' = [imports EXCEPT ![j] = n]
        BY <1>1, <1>2, <1>6, ErrorStep
    <2>2. n.added = m.added /\ n.lost = m.lost
        BY <1>1 DEF ImportForm
    <2> HIDE DEF n
    <2> QED BY <1>3, <1>6, <2>1, <2>2, JobMovesOn
<1>7. CASE imports' = [imports EXCEPT ![j].skipped = @ + 1, ![j].out = "row", ![j].pc = "count"] /\ UNCHANGED table
    <2> DEFINE n == [m EXCEPT !.skipped = @ + 1, !.out = "row", !.pc = "count"]
    <2>1. JobStep(m, n) /\ imports' = [imports EXCEPT ![j] = n]
        BY <1>1, <1>2, <1>7, SkippedStep
    <2>2. n.added = m.added /\ n.lost = m.lost
        BY <1>1 DEF ImportForm
    <2> HIDE DEF n
    <2> QED BY <1>3, <1>7, <2>1, <2>2, JobMovesOn
<1>8. ASSUME table[k] = Nobody, table' = [table EXCEPT ![k] = j]
      PROVE  /\ table' \in [Numbers -> Imports \cup {Nobody, Legacy}]
             /\ \A i \in Imports \ {j} : Own(i)' = Own(i)
             /\ IsFiniteSet(Own(j)') /\ Cardinality(Own(j)') = Cardinality(Own(j)) + 1
             /\ Cardinality(Own(j)) \in Nat
    <2>1. table' \in [Numbers -> Imports \cup {Nobody, Legacy}]
        BY <1>1, <1>8
    <2>2. \A i \in Imports \ {j} : Own(i)' = Own(i)
        <3> TAKE i \in Imports \ {j}
        <3>1. i # Nobody
            BY ImportAssumption
        <3> QED BY <1>1, <1>4, <1>8, <3>1 DEF Own
    <2>3. Own(j)' = Own(j) \cup {k} /\ k \notin Own(j)
        BY <1>1, <1>4, <1>5, <1>8 DEF Own
    <2>4. IsFiniteSet(Own(j))
        BY <1>1 DEF OwnInv
    <2>5. IsFiniteSet(Own(j) \cup {k}) /\ Cardinality(Own(j) \cup {k}) = Cardinality(Own(j)) + 1
        BY <2>3, <2>4, FS_AddElement
    <2> QED BY <2>1, <2>2, <2>3, <2>4, <2>5, FS_CardinalityType
<1>9. CASE /\ table[k] = Nobody /\ table' = [table EXCEPT ![k] = j]
           /\ imports' = [imports EXCEPT ![j].added = @ + 1, ![j].out = "row", ![j].pc = "count"]
    <2> DEFINE n == [m EXCEPT !.added = @ + 1, !.out = "row", !.pc = "count"]
    <2>1. /\ n \in ImportForm /\ JobInv(n) /\ Onward(m, n) /\ StillUnderWay(m, n)
          /\ imports' = [imports EXCEPT ![j] = n]
        BY <1>1, <1>2, <1>9, AddedStep DEF JobStep
    <2>2. n.added = m.added + 1 /\ n.lost = m.lost /\ m.added \in Nat /\ m.lost \in BOOLEAN
        BY <1>1 DEF ImportForm
    <2> HIDE DEF n
    <2>3. imports'[j] = n
        BY <1>1, <2>1
    <2>4. OwnInv(j)'
        BY <1>1, <1>8, <1>9, <2>2, <2>3 DEF OwnInv
    <2>5. RegistryInv(j)'
        BY <1>1, <1>3, <2>1, <2>3 DEF RegistryInv, StillUnderWay
    <2> QED BY <1>1, <1>3, <1>8, <1>9, <2>1, <2>4, <2>5, JobMoves
<1>10. CASE /\ table[k] = Nobody /\ table' = [table EXCEPT ![k] = j]
            /\ imports' = [imports EXCEPT ![j].errors = @ + 1, ![j].out = "row", ![j].pc = "count",
                                          ![j].lost = TRUE]
    <2> DEFINE n == [m EXCEPT !.errors = @ + 1, !.out = "row", !.pc = "count", !.lost = TRUE]
    <2>1. /\ n \in ImportForm /\ JobInv(n) /\ Onward(m, n) /\ StillUnderWay(m, n)
          /\ imports' = [imports EXCEPT ![j] = n]
        BY <1>1, <1>2, <1>10, LostStep DEF JobStep
    <2>2. n.added = m.added /\ n.lost /\ m.added \in Nat
        BY <1>1 DEF ImportForm
    <2> HIDE DEF n
    <2>3. imports'[j] = n
        BY <1>1, <2>1
    <2>4. OwnInv(j)'
        BY <1>1, <1>8, <1>10, <2>2, <2>3 DEF OwnInv
    <2>5. RegistryInv(j)'
        BY <1>1, <1>3, <2>1, <2>3 DEF RegistryInv, StillUnderWay
    <2> QED BY <1>1, <1>3, <1>8, <1>10, <2>1, <2>4, <2>5, JobMoves
<1>11. \/ imports' = [imports EXCEPT ![j].errors = @ + 1, ![j].out = "row", ![j].pc = "count"] /\ UNCHANGED table
       \/ imports' = [imports EXCEPT ![j].skipped = @ + 1, ![j].out = "row", ![j].pc = "count"] /\ UNCHANGED table
       \/ /\ table[k] = Nobody /\ table' = [table EXCEPT ![k] = j]
          /\ imports' = [imports EXCEPT ![j].added = @ + 1, ![j].out = "row", ![j].pc = "count"]
       \/ /\ table[k] = Nobody /\ table' = [table EXCEPT ![k] = j]
          /\ imports' = [imports EXCEPT ![j].errors = @ + 1, ![j].out = "row", ![j].pc = "count",
                                        ![j].lost = TRUE]
    BY DEF RowInsert, Known
<1> QED BY <1>6, <1>7, <1>9, <1>10, <1>11

-----------------------------------------------------------------------------
(* Everybody else *)

\* The jobs stay as they are, and so does what they own.
LEMMA OthersKeep ==
    ASSUME ImportInv, UNCHANGED <<imports, table>>, ImportTypes',
           \A j \in Imports : RegistryInv(j)' /\ StreamInv(j)'
    PROVE  ImportInv'
<1>1. \A j \in Imports : Own(j)' = Own(j)
    BY DEF Own
<1> QED BY <1>1 DEF ImportInv, OwnInv

LEMMA ConnectInv ==
    ASSUME ImportInv, NEW r \in Readers, NEW j \in Imports, Connect(r, j)
    PROVE  ImportInv'
<1>1. /\ reader[r].state = "off" /\ UNCHANGED <<imports, registry, table>>
      /\ reader' = [reader EXCEPT ![r] = [job |-> j, state |-> "on", last |-> NoEvent]]
    BY DEF Connect
<1>2. ImportTypes /\ Nobody \notin Imports
    BY ImportAssumption DEF ImportInv
<1>3. reader[r].job = Nobody
    BY <1>1, <1>2 DEF ImportTypes
<1>4. /\ reader' \in [Readers -> ReaderForm]
      /\ reader'[r].job = j /\ reader'[r].state = "on"
      /\ \A s \in Readers \ {r} : reader'[s] = reader[s]
    BY <1>1, <1>2 DEF ImportTypes, ReaderForm
<1>5. ImportTypes'
    BY <1>1, <1>2, <1>4 DEF ImportTypes
<1>6. ASSUME NEW i \in Imports PROVE RegistryInv(i)' /\ StreamInv(i)'
    <2>1. RegistryInv(i) /\ StreamInv(i)
        BY DEF ImportInv
    <2>2. \A s \in Readers : reader[s].job = i => s # r
        BY <1>2, <1>3
    <2>3. \A s \in Readers \ {r} : reader[s].job = i /\ Alone(s)' => Alone(s)
        BY <1>2, <1>3, <1>4 DEF Alone
    <2>4. Drained(imports[i]) => \E s \in Readers : reader'[s].job = i
        BY <1>4, <2>1, <2>2 DEF StreamInv
    <2>5. Drained(imports[j]) => ~Alone(r)'
        <3>1. StreamInv(j)
            BY DEF ImportInv
        <3>2. Drained(imports[j]) => \E s \in Readers : reader[s].job = j
            BY <3>1 DEF StreamInv
        <3> QED BY <1>2, <1>3, <1>4, <3>2 DEF Alone
    <2>6. ASSUME NEW s \in Readers, reader'[s].job = i
          PROVE  /\ reader'[s].state # "off"
                 /\ reader'[s].state = "closed" => imports[i].closed /\ imports[i].events = <<>>
                 /\ Drained(imports[i]) /\ Alone(s)' /\ reader'[s].state \in {"on", "closed"}
                       => reader'[s].last = "done"
        <3>1. CASE s = r
            BY <1>4, <2>5, <2>6, <3>1
        <3>2. CASE s # r
            BY <1>4, <2>1, <2>3, <2>6, <3>2 DEF StreamInv
        <3> QED BY <3>1, <3>2
    <2>7. StreamInv(i)'
        BY <1>1, <2>4, <2>6 DEF StreamInv
    <2> QED BY <1>1, <2>1, <2>7 DEF RegistryInv
<1> QED BY <1>1, <1>5, <1>6, OthersKeep

\* A stream ends or is left.
LEMMA StreamEndsInv ==
    ASSUME ImportInv, NEW r \in Readers, StreamEnds(r) \/ Leave(r)
    PROVE  ImportInv'
<1>1. UNCHANGED <<imports, registry, table>> /\ reader[r].state = "on"
    BY DEF StreamEnds, Leave
<1>2. ImportTypes
    BY DEF ImportInv
<1>3. PICK state \in {"closed", "gone"} :
         /\ reader' = [reader EXCEPT ![r].state = state]
         /\ state = "closed" => imports[reader[r].job].events = <<>> /\ imports[reader[r].job].closed
    BY DEF StreamEnds, Leave
<1>4. /\ reader' \in [Readers -> ReaderForm]
      /\ reader'[r].job = reader[r].job /\ reader'[r].state = state /\ reader'[r].last = reader[r].last
      /\ \A s \in Readers \ {r} : reader'[s] = reader[s]
    BY <1>2, <1>3 DEF ImportTypes, ReaderForm
<1>5. ImportTypes'
    BY <1>1, <1>2, <1>4 DEF ImportTypes
<1>6. \A s \in Readers : reader'[s].job = reader[s].job /\ reader'[s].last = reader[s].last
    BY <1>4
<1>7. \A s \in Readers : Alone(s)' <=> Alone(s)
    BY <1>6 DEF Alone
<1>8. ASSUME NEW i \in Imports PROVE RegistryInv(i)' /\ StreamInv(i)'
    <2>1. RegistryInv(i) /\ StreamInv(i)
        BY DEF ImportInv
    <2>2. StreamInv(i)'
        BY <1>1, <1>3, <1>4, <1>6, <1>7, <2>1 DEF StreamInv
    <2> QED BY <1>1, <2>1, <2>2 DEF RegistryInv
<1> QED BY <1>1, <1>5, <1>8, OthersKeep

LEMMA ReapInv ==
    ASSUME ImportInv, NEW j \in Imports, Reap(j)
    PROVE  ImportInv'
<1>1. /\ imports[j].status \in Ended /\ registry' = registry \ {j}
      /\ UNCHANGED <<imports, table, reader>>
    BY DEF Reap, Collectable
<1>2. ImportTypes'
    BY <1>1 DEF ImportInv, ImportTypes
<1>3. ASSUME NEW i \in Imports PROVE RegistryInv(i)' /\ StreamInv(i)'
    <2>1. RegistryInv(i) /\ StreamInv(i)
        BY DEF ImportInv
    <2>2. \A s \in Readers : Alone(s)' <=> Alone(s)
        BY <1>1 DEF Alone
    <2> QED BY <1>1, <2>1, <2>2 DEF RegistryInv, StreamInv, Ended
<1> QED BY <1>1, <1>2, <1>3, OthersKeep

LEMMA SubmitRangeInv ==
    ASSUME ImportInv, NEW range \in Ranges, SubmitRange(range)
    PROVE  ImportInv'
<1>1. /\ table' = [n \in Numbers |-> IF n \in range /\ ~Known(n) THEN Legacy ELSE table[n]]
      /\ UNCHANGED <<imports, registry, reader>>
    BY DEF SubmitRange
<1>2. ImportTypes
    BY DEF ImportInv
<1>3. ImportTypes'
    BY <1>1, <1>2 DEF ImportTypes
<1>4. ASSUME NEW j \in Imports PROVE Own(j)' = Own(j)
    <2>1. j # Nobody /\ j # Legacy
        BY ImportAssumption
    <2> QED BY <1>1, <1>2, <2>1 DEF Own, Known, ImportTypes
<1>5. ASSUME NEW j \in Imports
      PROVE  JobInv(imports'[j]) /\ OwnInv(j)' /\ RegistryInv(j)' /\ StreamInv(j)'
    <2>1. JobInv(imports[j]) /\ OwnInv(j) /\ RegistryInv(j) /\ StreamInv(j)
        BY DEF ImportInv
    <2>2. \A s \in Readers : Alone(s)' <=> Alone(s)
        BY <1>1 DEF Alone
    <2> QED BY <1>1, <1>4, <2>1, <2>2 DEF OwnInv, RegistryInv, StreamInv
<1> QED BY <1>3, <1>5 DEF ImportInv

LEMMA TakeInv ==
    ASSUME ImportInv, NEW r \in Readers, Take(r)
    PROVE  ImportInv'
<1> PICK j : j = reader[r].job
    OBVIOUS
<1> PICK m : m = imports[j]
    OBVIOUS
<1>1. ImportTypes /\ reader[r].state = "on" /\ m.events # <<>> /\ UNCHANGED <<registry, table>>
    BY DEF ImportInv, Take
<1>2. j \in Imports
    BY <1>1 DEF ImportTypes, ReaderForm
<1>3. m \in ImportForm /\ JobInv(m) /\ StreamInv(j)
    BY <1>1, <1>2 DEF ImportInv, ImportTypes
<1> DEFINE n == [m EXCEPT !.events = Tail(@)]
<1>4. /\ n \in ImportForm /\ JobInv(n) /\ n.status = m.status /\ n.closed = m.closed
      /\ n.added = m.added /\ n.lost = m.lost /\ n.waits = m.waits
      /\ Drained(n) => Head(m.events) = "done"
    BY <1>1, <1>3, TakenStep
<1>5. imports' = [imports EXCEPT ![j] = n]
    BY <1>1, <1>2 DEF Take, ImportTypes
<1> HIDE DEF n
<1>6. imports' \in [Imports -> ImportForm] /\ imports'[j] = n /\ \A i \in Imports \ {j} : imports'[i] = imports[i]
    BY <1>1, <1>2, <1>4, <1>5 DEF ImportTypes
<1>7. \/ reader' = [reader EXCEPT ![r].last = Head(m.events)]
      \/ reader' = [reader EXCEPT ![r].state = "gone"]
    BY DEF Take
<1>8. Head(m.events) \in Kinds
    BY <1>1, <1>3, JobTypes, HeadTailProperties
<1>9. /\ reader' \in [Readers -> ReaderForm]
      /\ \A s \in Readers \ {r} : reader'[s] = reader[s]
      /\ reader'[r].job = j
      /\ \/ reader'[r].state = "on" /\ reader'[r].last = Head(m.events)
         \/ reader'[r].state = "gone"
    BY <1>1, <1>7, <1>8 DEF ImportTypes, ReaderForm
<1>10. ImportTypes'
    <2>1. Nobody \notin Imports
        BY ImportAssumption
    <2> QED BY <1>1, <1>2, <1>6, <1>9, <2>1 DEF ImportTypes
<1>11. \A s \in Readers : reader'[s].job = reader[s].job
    BY <1>9
<1>12. \A s \in Readers : Alone(s)' <=> Alone(s)
    BY <1>11 DEF Alone
<1>13. ASSUME NEW i \in Imports PROVE JobInv(imports'[i]) /\ OwnInv(i)' /\ RegistryInv(i)'
    <2>1. JobInv(imports[i]) /\ OwnInv(i) /\ RegistryInv(i) /\ Own(i)' = Own(i)
        BY <1>1 DEF ImportInv, Own
    <2>2. imports'[i].added = imports[i].added /\ imports'[i].lost = imports[i].lost
          /\ imports'[i].status = imports[i].status /\ JobInv(imports'[i])
        BY <1>4, <1>6, <2>1
    <2> QED BY <1>1, <2>1, <2>2 DEF OwnInv, RegistryInv
<1>14. ASSUME NEW i \in Imports PROVE StreamInv(i)'
    <2>1. StreamInv(i)
        BY DEF ImportInv
    <2>2. CASE i # j
        <3>1. \A s \in Readers : reader[s].job = i => reader'[s] = reader[s]
            BY <1>9, <2>2
        <3> QED BY <1>6, <1>11, <1>12, <2>1, <2>2, <3>1 DEF StreamInv
    <2>3. CASE i = j
        <3>1. \E s \in Readers : reader'[s].job = i
            BY <1>9, <2>3
        <3>2. ASSUME NEW s \in Readers, reader'[s].job = i
              PROVE  /\ reader'[s].state # "off"
                     /\ reader'[s].state = "closed" => n.closed /\ n.events = <<>>
                     /\ Drained(n) /\ Alone(s)' /\ reader'[s].state \in {"on", "closed"}
                           => reader'[s].last = "done"
            <4>1. CASE s = r
                BY <1>4, <1>9, <4>1
            <4>2. CASE s # r
                <5>1. ~Alone(s)
                    BY <1>11, <2>3, <3>2, <4>2 DEF Alone
                <5>2. reader'[s].state # "off" /\ reader'[s].state # "closed"
                    BY <1>1, <1>9, <1>11, <2>1, <2>3, <3>2, <4>2 DEF StreamInv
                <5> QED BY <1>12, <5>1, <5>2
            <4> QED BY <4>1, <4>2
        <3> QED BY <1>6, <2>3, <3>1, <3>2 DEF StreamInv
    <2> QED BY <2>2, <2>3
<1> QED BY <1>10, <1>13, <1>14 DEF ImportInv

LEMMA ImportInitInv == ImportInit => ImportInv
<1> SUFFICES ASSUME ImportInit PROVE ImportInv
    OBVIOUS
<1>1. /\ imports = [j \in Imports |-> NewImport] /\ registry = {}
      /\ table = [n \in Numbers |-> Nobody] /\ reader = [r \in Readers |-> NoReader]
    BY DEF ImportInit
<1>2. Nobody \notin Imports
    BY ImportAssumption
<1>3. <<>> \in Seq(EntryForm) /\ <<>> \in Seq(Kinds) /\ Len(<<>>) = 0 /\ 0 \in 0..Deadline
    BY ImportAssumption, EmptySeq
<1>4. NewImport \in ImportForm
    BY <1>3 DEF NewImport, ImportForm, Status, Places
<1>5. ImportTypes
    BY <1>1, <1>2, <1>4 DEF ImportTypes, NoReader, ReaderForm
<1>6. JobInv(NewImport) /\ ~Drained(NewImport)
    BY <1>3 DEF NewImport, JobInv, Uncounted, StatusAtPlace, Position, AddsUp, LastWords, Warned, Halfway,
                DoneSent, Drained, NoEvent
<1>7. ASSUME NEW j \in Imports PROVE OwnInv(j) /\ RegistryInv(j) /\ StreamInv(j)
    <2>1. Own(j) = {}
        BY <1>1, <1>2 DEF Own
    <2>2. IsFiniteSet(Own(j)) /\ Cardinality(Own(j)) = 0
        BY <2>1, FS_EmptySet
    <2>3. OwnInv(j)
        BY <1>1, <2>2 DEF OwnInv, NewImport
    <2> QED BY <1>1, <1>2, <1>6, <2>3 DEF RegistryInv, StreamInv, NewImport, NoReader
<1> QED BY <1>1, <1>5, <1>6, <1>7 DEF ImportInv

LEMMA ImportStepInv == ImportInv /\ [ImportNext]_importVars => ImportInv'
<1> SUFFICES ASSUME ImportInv, [ImportNext]_importVars PROVE ImportInv'
    OBVIOUS
<1>1. ASSUME NEW j \in Imports, WorkerStep(j) \/ Expire(j) PROVE ImportInv'
    BY <1>1, WorkerInv, RowInsertInv DEF WorkerStep
<1>2. ASSUME NEW j \in Imports, (\E form \in Forms : StartImport(j, form)) \/ Reap(j) PROVE ImportInv'
    BY <1>2, StartInv, ReapInv
<1>3. ASSUME NEW r \in Readers, ReaderStep(r) \/ Leave(r) \/ \E j \in Imports : Connect(r, j) PROVE ImportInv'
    BY <1>3, TakeInv, StreamEndsInv, ConnectInv DEF ReaderStep
<1>4. CASE \E range \in Ranges : SubmitRange(range)
    BY <1>4, SubmitRangeInv
<1>5. CASE UNCHANGED importVars
    <2>1. UNCHANGED <<imports, registry, table, reader>>
        BY <1>5 DEF importVars
    <2>2. ImportTypes'
        BY <2>1 DEF ImportInv, ImportTypes
    <2>3. ASSUME NEW i \in Imports PROVE RegistryInv(i)' /\ StreamInv(i)'
        <3>1. \A s \in Readers : Alone(s)' <=> Alone(s)
            BY <2>1 DEF Alone
        <3>2. RegistryInv(i) /\ StreamInv(i)
            BY DEF ImportInv
        <3> QED BY <2>1, <3>1, <3>2 DEF RegistryInv, StreamInv
    <2> QED BY <2>1, <2>2, <2>3, OthersKeep
<1> QED BY <1>1, <1>2, <1>3, <1>4, <1>5 DEF ImportNext

LEMMA ImportInvariant == ImportSpec => []ImportInv
BY ImportInitInv, ImportStepInv, PTL DEF ImportSpec

-----------------------------------------------------------------------------
(* What a step does to a job's verdict and to its channel *)

\* The worker sets a status once, and sends one event at a time where there is room.
LEMMA WorkerEffect ==
    ASSUME ImportInv, NEW j \in Imports, WorkerStep(j) \/ Expire(j)
    PROVE  /\ \A i \in Imports \ {j} : imports'[i] = imports[i]
           /\ imports[j].status \in Ended => imports'[j].status = imports[j].status
           /\ \/ imports'[j].events = imports[j].events
              \/ /\ imports[j].out # NoEvent /\ Len(imports[j].events) < Buffer
                 /\ imports'[j].events = Append(imports[j].events, imports[j].out)
<1> PICK m : m = imports[j]
    OBVIOUS
<1>1. imports \in [Imports -> ImportForm] /\ m \in ImportForm /\ JobInv(m)
    BY DEF ImportInv, ImportTypes
<1>2. m.pc \in {"start", "warn", "check", "row", "count"} => m.status \notin Ended
    BY <1>1 DEF JobInv, StatusAtPlace, Ended
<1>3. CASE Begin(j) \/ Progress(j) \/ LastEvent(j) \/ Close(j) \/ RowCounted(j)
    BY <1>1, <1>2, <1>3 DEF ImportForm, Begin, Progress, LastEvent, Close, RowCounted, At
<1>10. CASE RowIncomplete(j)
    BY <1>1, <1>10 DEF ImportForm, RowIncomplete
<1>4. CASE Warn(j)
    BY <1>1, <1>4 DEF ImportForm, Warn
<1>5. CASE Cancel(j) \/ Panic(j)
    <2>1. m.status \notin Ended
        BY <1>2, <1>5 DEF Cancel, Panic, At
    <2>2. Cancelled(m) \in ImportForm /\ Cancelled(m).events = m.events
        BY <1>1 DEF ImportForm, Cancelled, Status, Places, Kinds
    <2>3. \/ imports' = [imports EXCEPT ![j] = Cancelled(m)]
          \/ imports' = [imports EXCEPT ![j] = [Cancelled(m) EXCEPT !.panicked = TRUE]]
        BY <1>1, <1>5 DEF Cancel, Panic
    <2> QED BY <1>1, <2>1, <2>2, <2>3 DEF ImportForm
<1>6. CASE Finish(j)
    BY <1>1, <1>2, <1>6 DEF ImportForm, Finish, At
<1>7. CASE RowInsert(j)
    BY <1>1, <1>7 DEF ImportForm, RowInsert
<1>8. CASE Emit(j)
    BY <1>1, <1>8 DEF ImportForm, Emit
<1>9. CASE Drop(j) \/ Expire(j)
    BY <1>1, <1>9 DEF ImportForm, Drop, Expire
<1> QED BY <1>3, <1>4, <1>5, <1>6, <1>7, <1>8, <1>9, <1>10 DEF WorkerStep

\* So a verdict stands, a closed channel only empties, and none outgrows its buffer.
LEMMA JobsMove ==
    ASSUME ImportInv, [ImportNext]_importVars, NEW i \in Imports
    PROVE  /\ imports[i].status \in Ended => imports'[i].status = imports[i].status
           /\ imports[i].closed => Len(imports'[i].events) <= Len(imports[i].events)
           /\ Len(imports[i].events) <= Buffer => Len(imports'[i].events) <= Buffer
<1> PICK m : m = imports[i]
    OBVIOUS
<1>1. imports \in [Imports -> ImportForm] /\ m \in ImportForm /\ JobInv(m)
    BY DEF ImportInv, ImportTypes
<1>2. m.events \in Seq(Kinds) /\ Len(m.events) \in Nat /\ Buffer \in Nat
    BY <1>1, JobTypes, ImportAssumption
<1>3. ASSUME NEW j \in Imports, WorkerStep(j) \/ Expire(j)
      PROVE  /\ m.status \in Ended => imports'[i].status = m.status
             /\ m.closed => Len(imports'[i].events) <= Len(m.events)
             /\ Len(m.events) <= Buffer => Len(imports'[i].events) <= Buffer
    <2>1. m.out # NoEvent => ~m.closed /\ m.out \in Kinds
        BY <1>1, JobTypes DEF JobInv, LastWords
    <2>2. m.out \in Kinds => Len(Append(m.events, m.out)) = Len(m.events) + 1
        BY <1>2, AppendProperties
    <2> QED BY <1>2, <1>3, <2>1, <2>2, WorkerEffect
<1>4. ASSUME NEW j \in Imports, NEW form \in Forms, StartImport(j, form)
      PROVE  imports'[i].events = m.events /\ (m.status \in Ended => imports'[i].status = m.status)
    BY <1>1, <1>4 DEF StartImport, ImportForm, Ended
<1>5. ASSUME NEW r \in Readers, Take(r)
      PROVE  imports'[i].status = m.status /\ Len(imports'[i].events) <= Len(m.events)
    <2>1. CASE i # reader[r].job
        BY <1>1, <1>2, <1>5, <2>1 DEF Take
    <2>2. CASE i = reader[r].job
        <3>1. m.events # <<>> /\ imports'[i].status = m.status /\ imports'[i].events = Tail(m.events)
            BY <1>1, <1>5, <2>2 DEF Take, ImportForm
        <3> QED BY <1>2, <3>1, HeadTailProperties
    <2> QED BY <2>1, <2>2
<1>6. \/ \E j \in Imports : WorkerStep(j) \/ Expire(j) \/ \E form \in Forms : StartImport(j, form)
      \/ \E r \in Readers : Take(r)
      \/ imports' = imports
    BY DEF ImportNext, importVars, ReaderStep, StreamEnds, Leave, Connect, Reap, SubmitRange
<1>7. imports' = imports => imports'[i] = m
    OBVIOUS
<1>8. ASSUME NEW n \in Seq(Kinds), Len(n) <= Len(m.events) PROVE Len(m.events) <= Buffer => Len(n) <= Buffer
    BY <1>2, <1>8
<1>9. imports'[i].events \in Seq(Kinds)
    BY ImportStepInv, JobTypes DEF ImportInv, ImportTypes
<1> QED BY <1>2, <1>3, <1>4, <1>5, <1>6, <1>7, <1>8, <1>9

\* The import keeps its types: a job's position is one of its rows or just behind them, and
\* the channel never holds more than its buffer (newJob, emit).
THEOREM ImportTypeCorrect == ImportSpec => []ImportTypeOK
<1> DEFINE Fits == \A j \in Imports : Len(imports[j].events) <= Buffer
<1>1. ImportInit => Fits
    BY ImportAssumption, EmptySeq DEF ImportInit, NewImport
<1>2. ImportInv /\ Fits /\ [ImportNext]_importVars => Fits'
    BY JobsMove
<1>3. ASSUME ImportInv, Fits PROVE ImportTypeOK
    <2>1. ImportTypes
        BY <1>3 DEF ImportInv
    <2>2. ASSUME NEW j \in Imports, NEW m \in ImportForm, m = imports[j]
          PROVE  /\ m.status \in Status /\ m.pc \in Places
                 /\ m.warnings \in Nat /\ m.pos \in 1..(Len(m.entries) + 1)
                 /\ {m.added, m.skipped, m.errors, m.processed} \subseteq Nat
                 /\ m.out \in Kinds \cup {NoEvent}
                 /\ m.events \in Seq(Kinds) /\ Len(m.events) <= Buffer
                 /\ {m.closed, m.late, m.lost, m.panicked} \subseteq BOOLEAN
                 /\ m.waits \in 0..Deadline
        <3>1. JobInv(m) /\ Len(m.events) <= Buffer
            BY <1>3, <2>2 DEF ImportInv
        <3>2. m.pos \in 1..(Len(m.entries) + 1)
            BY <3>1, JobTypes DEF JobInv, Position
        <3> QED BY <3>1, <3>2, JobTypes
    <2> QED BY <2>1, <2>2 DEF ImportTypeOK, ImportTypes, ReaderForm
<1> HIDE DEF Fits
<1> QED BY <1>1, <1>2, <1>3, ImportInvariant, PTL DEF ImportSpec

\* An import that ended, done or errored, keeps that verdict, and its worker never sends on
\* the channel it has closed (setStatus, emit, the deferred close of Run).
THEOREM VerdictStands == ImportSpec => EndIsFinal
<1> DEFINE Final == \A j \in Imports :
                       /\ imports[j].status \in Ended => imports'[j].status = imports[j].status
                       /\ imports[j].closed => Len(imports'[j].events) <= Len(imports[j].events)
<1>1. ImportInv /\ [ImportNext]_importVars => [Final]_importVars
    BY JobsMove
<1> QED BY <1>1, ImportInvariant, PTL DEF ImportSpec, EndIsFinal

\* What the import's summary says adds up: the rows and warnings of a job are each counted
\* once, and a job that says done has been through them all (Run).
THEOREM SummaryAddsUp == ImportSpec => []CountersAddUp
<1>1. ASSUME ImportInv PROVE CountersAddUp
    <2> SUFFICES ASSUME NEW j \in Imports, ~imports[j].panicked
                 PROVE  /\ imports[j].added + imports[j].skipped + imports[j].errors
                             = imports[j].processed + Warned(imports[j]) + Halfway(imports[j])
                        /\ imports[j].status = "done" => imports[j].processed = Len(imports[j].entries)
        BY DEF CountersAddUp, Warned, Halfway
    <2> QED BY <1>1 DEF ImportInv, JobInv, AddsUp
<1> QED BY <1>1, ImportInvariant, PTL

\* Two jobs, or a job and the older form, never both report the same number as added:
\* INSERT ... ON CONFLICT DO NOTHING gives it to one of them (processRow, didImportSubmit).
THEOREM AddedByOne == ImportSpec => []AddedOnce
<1>1. ImportInv => AddedOnce
    BY DEF ImportInv, OwnInv, Own, AddedOnce
<1> QED BY <1>1, ImportInvariant, PTL

\* The reaper takes no job out of the registry that its worker has not ended (reapOnce).
THEOREM RegistryKnows == ImportSpec => []KnownWhileRunning
<1>1. ImportInv => KnownWhileRunning
    BY DEF ImportInv, RegistryInv, KnownWhileRunning
<1> QED BY <1>1, ImportInvariant, PTL

\* A browser alone on its import sees the done event before the stream ends, unless events
\* were dropped (emit, didImportStream).
THEOREM StreamSaysDone == ImportSpec => []LoneReaderSeesDone
<1>1. ASSUME ImportInv PROVE LoneReaderSeesDone
    <2> SUFFICES ASSUME NEW r \in Readers, reader[r].state = "closed", imports[reader[r].job].waits = 0,
                        \A s \in Readers \ {r} : reader[s].job # reader[r].job
                 PROVE  reader[r].last = "done"
        BY DEF LoneReaderSeesDone
    <2>1. ImportTypes
        BY <1>1 DEF ImportInv
    <2>2. reader[r].job \in Imports
        BY <2>1 DEF ImportTypes, ReaderForm
    <2>3. JobInv(imports[reader[r].job]) /\ StreamInv(reader[r].job)
        BY <1>1, <2>2 DEF ImportInv
    <2>4. imports[reader[r].job].closed /\ imports[reader[r].job].events = <<>>
        BY <2>3 DEF StreamInv
    <2>5. Drained(imports[reader[r].job])
        BY <2>3, <2>4 DEF Drained, DoneSent, JobInv, LastWords
    <2> QED BY <2>3, <2>5 DEF StreamInv, Alone
<1> QED BY <1>1, ImportInvariant, PTL
===============================================================================
