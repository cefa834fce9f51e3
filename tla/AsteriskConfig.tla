--------------------------- MODULE AsteriskConfig ---------------------------
(***************************************************************************)
(* The two PJSIP files that didapi generates: pjsip_users.conf from the    *)
(* SIP accounts of active users, pjsip_suppliers.conf from the members of  *)
(* the suppliers' IP groups.  A handler changes rows and starts a          *)
(* goroutine; the goroutine queries, writes <file>.new, renames it over    *)
(* the file and has Asterisk reload both files.  Nothing keeps two         *)
(* goroutines from writing the same <file>.new.                            *)
(***************************************************************************)
EXTENDS Integers, FiniteSets

CONSTANTS
    Peers,          \* SIP accounts
    PeerUser,       \* per account its user
    Matches,        \* members an IP group can have: addresses, networks, host names
    HostOf,         \* per member the text that host(cidr), or the host name, leaves of it
    Regens          \* goroutines

PeerUsers == {PeerUser[a] : a \in Peers}
Hosts == {HostOf[m] : m \in Matches}

ASSUME ConfigAssumption == Peers \cap Hosts = {} /\ {"cut", "none"} \cap (Peers \cup Hosts) = {}

VARIABLES
    peers,       \* rows of sip_accounts
    activeUsers, \* users whose status is active
    matches,     \* rows of supplier_ip_group_members
    conf,        \* per file: the lines it holds, "cut" if partial
    fresh,       \* per file: the same for <file>.new, "none" without one
    regen,       \* per goroutine: its file, where it is, what it has read, and which of the
                 \* two names its open file has
    loaded,      \* per file: what Asterisk loaded last
    crossed,     \* history: files two goroutines wrote at the same time, until one wrote alone
    missed       \* history: files with a change that no goroutine carried through, until one does

configVars == <<peers, activeUsers, matches, conf, fresh, regen, loaded, crossed, missed>>

Files == {"users", "suppliers"}
CutShort == {"cut"}
NoNew == {"none"}
Texts == SUBSET (Peers \cup Hosts)
Busy == {"asked", "read", "open", "written", "placed"}

IdleRegen == [at |-> "off", file |-> "users", lines |-> {}, handle |-> "gone", clean |-> FALSE]

\* The type invariant.
ConfigTypeOK ==
    /\ peers \subseteq Peers /\ activeUsers \subseteq PeerUsers /\ matches \subseteq Matches
    /\ conf \in [Files -> Texts \cup {CutShort}]
    /\ fresh \in [Files -> Texts \cup {CutShort, NoNew}]
    /\ regen \in [Regens -> [at : Busy \cup {"off"}, file : Files, lines : Texts,
                             handle : {"new", "conf", "gone"}, clean : BOOLEAN]]
    /\ loaded \in [Files -> Texts \cup {CutShort}]
    /\ crossed \subseteq Files /\ missed \subseteq Files

ConfigInit ==
    /\ peers = {} /\ activeUsers = PeerUsers /\ matches = {}
    /\ conf = [f \in Files |-> {}] /\ fresh = [f \in Files |-> NoNew]
    /\ regen = [k \in Regens |-> IdleRegen]
    /\ loaded = conf
    /\ crossed = {} /\ missed = {}

\* The rows a file is made from, as it spells them.
UserLines == {a \in peers : PeerUser[a] \in activeUsers}
SupplierLines == {HostOf[m] : m \in matches}
Wanted(f) == IF f = "users" THEN UserLines ELSE SupplierLines

\* Goroutines that have yet to put their file in place.
Writers(f) == {k \in Regens : regen[k].file = f /\ regen[k].at \in Busy \ {"placed"}}

Tainted(f) == [k \in Regens |-> IF regen[k].file = f THEN [regen[k] EXCEPT !.clean = FALSE] ELSE regen[k]]

\* go regen...(): beside another writer of the file neither is alone.
Launch(k, f) ==
    /\ regen[k].at = "off"
    /\ regen' = [(IF Writers(f) = {} THEN regen ELSE Tainted(f)) EXCEPT
                     ![k] = [IdleRegen EXCEPT !.at = "asked", !.file = f, !.clean = (Writers(f) = {})]]
    /\ crossed' = IF Writers(f) = {} THEN crossed ELSE crossed \cup {f}

Unserved(f) == missed' = missed \cup {f} /\ regen' = Tainted(f)

-----------------------------------------------------------------------------
(* Handlers *)

PeerAdd(k, a) ==
    /\ a \notin peers
    /\ peers' = peers \cup {a}
    /\ Launch(k, "users")
    /\ UNCHANGED <<activeUsers, matches, conf, fresh, loaded, missed>>

PeerDelete(k, a) ==
    /\ a \in peers
    /\ peers' = peers \ {a}
    /\ Launch(k, "users")
    /\ UNCHANGED <<activeUsers, matches, conf, fresh, loaded, missed>>

\* userBlock, userUnblock and userUpdate change the status and start nothing.
UserStatus(u) ==
    /\ activeUsers' = (activeUsers \ {u}) \cup ({u} \ activeUsers)
    /\ Unserved("users")
    /\ UNCHANGED <<peers, matches, conf, fresh, loaded, crossed>>

\* One member or, in bulk, several.
MembersAdd(k, ms) ==
    /\ ms # {} /\ ms \cap matches = {}
    /\ matches' = matches \cup ms
    /\ Launch(k, "suppliers")
    /\ UNCHANGED <<peers, activeUsers, conf, fresh, loaded, missed>>

\* The old row goes and the new one comes in one transaction.
MemberEdit(k, m, n) ==
    /\ m \in matches /\ n \notin matches \ {m}
    /\ matches' = (matches \ {m}) \cup {n}
    /\ Launch(k, "suppliers")
    /\ UNCHANGED <<peers, activeUsers, conf, fresh, loaded, missed>>

\* Mutant: the handler forgets the goroutine.
MemberDeleteQuietly(k, m) ==
    /\ matches' = matches \ {m}
    /\ UNCHANGED <<peers, activeUsers, regen, conf, fresh, loaded, crossed, missed>>

\* ipMemberDelete: one member; one that is gone already starts a goroutine all the same.
MemberDelete(k, m) ==
    /\ matches' = matches \ {m}
    /\ Launch(k, "suppliers")
    /\ UNCHANGED <<peers, activeUsers, conf, fresh, loaded, missed>>

\* A group with the members it has.
GroupOfMembersDelete(k, ms) ==
    /\ ms \subseteq matches
    /\ matches' = matches \ ms
    /\ Launch(k, "suppliers")
    /\ UNCHANGED <<peers, activeUsers, conf, fresh, loaded, missed>>

-----------------------------------------------------------------------------
(* A goroutine *)

\* The rows as they are; or, where the connection is lost on the way, a part of them,
\* which the code takes for all; or an error.
RegenQuery(k) ==
    LET f == regen[k].file IN
    /\ regen[k].at = "asked"
    /\ \/ /\ regen' = [regen EXCEPT ![k].at = "read", ![k].lines = Wanted(f)]
          /\ UNCHANGED missed
       \/ \E part \in SUBSET Wanted(f) :
            /\ regen' = [Tainted(f) EXCEPT ![k].at = "read", ![k].lines = part, ![k].clean = FALSE]
            /\ missed' = missed \cup {f}
       \/ /\ regen' = [Tainted(f) EXCEPT ![k] = IdleRegen]
          /\ missed' = missed \cup {f}
    /\ UNCHANGED <<peers, activeUsers, matches, conf, fresh, loaded, crossed>>

\* Mutant: the file is written in place, without <file>.new.
RegenOpenInPlace(k) ==
    LET f == regen[k].file IN
    /\ regen[k].at = "read"
    /\ regen' = [regen EXCEPT ![k].at = "open", ![k].handle = "conf"]
    /\ conf' = [conf EXCEPT ![f] = CutShort]
    /\ fresh' = [fresh EXCEPT ![f] = {}]
    /\ UNCHANGED <<peers, activeUsers, matches, loaded, crossed, missed>>

\* os.WriteFile: O_TRUNC empties a <file>.new that somebody else has open.
RegenOpen(k) ==
    LET f == regen[k].file IN
    /\ regen[k].at = "read"
    /\ regen' = [regen EXCEPT ![k].at = "open", ![k].handle = "new"]
    /\ fresh' = [fresh EXCEPT ![f] = CutShort]
    /\ UNCHANGED <<peers, activeUsers, matches, conf, loaded, crossed, missed>>

\* Two writers of one file leave a mixture, or the lines of the one that wrote last.
RegenWrite(k) ==
    LET f == regen[k].file
        both == \E l \in Regens \ {k} : /\ regen[l].file = f /\ regen[l].handle = regen[k].handle
                                        /\ regen[l].at \in {"open", "written"}
    IN
    /\ regen[k].at = "open"
    /\ regen' = [regen EXCEPT ![k].at = "written"]
    /\ \E lines \in {regen[k].lines} \cup (IF both THEN {CutShort} ELSE {}) :
         /\ fresh' = IF regen[k].handle = "new" THEN [fresh EXCEPT ![f] = lines] ELSE fresh
         /\ conf' = IF regen[k].handle = "conf" THEN [conf EXCEPT ![f] = lines] ELSE conf
    /\ UNCHANGED <<peers, activeUsers, matches, loaded, crossed, missed>>

\* os.Rename: whoever had <file>.new open now has the file open, and whoever had that, none.
RegenRename(k) ==
    LET f == regen[k].file
        moved == [l \in Regens |->
                    IF regen[l].file # f THEN regen[l]
                    ELSE [regen[l] EXCEPT !.handle = IF @ = "new" THEN "conf" ELSE "gone"]]
    IN
    /\ regen[k].at = "written"
    /\ IF fresh[f] = NoNew
       THEN /\ regen' = [Tainted(f) EXCEPT ![k] = IdleRegen]
            /\ missed' = missed \cup {f}
            /\ UNCHANGED <<conf, fresh>>
       ELSE /\ conf' = [conf EXCEPT ![f] = fresh[f]]
            /\ fresh' = [fresh EXCEPT ![f] = NoNew]
            /\ regen' = [moved EXCEPT ![k].at = "placed"]
            /\ UNCHANGED missed
    /\ UNCHANGED <<peers, activeUsers, matches, loaded, crossed>>

\* asterisk -rx "pjsip reload" reads both files; or it fails.
RegenReload(k) ==
    LET f == regen[k].file IN
    /\ regen[k].at = "placed"
    /\ \/ /\ loaded' = conf
          /\ regen' = [regen EXCEPT ![k] = IdleRegen]
          /\ crossed' = IF regen[k].clean THEN crossed \ {f} ELSE crossed
          /\ missed' = IF regen[k].clean THEN missed \ {f} ELSE missed
       \/ /\ regen' = [Tainted(f) EXCEPT ![k] = IdleRegen]
          /\ missed' = missed \cup {f}
          /\ UNCHANGED <<loaded, crossed>>
    /\ UNCHANGED <<peers, activeUsers, matches, conf, fresh>>

\* didapi stops and starts again: of the two files it rewrites that of the suppliers.
ConfigRestart(k) ==
    /\ regen' = [l \in Regens |->
                   IF l = k THEN [IdleRegen EXCEPT !.at = "asked", !.file = "suppliers", !.clean = TRUE]
                   ELSE IdleRegen]
    /\ missed' = missed \cup {regen[l].file : l \in {x \in Regens : regen[x].at # "off"}}
    /\ UNCHANGED <<peers, activeUsers, matches, conf, fresh, loaded, crossed>>

ConfigNext ==
    \/ \E u \in PeerUsers : UserStatus(u)
    \/ \E k \in Regens :
        \/ RegenQuery(k) \/ RegenOpen(k) \/ RegenWrite(k) \/ RegenRename(k) \/ RegenReload(k)
        \/ ConfigRestart(k)
        \/ \E a \in Peers : PeerAdd(k, a) \/ PeerDelete(k, a)
        \/ \E m \in Matches : MemberDelete(k, m) \/ \E n \in Matches : MemberEdit(k, m, n)
        \/ \E ms \in SUBSET Matches : MembersAdd(k, ms) \/ GroupOfMembersDelete(k, ms)

ConfigSpec == ConfigInit /\ [][ConfigNext]_configVars

-----------------------------------------------------------------------------
(* Properties *)

\* Neither file is ever cut short, though didapi may stop at any moment, unless two
\* goroutines wrote it at the same time.
ConfigIntact == \A f \in Files : f \notin crossed => conf[f] # CutShort

\* Once no goroutine is under way, Asterisk runs what the rows say, unless goroutines
\* crossed, one failed, or a handler changed rows without starting one.
ConfigCatchesUp ==
    (\A k \in Regens : regen[k].at = "off") =>
        \A f \in Files : f \notin crossed \cup missed => loaded[f] = Wanted(f)
===============================================================================
