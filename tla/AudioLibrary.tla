---------------------------- MODULE AudioLibrary ----------------------------
(***************************************************************************)
(* The audio clips of the admin GUI: their rows (audio_files), their files *)
(* in the sounds directory, the groups of clips, the DIDs reserved for a   *)
(* clip or a group, and the choice of a clip for each call to a group.     *)
(*                                                                         *)
(* A clip stands for its random basename and a group for its id: neither   *)
(* is used again.  Display names are the numbers of one prefix.  A desk is *)
(* one HTTP request being served; a dialog is one INVITE picking a clip.   *)
(***************************************************************************)
EXTENDS Integers, FiniteSets

CONSTANTS
    Clips, NoClip,
    ClipGroups, NoGroup,
    Lines,              \* DIDs that may be reserved
    Desks, Dialogs,
    MaxName,            \* bound on display names
    BulkSize            \* files in one bulk upload

ASSUME AudioAssumption ==
    /\ NoClip \notin Clips \cup ClipGroups /\ NoGroup \notin ClipGroups
    /\ MaxName \in Nat \ {0} /\ BulkSize \in Nat

VARIABLES
    disk,        \* files in the sounds directory
    drawn,       \* basenames and group ids used so far
    clipName,    \* audio_files: per clip its display name, 0 without a row
    groups,      \* rows of audio_groups
    members,     \* audio_group_members
    reserved,    \* per DID: the clip or group it is reserved for, or neither
    desk,        \* per request: where it is
    lastPlayed,  \* Redis audio_group_last:<group>
    dialog,      \* per INVITE: the choice under way
    unsure,      \* history: clips whose INSERT was taken for failed and was not
    emptied,     \* history: groups whose last member was taken out
    heard        \* history: the clip the last choice put in the key, if that holds

audioVars == <<disk, drawn, clipName, groups, members, reserved, desk, lastPlayed, dialog,
               unsure, emptied, heard>>

AtRest == [kind |-> "rest"]
Tasks ==
    {AtRest}
    \cup [kind : {"convert", "insert", "link"}, name : 1..(MaxName + BulkSize), left : 0..BulkSize,
          group : ClipGroups \cup {NoGroup}, clip : Clips \cup {NoClip}]
    \cup [kind : {"delete", "unlink"}, clip : Clips]
    \cup [kind : {"reserve"}, line : Lines, to : Clips \cup ClipGroups]
    \cup [kind : {"dropGroup"}, group : ClipGroups]

Quiet == [at |-> "off", group |-> NoGroup, pool |-> {}, clip |-> NoClip, before |-> NoClip]

\* The type invariant.
AudioTypeOK ==
    /\ disk \subseteq Clips /\ drawn \subseteq Clips \cup ClipGroups
    /\ clipName \in [Clips -> 0..MaxName]
    /\ \A a, b \in Clips : clipName[a] = clipName[b] /\ clipName[a] # 0 => a = b
    /\ groups \subseteq ClipGroups
    /\ members \in [ClipGroups -> SUBSET Clips]
    /\ reserved \in [Lines -> Clips \cup ClipGroups \cup {NoClip}]
    /\ desk \in [Desks -> Tasks]
    /\ lastPlayed \in [ClipGroups -> Clips \cup {NoClip}]
    /\ dialog \in [Dialogs -> [at : {"off", "ask", "set"}, group : ClipGroups \cup {NoGroup},
                               pool : SUBSET Clips, clip : Clips \cup {NoClip},
                               before : Clips \cup {NoClip}]]
    /\ unsure \subseteq Clips /\ emptied \subseteq ClipGroups
    /\ heard \in [ClipGroups -> Clips \cup {NoClip}]

AudioInit ==
    /\ disk = {} /\ drawn = {}
    /\ clipName = [f \in Clips |-> 0]
    /\ groups = {}
    /\ members = [g \in ClipGroups |-> {}]
    /\ reserved = [l \in Lines |-> NoClip]
    /\ desk = [k \in Desks |-> AtRest]
    /\ lastPlayed = [g \in ClipGroups |-> NoClip]
    /\ dialog = [i \in Dialogs |-> Quiet]
    /\ unsure = {} /\ emptied = {}
    /\ heard = [g \in ClipGroups |-> NoClip]

HasRow(f) == clipName[f] # 0

\* Mutant: no unique index on the display name, and no look at it.
NameNeverTaken(n) == FALSE

NameTaken(n) == \E f \in Clips : clipName[f] = n

PickVars == <<lastPlayed, dialog, heard>>
PlaceVars == <<groups, members, reserved, emptied>>

-----------------------------------------------------------------------------
(* Uploads: a file first, then its row *)

UploadOpen(k, n) ==
    /\ desk[k] = AtRest
    /\ desk' = [desk EXCEPT ![k] = [kind |-> "convert", name |-> n, left |-> 0, group |-> NoGroup,
                                    clip |-> NoClip]]
    /\ UNCHANGED <<disk, drawn, clipName, PlaceVars, PickVars, unsure>>

\* The next number of the prefix, read once, or 1 if that read fails; the names of the
\* other files follow it.
BulkOpen(k, g) ==
    /\ desk[k] = AtRest /\ BulkSize > 0
    /\ g \in groups \cup {NoGroup}
    /\ \E highest \in 0..MaxName :
         /\ highest = 0 \/ NameTaken(highest)
         /\ \A n \in (highest + 1)..MaxName : ~NameTaken(n)
         /\ \E last \in {highest, 0} :
              desk' = [desk EXCEPT ![k] = [kind |-> "convert", name |-> last + 1,
                                           left |-> BulkSize - 1, group |-> g, clip |-> NoClip]]
    /\ UNCHANGED <<disk, drawn, clipName, PlaceVars, PickVars, unsure>>

\* A bulk upload goes on to its next file, whatever became of this one.
NextFile(task) ==
    IF task.left = 0 THEN AtRest
    ELSE [task EXCEPT !.kind = "convert", !.name = @ + 1, !.left = @ - 1, !.clip = NoClip]

\* audio.Convert
Convert(k, f) ==
    /\ desk[k].kind = "convert" /\ desk[k].name <= MaxName
    /\ f \notin drawn
    /\ drawn' = drawn \cup {f}
    /\ disk' = disk \cup {f}
    /\ desk' = [desk EXCEPT ![k].kind = "insert", ![k].clip = f]
    /\ UNCHANGED <<clipName, PlaceVars, PickVars, unsure>>

\* ffmpeg fails or is too slow, and Convert removes what there is of its output.
ConvertFails(k) ==
    /\ desk[k].kind = "convert"
    /\ desk' = [desk EXCEPT ![k] = NextFile(@)]
    /\ UNCHANGED <<disk, drawn, clipName, PlaceVars, PickVars, unsure>>

ClipInsert(k) ==
    LET t == desk[k] IN
    /\ t.kind = "insert" /\ ~NameTaken(t.name)
    /\ clipName' = [clipName EXCEPT ![t.clip] = t.name]
    /\ desk' = [desk EXCEPT ![k] = IF t.group = NoGroup THEN NextFile(t) ELSE [t EXCEPT !.kind = "link"]]
    /\ UNCHANGED <<disk, drawn, PlaceVars, PickVars, unsure>>

\* The name is taken, or the statement fails: the file goes again.  When the request
\* was cancelled under the statement, the row may be there all the same.
ClipRejected(k) ==
    LET t == desk[k] IN
    /\ t.kind = "insert"
    /\ disk' = disk \ {t.clip}
    /\ \/ UNCHANGED <<clipName, unsure>>
       \/ /\ ~NameTaken(t.name)
          /\ clipName' = [clipName EXCEPT ![t.clip] = t.name]
          /\ unsure' = unsure \cup {t.clip}
    /\ desk' = [desk EXCEPT ![k] = NextFile(t)]
    /\ UNCHANGED <<drawn, PlaceVars, PickVars>>

\* Into the group: a failure is logged and forgotten.
Link(k) ==
    LET t == desk[k] IN
    /\ t.kind = "link"
    /\ \/ /\ t.group \in groups /\ HasRow(t.clip)
          /\ members' = [members EXCEPT ![t.group] = @ \cup {t.clip}]
       \/ UNCHANGED members
    /\ desk' = [desk EXCEPT ![k] = NextFile(t)]
    /\ UNCHANGED <<disk, drawn, clipName, groups, reserved, emptied, PickVars, unsure>>

Rename(f, n) ==
    /\ HasRow(f) /\ ~NameTaken(n)
    /\ clipName' = [clipName EXCEPT ![f] = n]
    /\ UNCHANGED <<disk, drawn, PlaceVars, desk, PickVars, unsure>>

-----------------------------------------------------------------------------
(* Deletion: the row first, then the file *)

OnLine(x) == \E l \in Lines : reserved[l] = x

DeleteOpen(k, f) ==
    /\ desk[k] = AtRest
    /\ HasRow(f) /\ ~OnLine(f)
    /\ desk' = [desk EXCEPT ![k] = [kind |-> "delete", clip |-> f]]
    /\ UNCHANGED <<disk, drawn, clipName, PlaceVars, PickVars, unsure>>

\* Mutant: the row is deleted without asking who refers to it.
NeverReferenced(f) == FALSE

\* The foreign keys of dids and audio_group_members, ON DELETE RESTRICT.
Referenced(f) == OnLine(f) \/ \E g \in groups : f \in members[g]

\* Mutant: the file is removed before the DELETE is known to have worked.
DeleteRowFileFirst(k) ==
    LET f == desk[k].clip IN
    /\ desk[k].kind = "delete"
    /\ disk' = disk \ {f}
    /\ IF Referenced(f) THEN desk' = [desk EXCEPT ![k] = AtRest] /\ UNCHANGED clipName
       ELSE /\ clipName' = [clipName EXCEPT ![f] = 0]
            /\ desk' = [desk EXCEPT ![k].kind = "unlink"]
    /\ UNCHANGED <<drawn, PlaceVars, PickVars, unsure>>

DeleteRow(k) ==
    LET f == desk[k].clip IN
    /\ desk[k].kind = "delete"
    /\ IF Referenced(f) THEN desk' = [desk EXCEPT ![k] = AtRest] /\ UNCHANGED clipName
       ELSE /\ clipName' = [clipName EXCEPT ![f] = 0]
            /\ desk' = [desk EXCEPT ![k].kind = "unlink"]
    /\ UNCHANGED <<disk, drawn, PlaceVars, PickVars, unsure>>

DeleteFile(k) ==
    /\ desk[k].kind = "unlink"
    /\ \/ disk' = disk \ {desk[k].clip}
       \/ UNCHANGED disk
    /\ desk' = [desk EXCEPT ![k] = AtRest]
    /\ UNCHANGED <<drawn, clipName, PlaceVars, PickVars, unsure>>

-----------------------------------------------------------------------------
(* Groups *)

GroupCreate(g) ==
    /\ g \notin drawn
    /\ drawn' = drawn \cup {g}
    /\ groups' = groups \cup {g}
    /\ UNCHANGED <<disk, clipName, members, reserved, emptied, desk, PickVars, unsure>>

GroupDeleteOpen(k, g) ==
    /\ desk[k] = AtRest
    /\ g \in groups /\ ~OnLine(g)
    /\ desk' = [desk EXCEPT ![k] = [kind |-> "dropGroup", group |-> g]]
    /\ UNCHANGED <<disk, drawn, clipName, PlaceVars, PickVars, unsure>>

\* Its members go with it; a DID reserved for it by now keeps it.
GroupDelete(k) ==
    LET g == desk[k].group IN
    /\ desk[k].kind = "dropGroup"
    /\ IF OnLine(g) THEN UNCHANGED <<groups, members>>
       ELSE groups' = groups \ {g} /\ members' = [members EXCEPT ![g] = {}]
    /\ desk' = [desk EXCEPT ![k] = AtRest]
    /\ UNCHANGED <<disk, drawn, clipName, reserved, emptied, PickVars, unsure>>

AddMember(g, f) ==
    /\ g \in groups /\ HasRow(f) /\ f \notin members[g]
    /\ members' = [members EXCEPT ![g] = @ \cup {f}]
    /\ UNCHANGED <<disk, drawn, clipName, groups, reserved, emptied, desk, PickVars, unsure>>

\* Nothing keeps the last member of a group that DIDs are reserved for.
RemoveMember(g, f) ==
    /\ f \in members[g]
    /\ members' = [members EXCEPT ![g] = @ \ {f}]
    /\ emptied' = IF members[g] = {f} THEN emptied \cup {g} ELSE emptied
    /\ UNCHANGED <<disk, drawn, clipName, groups, reserved, desk, PickVars, unsure>>

-----------------------------------------------------------------------------
(* Reservations *)

\* didReserve looks at the clip, or the group and the number of its members ...
ReserveOpen(k, l, x) ==
    /\ desk[k] = AtRest
    /\ x \in Clips => HasRow(x)
    /\ x \in ClipGroups => x \in groups /\ members[x] # {}
    /\ desk' = [desk EXCEPT ![k] = [kind |-> "reserve", line |-> l, to |-> x]]
    /\ UNCHANGED <<disk, drawn, clipName, PlaceVars, PickVars, unsure>>

\* ... and then updates the DID, if it is available and the foreign keys hold.
ReserveWrite(k) ==
    LET t == desk[k] IN
    /\ t.kind = "reserve"
    /\ reserved' = IF reserved[t.line] = NoClip /\ (t.to \in Clips => HasRow(t.to))
                                               /\ (t.to \in ClipGroups => t.to \in groups)
                   THEN [reserved EXCEPT ![t.line] = t.to] ELSE reserved
    /\ desk' = [desk EXCEPT ![k] = AtRest]
    /\ UNCHANGED <<disk, drawn, clipName, groups, members, emptied, PickVars, unsure>>

ReleaseLine(l) ==
    /\ reserved[l] # NoClip
    /\ reserved' = [reserved EXCEPT ![l] = NoClip]
    /\ UNCHANGED <<disk, drawn, clipName, groups, members, emptied, desk, PickVars, unsure>>

\* The process stops, or the request times out between two steps.
DeskLost(k) ==
    /\ desk[k] # AtRest
    /\ desk' = [desk EXCEPT ![k] = AtRest]
    /\ UNCHANGED <<disk, drawn, clipName, PlaceVars, PickVars, unsure>>

-----------------------------------------------------------------------------
(* PickMember *)

\* The members, as one query returns them.  Of a single one there is nothing to choose,
\* and the key is left alone.
PickOpen(i, g) ==
    /\ dialog[i].at = "off"
    /\ OnLine(g) /\ Cardinality(members[g]) > 1
    /\ dialog' = [dialog EXCEPT ![i] = [at |-> "ask", group |-> g, pool |-> members[g],
                                        clip |-> NoClip, before |-> heard[g]]]
    /\ UNCHANGED <<disk, drawn, clipName, PlaceVars, desk, lastPlayed, unsure, heard>>

\* Mutant: the clip played last is not taken out.
AllCandidates(pool, last) == pool

Candidates(pool, last) == IF pool \ {last} = {} THEN pool ELSE pool \ {last}

\* GET, and a choice; with Redis out of reach there is no last clip to avoid.
PickChoose(i) ==
    LET g == dialog[i].group IN
    /\ dialog[i].at = "ask"
    /\ \/ \E f \in Candidates(dialog[i].pool, lastPlayed[g]) :
              dialog' = [dialog EXCEPT ![i].at = "set", ![i].clip = f]
       \/ \E f \in dialog[i].pool :
              dialog' = [dialog EXCEPT ![i].at = "set", ![i].clip = f, ![i].before = NoClip]
    /\ UNCHANGED <<disk, drawn, clipName, PlaceVars, desk, lastPlayed, unsure, heard>>

\* What the choices under way in g were going to follow is no longer the last.
Overtaken(g, except) ==
    [i \in Dialogs |-> IF i # except /\ dialog[i].group = g
                       THEN [dialog[i] EXCEPT !.before = NoClip] ELSE dialog[i]]

\* SET, if Redis answers.
PickSet(i) ==
    LET g == dialog[i].group
        f == dialog[i].clip
    IN
    /\ dialog[i].at = "set"
    /\ \/ lastPlayed' = [lastPlayed EXCEPT ![g] = f] /\ heard' = [heard EXCEPT ![g] = f]
       \/ UNCHANGED lastPlayed /\ heard' = [heard EXCEPT ![g] = NoClip]
    /\ dialog' = [Overtaken(g, i) EXCEPT ![i] = Quiet]
    /\ UNCHANGED <<disk, drawn, clipName, PlaceVars, desk, unsure>>

\* The key's five minutes are over.
KeyExpires(g) ==
    /\ lastPlayed[g] # NoClip
    /\ lastPlayed' = [lastPlayed EXCEPT ![g] = NoClip]
    /\ heard' = [heard EXCEPT ![g] = NoClip]
    /\ dialog' = [i \in Dialogs |-> IF dialog[i].group = g
                                    THEN [dialog[i] EXCEPT !.before = NoClip] ELSE dialog[i]]
    /\ UNCHANGED <<disk, drawn, clipName, PlaceVars, desk, unsure>>

-----------------------------------------------------------------------------
DeskNext(k) ==
    \/ \E n \in 1..MaxName : UploadOpen(k, n)
    \/ \E g \in ClipGroups \cup {NoGroup} : BulkOpen(k, g)
    \/ \E f \in Clips : Convert(k, f) \/ DeleteOpen(k, f)
    \/ ConvertFails(k) \/ ClipInsert(k) \/ ClipRejected(k) \/ Link(k)
    \/ DeleteRow(k) \/ DeleteFile(k)
    \/ \E g \in ClipGroups : GroupDeleteOpen(k, g)
    \/ GroupDelete(k)
    \/ \E l \in Lines, x \in Clips \cup ClipGroups : ReserveOpen(k, l, x)
    \/ ReserveWrite(k)
    \/ DeskLost(k)

PickNext(i) == (\E g \in ClipGroups : PickOpen(i, g)) \/ PickChoose(i) \/ PickSet(i)

AudioNext ==
    \/ \E k \in Desks : DeskNext(k)
    \/ \E i \in Dialogs : PickNext(i)
    \/ \E f \in Clips, n \in 1..MaxName : Rename(f, n)
    \/ \E g \in ClipGroups :
        \/ GroupCreate(g) \/ KeyExpires(g)
        \/ \E f \in Clips : AddMember(g, f) \/ RemoveMember(g, f)
    \/ \E l \in Lines : ReleaseLine(l)

AudioSpec == AudioInit /\ [][AudioNext]_audioVars

-----------------------------------------------------------------------------
(* Properties *)

\* Every row of audio_files has its file, whatever uploads, deletions and crashes go on
\* beside each other; except that an upload whose INSERT was cancelled by its client may
\* take a row for missing that is there.
RowHasFile == \A f \in Clips : HasRow(f) /\ f \notin unsure => f \in disk

\* A reserved DID has something to play: its clip has a row; its group exists, has only
\* members with rows, and has one at least unless somebody took the last one out.
ReservationPlays ==
    \A l \in Lines :
        LET x == reserved[l] IN
        /\ x \in Clips => HasRow(x)
        /\ x \in ClipGroups =>
              /\ x \in groups
              /\ \A f \in members[x] : HasRow(f)
              /\ members[x] # {} \/ x \in emptied

\* A call to a group does not play the clip of the call before, unless their choices
\* overlapped, the key expired, Redis failed, or one of them had no choice.
NoRepeat ==
    \A i \in Dialogs :
        dialog[i].at = "set" /\ dialog[i].before # NoClip => dialog[i].clip # dialog[i].before
===============================================================================
