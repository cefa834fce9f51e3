---------------------------- MODULE MCBackoffice ----------------------------
(***************************************************************************)
(* Instances of the admin GUI's smaller components for TLC.  They share no *)
(* state, so a behaviour explores one of them, or one use of it, and       *)
(* leaves the others in their initial state: part names which.             *)
(***************************************************************************)
EXTENDS DidImport, AudioLibrary, KycDocuments, AsteriskConfig, Snapshots, AdminLogin, Resellers, TLC

CONSTANTS i1, i2, r1, r2, c1, c2, g1, l1, w1, w2, a1, m1, m2, s1, s2

VARIABLE part

officeVars == <<importVars, audioVars, docVars, configVars, snapshotVars, loginVars, resellerVars>>

Row(n, country, notes) == [number |-> n, country |-> country, notes |-> notes]

\* A CSV with a remark and a row without a country; a pasted list with a bad token; a range.
FewForms == {[mode |-> "csv", rows |-> <<Row(2, TRUE, 1), Row(1, FALSE, 0)>>],
             [mode |-> "bulk", rows |-> <<Row(2, TRUE, 0), Row(NoNumber, FALSE, 0)>>],
             [mode |-> "range", from |-> 2, to |-> 2]}
WholeRange == {{1, 2}}
OneUser == a1 :> "u"

\* A network and its first address.
Addresses == m1 :> "h1" @@ m2 :> "h1"

EnvOrNot == {s1, NoWord}

Parts == {"imports", "streams", "uploads", "picks", "docs", "peers", "suppliers", "login", "resellers"}
         \cup Tables

OfficeInit ==
    /\ ImportInit /\ AudioInit /\ DocInit /\ ConfigInit /\ SnapshotInit /\ LoginInit /\ ResellerInit
    /\ part \in Parts
    /\ part = "docs" \/ \A d \in Docs : doc[d].name = CHOOSE n \in FileNames : TRUE

\* Two imports without readers, panics and the reaper, the second of one row; or one
\* import of two lines that two browsers stream.
ImportPart ==
    /\ ImportNext
    /\ \/ /\ part = "imports"
          /\ reader' = reader
          /\ registry \subseteq registry' /\ \A j \in Imports : ~imports'[j].panicked
          /\ Len(imports'[i2].entries) <= 1 /\ imports'[i2].warnings = 0
       \/ /\ part = "streams"
          /\ imports'[i2] = imports[i2]
          /\ imports'[i1].warnings = Len(imports'[i1].entries) /\ table' = [table EXCEPT ![2] = table'[2]]
    /\ UNCHANGED <<audioVars, docVars, configVars, snapshotVars, loginVars, resellerVars>>

\* Two requests without calls, one of them for single uploads and deletions alone; or one
\* request, calls, a name for each clip and DIDs reserved for groups alone.
AudioPart ==
    /\ AudioNext
    /\ \/ /\ part = "uploads"
          /\ UNCHANGED PickVars
          /\ desk'[w2].kind \in {"convert", "insert"} => desk'[w2].left = 0 /\ desk'[w2].group = NoGroup
          /\ desk'[w2].kind \notin {"reserve", "dropGroup"}
       \/ /\ part = "picks"
          /\ desk'[w2] = desk[w2] /\ desk'[w1].kind # "delete"
          /\ clipName'[c1] # 2 /\ clipName'[c2] # 1
          /\ \A l \in Lines : reserved'[l] \notin Clips
    /\ UNCHANGED <<importVars, docVars, configVars, snapshotVars, loginVars, resellerVars>>

DocPart ==
    /\ part = "docs" /\ DocNext
    /\ UNCHANGED <<importVars, audioVars, configVars, snapshotVars, loginVars, resellerVars>>

\* One of the two files.
ConfigPart ==
    /\ ConfigNext
    /\ \/ part = "peers" /\ matches' = matches /\ fresh'["suppliers"] = NoNew
       \/ part = "suppliers" /\ UNCHANGED <<peers, activeUsers>>
    /\ UNCHANGED <<importVars, audioVars, docVars, snapshotVars, loginVars, resellerVars>>

\* One of the three tables, with two values for one key, and for a cause or a setting.
SnapshotPart ==
    /\ part \in Tables /\ SnapshotNext
    /\ stored'[part][s2] <= 1 /\ (part = "domains" => stored'[part][s1] <= 1)
    /\ \A t \in Tables \ {part} : stored'[t] = stored[t] /\ cached'[t] = cached[t]
    /\ UNCHANGED <<importVars, audioVars, docVars, configVars, loginVars, resellerVars>>

LoginPart ==
    /\ part = "login" /\ LoginNext
    /\ UNCHANGED <<importVars, audioVars, docVars, configVars, snapshotVars, resellerVars>>

ResellerPart ==
    /\ part = "resellers" /\ ResellerNext
    /\ UNCHANGED <<importVars, audioVars, docVars, configVars, snapshotVars, loginVars>>

OfficeNext ==
    /\ ImportPart \/ AudioPart \/ DocPart \/ ConfigPart \/ SnapshotPart \/ LoginPart \/ ResellerPart
    /\ UNCHANGED part

OfficeSpec == OfficeInit /\ [][OfficeNext]_<<officeVars, part>> /\ ImportFairness

\* The import alone, with a database that answers.
ImportAlone ==
    /\ OfficeInit /\ part = "imports"
    /\ [][ImportPart /\ UNCHANGED part]_<<officeVars, part>>
    /\ ImportFairness

\* The type invariants, each where its component moves.
BackofficeTypeOK ==
    /\ part \in {"imports", "streams"} => ImportTypeOK
    /\ part \in {"uploads", "picks"} => AudioTypeOK
    /\ part = "docs" => DocTypeOK
    /\ part \in {"peers", "suppliers"} => ConfigTypeOK
    /\ part \in Tables => SnapshotTypeOK
    /\ part = "login" => LoginTypeOK
    /\ part = "resellers" => ResellerTypeOK
===============================================================================
