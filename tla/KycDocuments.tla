---------------------------- MODULE KycDocuments ----------------------------
(***************************************************************************)
(* The documents of one KYC bundle: the file of each under the name that   *)
(* SanitizeFilename leaves of the submitted one, and the row that names    *)
(* it.  Two submitted names may come to one file name, and nothing keeps   *)
(* two documents of a bundle from sharing it.                              *)
(***************************************************************************)
EXTENDS Integers, FiniteSets

CONSTANTS
    Docs,           \* uploads, each a document of its own
    NoDoc,
    FileNames,      \* sanitized names
    Erasers         \* requests that delete a document

ASSUME DocAssumption == NoDoc \notin Docs

VARIABLES
    paper,      \* per name: whose bytes the file holds, "cut" if partial, "none" without a file
    doc,        \* per upload: its name, how far its request is and whether its row is there
    eraser,     \* per deletion: the document it has read, and whether its DELETE is done
    shared,     \* history: documents that had a name together with another one, or with a
                \* deletion under way
    doubted     \* history: documents whose INSERT was taken for failed and was not

docVars == <<paper, doc, eraser, shared, doubted>>

NoFile == "none"
Cut == "cut"

\* The type invariant.
DocTypeOK ==
    /\ paper \in [FileNames -> Docs \cup {NoFile, Cut}]
    /\ doc \in [Docs -> [name : FileNames, row : BOOLEAN, linked : BOOLEAN,
                         at : {"new", "open", "copied", "over"}]]
    /\ eraser \in [Erasers -> [doc : Docs \cup {NoDoc}, deleted : BOOLEAN]]
    /\ shared \subseteq Docs /\ doubted \subseteq Docs
    /\ \A d \in Docs : doc[d].row => doc[d].at = "over"

DocInit ==
    /\ paper = [n \in FileNames |-> NoFile]
    /\ doc \in [Docs -> [name : FileNames, row : {FALSE}, linked : {FALSE}, at : {"new"}]]
    /\ eraser = [k \in Erasers |-> [doc |-> NoDoc, deleted |-> FALSE]]
    /\ shared = {} /\ doubted = {}

Underway(d) == doc[d].at \in {"open", "copied"}
Erasing(d) == \E k \in Erasers : eraser[k].doc = d

\* Who has the name: a row, an upload under way, or a deletion that has read it.
Holders(n) == {d \in Docs : doc[d].name = n /\ (doc[d].row \/ Underway(d) \/ Erasing(d))}

\* os.Remove: whoever still writes the file writes one without a name.
Unlinked(n) == [d \in Docs |-> IF doc[d].name = n THEN [doc[d] EXCEPT !.linked = FALSE] ELSE doc[d]]

-----------------------------------------------------------------------------
(* kycDocUpload and the API's uploadKycDocument *)

\* O_CREATE | O_TRUNC: an existing file of that name is emptied.
DocOpen(d) ==
    LET n == doc[d].name IN
    /\ doc[d].at = "new"
    /\ doc' = [doc EXCEPT ![d].at = "open", ![d].linked = TRUE]
    /\ paper' = [paper EXCEPT ![n] = Cut]
    /\ shared' = IF Holders(n) = {} THEN shared ELSE shared \cup Holders(n) \cup {d}
    /\ UNCHANGED <<eraser, doubted>>

\* io.Copy, of all the bytes.
DocCopy(d) ==
    /\ doc[d].at = "open"
    /\ doc' = [doc EXCEPT ![d].at = "copied"]
    /\ \/ paper' = IF doc[d].linked THEN [paper EXCEPT ![doc[d].name] = d] ELSE paper
       \/ /\ d \in shared /\ doc[d].linked
          /\ paper' = [paper EXCEPT ![doc[d].name] = Cut]
    /\ UNCHANGED <<eraser, shared, doubted>>

DocInsert(d) ==
    /\ doc[d].at = "copied"
    /\ doc' = [doc EXCEPT ![d].at = "over", ![d].row = TRUE]
    /\ UNCHANGED <<paper, eraser, shared, doubted>>

\* The copy or the INSERT fails: the file of that name is removed, whosever it is.  The
\* INSERT of a request that was cancelled may have been committed.
DocFails(d) ==
    LET n == doc[d].name IN
    /\ Underway(d)
    /\ paper' = [paper EXCEPT ![n] = NoFile]
    /\ \/ doc' = [Unlinked(n) EXCEPT ![d].at = "over"] /\ UNCHANGED doubted
       \/ /\ doc[d].at = "copied"
          /\ doc' = [Unlinked(n) EXCEPT ![d].at = "over", ![d].row = TRUE]
          /\ doubted' = doubted \cup {d}
    /\ UNCHANGED <<eraser, shared>>

\* The process stops: the file stays, whole or not.
DocCrash(d) ==
    /\ Underway(d)
    /\ doc' = [doc EXCEPT ![d].at = "over"]
    /\ UNCHANGED <<paper, eraser, shared, doubted>>

-----------------------------------------------------------------------------
(* kycDocDelete *)

EraseOpen(k, d) ==
    /\ eraser[k].doc = NoDoc /\ doc[d].row
    /\ eraser' = [eraser EXCEPT ![k] = [doc |-> d, deleted |-> FALSE]]
    /\ UNCHANGED <<paper, doc, shared, doubted>>

\* A row that is gone by now is no error.
EraseRow(k) ==
    LET d == eraser[k].doc IN
    /\ d # NoDoc /\ ~eraser[k].deleted
    /\ doc' = [doc EXCEPT ![d].row = FALSE]
    /\ eraser' = [eraser EXCEPT ![k].deleted = TRUE]
    /\ UNCHANGED <<paper, shared, doubted>>

\* Mutant: the file goes before the DELETE has succeeded.
EraseFileFirst(k) ==
    LET n == doc[eraser[k].doc].name IN
    /\ eraser[k].doc # NoDoc
    /\ paper' = [paper EXCEPT ![n] = NoFile]
    /\ doc' = Unlinked(n)
    /\ eraser' = [eraser EXCEPT ![k] = [doc |-> NoDoc, deleted |-> FALSE]]
    /\ UNCHANGED <<shared, doubted>>

EraseFile(k) ==
    LET n == doc[eraser[k].doc].name IN
    /\ eraser[k].doc # NoDoc /\ eraser[k].deleted
    /\ paper' = [paper EXCEPT ![n] = NoFile]
    /\ doc' = Unlinked(n)
    /\ eraser' = [eraser EXCEPT ![k] = [doc |-> NoDoc, deleted |-> FALSE]]
    /\ UNCHANGED <<shared, doubted>>

\* The DELETE fails, or the process stops before the file is removed.
EraseStops(k) ==
    /\ eraser[k].doc # NoDoc
    /\ eraser' = [eraser EXCEPT ![k] = [doc |-> NoDoc, deleted |-> FALSE]]
    /\ UNCHANGED <<paper, doc, shared, doubted>>

DocNext ==
    \/ \E d \in Docs : DocOpen(d) \/ DocCopy(d) \/ DocInsert(d) \/ DocFails(d) \/ DocCrash(d)
    \/ \E k \in Erasers :
        \/ EraseRow(k) \/ EraseFile(k) \/ EraseStops(k)
        \/ \E d \in Docs : EraseOpen(k, d)

DocSpec == DocInit /\ [][DocNext]_docVars

-----------------------------------------------------------------------------
\* A document whose row is there opens as it was uploaded: uploads that fail, deletions
\* and crashes beside it spoil no file but one whose name was in use, and no INSERT that
\* was taken for failed and was not.
DocIntact == \A d \in Docs : doc[d].row /\ d \notin shared \cup doubted => paper[doc[d].name] = d
===============================================================================
