----------------------------- MODULE AdminLogin -----------------------------
(***************************************************************************)
(* The one administrator: /setup on a fresh install, ADMIN_PASSWORD at     *)
(* every start, the login form and the change of the password.             *)
(*                                                                         *)
(* A password is what is left of it without the spaces around it, and      *)
(* whether there are any.                                                  *)
(***************************************************************************)
EXTENDS Integers, FiniteSets

CONSTANTS
    Words,          \* passwords without spaces around them
    NoWord,
    Boots,          \* what ADMIN_PASSWORD may hold when didapi starts; NoWord if nothing
    Browsers

ASSUME LoginAssumption == NoWord \notin Words /\ Boots \subseteq Words \cup {NoWord}

VARIABLES
    admins,      \* rows of admins: the password of each
    browser,     \* per browser: the form it has sent and how far that is; and its session
    welcomed,    \* history: what setup told a browser it has set up
    changed      \* history: whether the password was set otherwise since

loginVars == <<admins, browser, welcomed, changed>>

Passwords == [word : Words, padded : BOOLEAN]
NoPassword == [word |-> NoWord, padded |-> FALSE]
Trimmed(p) == [p EXCEPT !.padded = FALSE]
Waiting == [at |-> "off", sent |-> NoPassword, session |-> FALSE]
Answered(w) == [Waiting EXCEPT !.session = browser[w].session]

\* The type invariant.
LoginTypeOK ==
    /\ admins \subseteq Passwords
    /\ browser \in [Browsers -> [at : {"off", "gated", "checked", "verified"},
                                 sent : Passwords \cup {NoPassword}, session : BOOLEAN]]
    /\ welcomed \subseteq Passwords \X Browsers
    /\ changed \in BOOLEAN

LoginInit ==
    /\ admins = {}
    /\ browser = [w \in Browsers |-> Waiting]
    /\ welcomed = {} /\ changed = FALSE

\* EnsureAdmin, before the server listens: a start ends every request.
DidapiStarts ==
    \E env \in Boots :
        /\ admins' = IF env = NoWord THEN admins ELSE {[word |-> env, padded |-> FALSE]}
        /\ changed' = (changed \/ env # NoWord)
        /\ browser' = [w \in Browsers |-> Answered(w)]
        /\ UNCHANGED welcomed

-----------------------------------------------------------------------------
(* setupSubmit *)

\* The gate, then a slow hash of the password.
SetupOpen(w, p) ==
    /\ browser[w].at = "off" /\ admins = {}
    /\ browser' = [browser EXCEPT ![w].at = "gated", ![w].sent = p]
    /\ UNCHANGED <<admins, welcomed, changed>>

\* The transaction counts again ...
SetupRecheck(w) ==
    /\ browser[w].at = "gated"
    /\ browser' = [browser EXCEPT ![w] = IF admins = {} THEN [@ EXCEPT !.at = "checked"]
                                         ELSE Answered(w)]
    /\ UNCHANGED <<admins, welcomed, changed>>

\* Mutant: a table without the unique email.
EmailNeverTaken == FALSE

EmailTaken == admins # {}

\* ... and inserts; the other transaction's row is seen by the unique email alone.
SetupInsert(w) ==
    /\ browser[w].at = "checked"
    /\ IF EmailTaken
       THEN /\ browser' = [browser EXCEPT ![w] = Answered(w)]
            /\ UNCHANGED <<admins, welcomed>>
       ELSE /\ admins' = admins \cup {browser[w].sent}
            /\ browser' = [browser EXCEPT ![w] = [Waiting EXCEPT !.session = TRUE]]
            /\ welcomed' = welcomed \cup {<<browser[w].sent, w>>}
    /\ UNCHANGED changed

-----------------------------------------------------------------------------
(* Login, and the change of the password *)

\* postLogin trims what was typed.
Login(w, p) ==
    /\ ~browser[w].session /\ Trimmed(p) \in admins
    /\ browser' = [browser EXCEPT ![w].session = TRUE]
    /\ UNCHANGED <<admins, welcomed, changed>>

\* Out by hand, or the session has expired.
Logout(w) ==
    /\ browser[w].session /\ browser[w].at = "off"
    /\ browser' = [browser EXCEPT ![w].session = FALSE]
    /\ UNCHANGED <<admins, welcomed, changed>>

\* adminPasswordChange verifies the old password as it was typed ...
ChangeOpen(w, old, new) ==
    /\ browser[w].session /\ browser[w].at = "off"
    /\ old \in admins
    /\ browser' = [browser EXCEPT ![w].at = "verified", ![w].sent = new]
    /\ UNCHANGED <<admins, welcomed, changed>>

\* ... and sets the new one, whatever the password is by now.
ChangeWrite(w) ==
    /\ browser[w].at = "verified"
    /\ admins' = {browser[w].sent}
    /\ changed' = TRUE
    /\ browser' = [browser EXCEPT ![w] = [Waiting EXCEPT !.session = TRUE]]
    /\ UNCHANGED welcomed

LoginNext ==
    \/ DidapiStarts
    \/ \E w \in Browsers :
        \/ SetupRecheck(w) \/ SetupInsert(w) \/ Logout(w) \/ ChangeWrite(w)
        \/ \E p \in Passwords : SetupOpen(w, p) \/ Login(w, p) \/ \E o \in Passwords : ChangeOpen(w, o, p)

LoginSpec == LoginInit /\ [][LoginNext]_loginVars

-----------------------------------------------------------------------------
\* Setup welcomes one browser at most, however many submit at once, and the password it
\* chose is the administrator's until somebody changes it.
SetupOnce ==
    /\ Cardinality(welcomed) <= 1
    /\ ~changed => \A x \in welcomed : admins = {x[1]}
===============================================================================
