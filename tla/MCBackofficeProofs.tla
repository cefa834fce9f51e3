-------------------------- MODULE MCBackofficeProofs --------------------------
(***************************************************************************)
(* The back office as one system: every behaviour of MCBackoffice is one   *)
(* of each component, so what is proved of a component holds there.        *)
(***************************************************************************)
EXTENDS MCBackoffice, BackofficeProofs, BackgroundProofs

\* A step of the office is a step of one component, and the others stand still.
LEMMA OfficeStep ==
    ASSUME [OfficeNext]_<<officeVars, part>>
    PROVE  /\ [ImportNext]_importVars /\ [AudioNext]_audioVars /\ [DocNext]_docVars
           /\ [ConfigNext]_configVars /\ [SnapshotNext]_snapshotVars
           /\ [LoginNext]_loginVars /\ [ResellerNext]_resellerVars
<1>1. CASE UNCHANGED <<officeVars, part>>
    BY <1>1 DEF officeVars
<1>2. CASE ImportPart
    BY <1>2 DEF ImportPart
<1>3. CASE AudioPart
    BY <1>3 DEF AudioPart
<1>4. CASE DocPart
    BY <1>4 DEF DocPart
<1>5. CASE ConfigPart
    BY <1>5 DEF ConfigPart
<1>6. CASE SnapshotPart
    BY <1>6 DEF SnapshotPart
<1>7. CASE LoginPart
    BY <1>7 DEF LoginPart
<1>8. CASE ResellerPart
    BY <1>8 DEF ResellerPart
<1> QED BY <1>1, <1>2, <1>3, <1>4, <1>5, <1>6, <1>7, <1>8 DEF OfficeNext

\* The office implements each of its components: no step of one needs or disturbs the
\* variables of another, so the theorems about each hold of the run that explores them all.
THEOREM OfficeImplementsParts ==
    OfficeSpec => /\ ImportSpec /\ AudioSpec /\ DocSpec /\ ConfigSpec /\ SnapshotSpec
                  /\ LoginSpec /\ ResellerSpec
<1>1. OfficeInit => /\ ImportInit /\ AudioInit /\ DocInit /\ ConfigInit /\ SnapshotInit
                    /\ LoginInit /\ ResellerInit
    BY DEF OfficeInit
<1> QED BY <1>1, OfficeStep, PTL
        DEF OfficeSpec, ImportSpec, AudioSpec, DocSpec, ConfigSpec, SnapshotSpec, LoginSpec, ResellerSpec

\* Each component of the office keeps its types, whichever of them is in use.
THEOREM OfficeTypeCorrect == OfficeSpec => []BackofficeTypeOK
<1>1. /\ ImportTypeOK /\ AudioTypeOK /\ DocTypeOK /\ ConfigTypeOK /\ SnapshotTypeOK
      /\ LoginTypeOK /\ ResellerTypeOK
      => BackofficeTypeOK
    BY DEF BackofficeTypeOK
<1> QED BY <1>1, OfficeImplementsParts, ImportTypeCorrect, AudioTypeCorrect, DocTypeCorrect,
           ConfigTypeCorrect, SnapshotTypeCorrect, LoginTypeCorrect, ResellerTypeCorrect, PTL
===============================================================================
