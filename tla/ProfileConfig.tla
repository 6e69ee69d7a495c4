--------------------------- MODULE ProfileConfig ---------------------------
(***************************************************************************)
(* Model checking of the profile on disk: the commands as sequences of     *)
(* file operations that may be killed (ProfileFiles), and the documents    *)
(* they fetch, merge and store (ConfigForms).  A behaviour is one of them. *)
(***************************************************************************)
EXTENDS ProfileFiles, ConfigForms

VARIABLE view  \* what is looked at

profileConfigVars == <<profileVars, formVars, view>>

\* One initial state of the part that does not run is enough.
ProfileConfigInit ==
    /\ view \in {"files", "documents"}
    /\ view # "documents" => document = CHOOSE c \in Written : TRUE
    /\ ProfileInit /\ FormsInit
    /\ view # "files" => runtime /\ \A s \in Skills : folder["runtime"][s] = {}

ProfileConfigNext ==
    \/ view = "files" /\ ProfileNext /\ UNCHANGED <<formVars, view>>
    \/ view = "documents" /\ FormsNext /\ UNCHANGED <<profileVars, view>>

ProfileConfigSpec == ProfileConfigInit /\ [][ProfileConfigNext]_profileConfigVars
=============================================================================
