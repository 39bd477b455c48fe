------------------------------- MODULE Mirror -------------------------------
(***************************************************************************)
(* What the mirror promises to those who download from it, whatever goes   *)
(* wrong while it is filled: an object comes from GitHub, one at a time,   *)
(* and stays; what is listed of it -- a row, a version -- is listed after  *)
(* the object is there.  ReleaseSync implements this under the rules that  *)
(* remove nothing.                                                         *)
(***************************************************************************)
CONSTANT Object         \* what there may be on GitHub, as <<tag, asset>>

VARIABLES
    offered,    \* on GitHub, and wanted
    stored,     \* can be downloaded from the mirror
    recorded,   \* has a row in the list of a version's files
    titled      \* the tags shown with their notes and date

vars == <<offered, stored, recorded, titled>>

TagsOf(objects) == {o[1] : o \in objects}

Init == offered = {} /\ stored = {} /\ recorded = {} /\ titled = {}

\* Nothing that was offered is withdrawn.
Offer ==
    /\ offered \subseteq offered' /\ offered' \subseteq Object
    /\ UNCHANGED <<stored, recorded, titled>>

Store(o) ==
    /\ o \in offered
    /\ stored' = stored \cup {o}
    /\ UNCHANGED <<offered, recorded, titled>>

Record(o) ==
    /\ o \in stored
    /\ recorded' = recorded \cup {o}
    /\ UNCHANGED <<offered, stored, titled>>

Entitle(t) ==
    /\ t \in TagsOf(stored)
    /\ titled' = titled \cup {t}
    /\ UNCHANGED <<offered, stored, recorded>>

\* The notes of a version are kept for a day.
Forget ==
    /\ titled' \subseteq titled
    /\ UNCHANGED <<offered, stored, recorded>>

Next ==
    \/ Offer \/ Forget
    \/ \E o \in Object : Store(o) \/ Record(o)
    \/ \E t \in TagsOf(Object) : Entitle(t)

Spec == Init /\ [][Next]_vars
=============================================================================
