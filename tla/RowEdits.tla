------------------------------ MODULE RowEdits ------------------------------
(***************************************************************************)
(* Edits of the fields of one row that exists: the listing (putMine and    *)
(* patchMine in listings.service.ts) and the profile (the same two in      *)
(* profiles.service.ts).  A PATCH reads the row, merges the fields it      *)
(* names into what it read, and writes every field back; a PUT writes its  *)
(* own value of every field.  Any number of edits overlap, from several    *)
(* tabs or by retries.  Creation, deletion, the active flag and the        *)
(* completion figure are in Account.tla.                                   *)
(***************************************************************************)
CONSTANTS
    Edits,      \* the requests that are ever made; a field's value is its edit
    Fields,     \* fields of the row
    First       \* the edit that created the row

VARIABLES
    row,        \* per field: the edit whose value it has
    edit,       \* per request: step, the fields it names, and the row it read
    latest,     \* history, per field: the latest edit that named it and was saved
    overlapped  \* history: the edits saved while a PATCH was past its read

vars == <<row, edit, latest, overlapped>>

Created == [f \in Fields |-> First]

Init ==
    /\ row = Created
    /\ edit = [e \in Edits |-> [pc |-> "new", named |-> {}, read |-> Created]]
    /\ latest = Created
    /\ overlapped = {}

\* PATCHes that have read the row and not written it.
Merging == {e \in Edits : edit[e].pc = "write" /\ edit[e].named # Fields}

-----------------------------------------------------------------------------

\* The row is read; the request names some of the fields, a PUT all of them.
Read(e) ==
    /\ edit[e].pc = "new"
    /\ \E named \in (SUBSET Fields) \ {{}} :
          edit' = [edit EXCEPT ![e] = [pc |-> "write", named |-> named, read |-> row]]
    /\ UNCHANGED <<row, latest, overlapped>>

\* Mutant of Merged: fields that are not named are cleared, as a PUT would do.
MergedAsPut(e) == [f \in Fields |-> IF f \in edit[e].named THEN e ELSE First]

\* mergeListingPatch, mergePatch: a field that is not named keeps what was read.
Merged(e) == [f \in Fields |-> IF f \in edit[e].named THEN e ELSE edit[e].read[f]]

\* The update of every field, and the answer.
Write(e) ==
    /\ edit[e].pc = "write"
    /\ row' = Merged(e)
    /\ edit' = [edit EXCEPT ![e].pc = "saved"]
    /\ latest' = [f \in Fields |-> IF f \in edit[e].named THEN e ELSE latest[f]]
    /\ overlapped' = IF Merging \ {e} = {} THEN overlapped ELSE overlapped \cup {e}

\* A query fails, or the process dies, before the update.
Fail(e) ==
    /\ edit[e].pc = "write"
    /\ edit' = [edit EXCEPT ![e].pc = "failed"]
    /\ UNCHANGED <<row, latest, overlapped>>

Next == \E e \in Edits : Read(e) \/ Write(e) \/ Fail(e)

Spec == Init /\ [][Next]_vars

-----------------------------------------------------------------------------
(* Properties.                                                             *)

\* Every variable has its type; only requests past their read name fields.  It is
\* proved in SharedRowsProofs.tla, as are the other two.
TypeOK ==
    /\ row \in [Fields -> Edits \cup {First}]
    /\ edit \in [Edits -> [pc : {"new", "write", "saved", "failed"},
                           named : SUBSET Fields, read : [Fields -> Edits \cup {First}]]]
    /\ latest \in [Fields -> Edits \cup {First}]
    /\ overlapped \subseteq Edits
    /\ \A e \in Edits : edit[e].pc = "new" <=> edit[e].named = {}

\* A field has the value of the latest edit that named it, unless that edit was
\* saved while a PATCH was between its read and its update: an answered edit is
\* lost to an overlap only, never to one that begins later.
LostToOverlapOnly ==
    \A f \in Fields : row[f] = latest[f] \/ latest[f] \in overlapped

\* Whatever is lost, a field has the value of a saved edit that named it: what a
\* PATCH brings back was there before, and nothing of a failed request is seen.
ValuesWereSaved ==
    \A f \in Fields :
        row[f] # First => edit[row[f]].pc = "saved" /\ f \in edit[row[f]].named

=============================================================================
