---------------------------- MODULE MCAllowances ----------------------------
(***************************************************************************)
(* The two allowances of paid services for TLC: MapsBudget and Uploads.    *)
(* They share no state, so a behaviour runs one of them while the other    *)
(* stays at its first state: "part" says which.                            *)
(***************************************************************************)
EXTENDS MapsBudget, TLC

CONSTANTS Objects, Confirms, Limit, LastHour

VARIABLES part, hour, urlCounter, put, urlAge, metaAge, stored, confirm, spent, fitted

uploads == <<hour, urlCounter, put, urlAge, metaAge, stored, confirm, spent, fitted>>

Upload == INSTANCE Uploads WITH counter <- urlCounter

ASSUME UploadAssumption == Upload!UploadsAssumption

PartsInit ==
    /\ part \in {"maps", "uploads"}
    /\ Init
    /\ Upload!Init
    /\ part # "maps" => apiKey

PartsNext ==
    \/ part = "maps" /\ Next /\ UNCHANGED <<part, uploads>>
    \/ part = "uploads" /\ Upload!Next /\ UNCHANGED <<part, vars>>

PartsSpec == PartsInit /\ [][PartsNext]_<<part, vars, uploads>>

\* Handlers are interchangeable, and so are confirmations; objects are not, since
\* NoConfirm names one.
Symmetry == Permutations(Handlers) \cup Permutations(Confirms)

\* Units kept beyond the budget, one unit stuck and two given back to the wrong day.
FewUnits == \A d \in Days : kept[d] <= 3 /\ stuck[d] <= 1 /\ surplus[d] <= 2

\* UPLOAD_URL_GEN_PER_HOUR caps the URLs signed per clock hour, however many
\* requests race, fail and end in another hour (presignedUpload).
UploadsKeepAllowance == Upload!KeepsAllowance

\* The counter of an hour is the URLs of the hour, those wasted by a failure included;
\* while its URL works, an upload can be confirmed, since the metadata outlives the
\* signature; and metadata is spent only on an object that was uploaded in its declared
\* size, whatever uploads and confirmations race with it (presignedUpload, confirmUpload).
UploadsConsistent ==
    Upload!TypeOK /\ Upload!QuotaAccounting /\ Upload!LiveUrlHasMeta /\ Upload!SpentOnUpload

=============================================================================
