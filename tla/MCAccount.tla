----------------------------- MODULE MCAccount -----------------------------
(***************************************************************************)
(* Account.tla for TLC, beside Identity.tla, which rests at its first      *)
(* state with no address and no review (its own run is that of MCIdentity). *)
(* The two are models of the same rows at two grains, one account with its *)
(* profile and listing and many accounts with their addresses, and have no *)
(* variable in common; one module of proofs speaks of both.                *)
(***************************************************************************)
EXTENDS Identity, TLC

CONSTANTS Phones, NoPhone, Scores, Overlap      \* Account

VARIABLES user, profile, listing, ownReq, proven, interrupted, gone

owner == <<user, profile, listing, ownReq, proven, interrupted, gone>>

Acct == INSTANCE Account WITH req <- ownReq

ASSUME OwnerAssumption == Acct!AccountAssumption

AccountInit == Init /\ Acct!Init

AccountNext == Acct!Next /\ UNCHANGED vars

AccountSpec == AccountInit /\ [][AccountNext]_<<vars, owner>>

\* A deletion or ban that no write was racing with leaves the profile deleted and the
\* listing inactive for good (deleteAccount, banUser).
DeletionSticks == Acct!DeletionSticks

\* While the owner waits for answers, a verified number is one whose code was accepted
\* since it was set (verifyPhone).
VerifiedMeansProven == Acct!VerifiedMeansProven

\* While the owner waits for answers, a verified phone counts in the completion, unless
\* a verification was cut off half-way (verifyPhone, putMine, patchMine).
VerifiedCounts == Acct!VerifiedCounts

\* A listing that matched is loaded with a live lister profile, as browseFlats asserts.
BrowseInvariant == Acct!BrowseInvariant

\* The domains and the reviews of no address.
NoDomain == [e \in {} |-> e]

\* Handlers are interchangeable; sound for the safety runs.
HandlerSymmetry == Permutations(Handlers)

=============================================================================
