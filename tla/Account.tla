------------------------------ MODULE Account ------------------------------
(***************************************************************************)
(* One account: its phone number, profile and listing, written by the      *)
(* owner's requests, against deletion by the owner, a ban by an admin and  *)
(* a viewer who browses.  Each await on the database is a step.            *)
(***************************************************************************)
EXTENDS Naturals

CONSTANTS
    Handlers,     \* requests in flight
    Phones,       \* the phone numbers the owner uses
    NoPhone,      \* null
    Scores,       \* profileCompletion without the points of the phone
    Overlap       \* whether the owner's own requests overlap (tabs, retries)

AccountAssumption ==
    /\ NoPhone \notin Phones
    /\ Scores \subseteq Nat
    /\ Overlap \in BOOLEAN

VARIABLES
    user,         \* User row: deletedAt set or not, phoneNumber, phoneVerified
    profile,      \* Profile row: there or not, deletedAt, content, profileCompletion
    listing,      \* Listing row: there or not, isActive
    req,          \* per handler: next step, and what it was asked or has read
    proven,       \* history: a code for the current number was accepted since it was set
    interrupted,  \* history: a verification ended before it refreshed the completion
    gone          \* history: deleted while a write was under way ("raced") or not ("clean")

vars == <<user, profile, listing, req, proven, interrupted, gone>>

PhonePoints == 10

\* The other weights sum to 90: the cap at 100 is never met.
Completion(fields, phoneVerified) == fields + (IF phoneVerified THEN PhonePoints ELSE 0)

OwnerSteps ==
    {"findUser", "saveProfile", "findForPatch", "findUserForPatch", "updateProfile",
     "findForPut", "findListing", "findOwner", "saveListing", "deactivate",
     "findPhone", "setPhone", "findForVerify", "verifyCode", "markVerified",
     "findProfile", "refresh", "commitDelete"}

\* The first step of each operation of the owner, after the guard.
FirstSteps == {"findUser", "findForPatch", "findForPut", "findListing", "deactivate",
               "findPhone", "findForVerify", "commitDelete"}

Idle == [pc |-> "idle", fields |-> 0, verified |-> FALSE, phone |-> NoPhone, row |-> FALSE]

Init ==
    /\ user = [deleted |-> FALSE, phone |-> NoPhone, verified |-> FALSE]
    /\ profile = [exists |-> FALSE, deleted |-> FALSE, fields |-> 0, completion |-> 0]
    /\ listing = [exists |-> FALSE, active |-> FALSE]
    /\ req = [h \in Handlers |-> Idle]
    /\ proven = FALSE
    /\ interrupted = FALSE
    /\ gone = "no"

ProfileLive == profile.exists /\ ~profile.deleted

At(h, step) == req[h].pc = step

Become(h, r) == req' = [req EXCEPT ![h] = r]

Goto(h, step) == Become(h, [req[h] EXCEPT !.pc = step])

Finish(h) == Become(h, Idle)

OwnerBusy == \E h \in Handlers : req[h].pc \in OwnerSteps

NoHistory == UNCHANGED <<proven, interrupted, gone>>

NoWrite == UNCHANGED <<user, profile, listing, proven, interrupted, gone>>

-----------------------------------------------------------------------------
(* A request of the owner: the guard lets in who is not deleted.           *)

Begin(h) ==
    /\ At(h, "idle")
    /\ Overlap \/ ~OwnerBusy
    /\ ~user.deleted
    /\ \E step \in FirstSteps, score \in Scores, p \in Phones :
          Become(h, [Idle EXCEPT !.pc = step, !.fields = score, !.phone = p])
    /\ NoWrite

\* A refusal that no variable decides, a failed query or a crash.
Fail(h) ==
    /\ ~At(h, "idle")
    /\ interrupted' = (interrupted \/ req[h].pc \in {"findProfile", "refresh"})
    /\ Finish(h)
    /\ UNCHANGED <<user, profile, listing, proven, gone>>

-----------------------------------------------------------------------------
(* The profile.                                                            *)

FindUser(h) ==
    /\ At(h, "findUser")
    /\ IF user.deleted
       THEN Finish(h)
       ELSE Become(h, [req[h] EXCEPT !.pc = "saveProfile", !.verified = user.verified])
    /\ NoWrite

\* Mutant of SavedProfile: the points of the phone are forgotten.
SavedProfileWithoutPhone(h) ==
    [exists |-> TRUE, deleted |-> FALSE, fields |-> req[h].fields,
     completion |-> Completion(req[h].fields, FALSE)]

SavedProfile(h) ==
    [exists |-> TRUE, deleted |-> FALSE, fields |-> req[h].fields,
     completion |-> Completion(req[h].fields, req[h].verified)]

\* The upsert clears deletedAt and does not look at the user again.
SaveProfile(h) ==
    /\ At(h, "saveProfile")
    /\ profile' = SavedProfile(h)
    /\ interrupted' = FALSE
    /\ Finish(h)
    /\ UNCHANGED <<user, listing, proven, gone>>

FindForPatch(h) ==
    /\ At(h, "findForPatch")
    /\ IF ProfileLive THEN Goto(h, "findUserForPatch") ELSE Finish(h)
    /\ NoWrite

FindUserForPatch(h) ==
    /\ At(h, "findUserForPatch")
    /\ Become(h, [req[h] EXCEPT !.pc = "updateProfile", !.verified = user.verified])
    /\ NoWrite

UpdateProfile(h) ==
    /\ At(h, "updateProfile")
    /\ profile' = [profile EXCEPT !.fields = req[h].fields,
                                  !.completion = Completion(req[h].fields, req[h].verified)]
    /\ interrupted' = FALSE
    /\ Finish(h)
    /\ UNCHANGED <<user, listing, proven, gone>>

-----------------------------------------------------------------------------
(* The listing.                                                            *)

\* PUT replaces the content of a row and creates one as POST does.
FindForPut(h) ==
    /\ At(h, "findForPut")
    /\ IF listing.exists THEN Finish(h) ELSE Goto(h, "findListing")
    /\ NoWrite

FindListing(h) ==
    /\ At(h, "findListing")
    /\ IF listing.active
       THEN Finish(h)
       ELSE Become(h, [req[h] EXCEPT !.pc = "findOwner", !.row = listing.exists])
    /\ NoWrite

FindOwner(h) ==
    /\ At(h, "findOwner")
    /\ IF ~user.deleted /\ ProfileLive THEN Goto(h, "saveListing") ELSE Finish(h)
    /\ NoWrite

\* A row read is updated by userId; a create meets the unique userId.
SaveListing(h) ==
    /\ At(h, "saveListing")
    /\ IF req[h].row \/ ~listing.exists
       THEN listing' = [exists |-> TRUE, active |-> TRUE]
       ELSE listing' = listing
    /\ Finish(h)
    /\ NoHistory
    /\ UNCHANGED <<user, profile>>

Deactivate(h) ==
    /\ At(h, "deactivate")
    /\ listing' = [listing EXCEPT !.active = FALSE]
    /\ Finish(h)
    /\ NoHistory
    /\ UNCHANGED <<user, profile>>

-----------------------------------------------------------------------------
(* The phone number.                                                       *)

\* Another account that has the number: Fail, here or at the unique index.
FindPhone(h) ==
    /\ At(h, "findPhone")
    /\ Goto(h, "setPhone")
    /\ NoWrite

\* Mutant of SetPhone: a new number keeps the flag of the old one.
SetPhoneKeepingVerified(h) ==
    /\ At(h, "setPhone")
    /\ user' = [user EXCEPT !.phone = req[h].phone]
    /\ proven' = FALSE
    /\ Finish(h)
    /\ UNCHANGED <<profile, listing, interrupted, gone>>

SetPhone(h) ==
    /\ At(h, "setPhone")
    /\ user' = [user EXCEPT !.phone = req[h].phone, !.verified = FALSE]
    /\ proven' = FALSE
    /\ Finish(h)
    /\ UNCHANGED <<profile, listing, interrupted, gone>>

FindForVerify(h) ==
    /\ At(h, "findForVerify")
    /\ IF user.deleted \/ user.phone = NoPhone
       THEN Finish(h)
       ELSE Become(h, [req[h] EXCEPT !.pc = "verifyCode", !.phone = user.phone])
    /\ NoWrite

\* The code of the number that was read is accepted; any other answer: Fail.
VerifyCode(h) ==
    /\ At(h, "verifyCode")
    /\ proven' = (proven \/ req[h].phone = user.phone)
    /\ Goto(h, "markVerified")
    /\ UNCHANGED <<user, profile, listing, interrupted, gone>>

\* By user id: the number may be another one by now.
MarkVerified(h) ==
    /\ At(h, "markVerified")
    /\ user' = [user EXCEPT !.verified = TRUE]
    /\ Goto(h, "findProfile")
    /\ NoHistory
    /\ UNCHANGED <<profile, listing>>

FindProfile(h) ==
    /\ At(h, "findProfile")
    /\ IF ProfileLive
       THEN Become(h, [req[h] EXCEPT !.pc = "refresh", !.fields = profile.fields])
       ELSE Finish(h)
    /\ NoWrite

RefreshCompletion(h) ==
    /\ At(h, "refresh")
    /\ profile' = [profile EXCEPT !.completion = Completion(req[h].fields, TRUE)]
    /\ interrupted' = FALSE
    /\ Finish(h)
    /\ UNCHANGED <<user, listing, proven, gone>>

-----------------------------------------------------------------------------
(* Deletion, ban, browsing.                                                *)

\* Requests that have seen the account alive and are about to write it so.
Reviving(h) == At(h, "saveProfile") \/ At(h, "saveListing")

\* One transaction of three updates.
Erase(h) ==
    /\ user' = [user EXCEPT !.deleted = TRUE]
    /\ profile' = [profile EXCEPT !.deleted = profile.exists]
    /\ listing' = [listing EXCEPT !.active = FALSE]
    /\ gone' = IF \E g \in Handlers : Reviving(g) THEN "raced" ELSE "clean"
    /\ UNCHANGED <<proven, interrupted>>

\* Mutant of CommitDelete: the profile is left to be found.
CommitDeleteKeepingProfile(h) ==
    /\ At(h, "commitDelete")
    /\ user' = [user EXCEPT !.deleted = TRUE]
    /\ listing' = [listing EXCEPT !.active = FALSE]
    /\ gone' = IF \E g \in Handlers : Reviving(g) THEN "raced" ELSE "clean"
    /\ Finish(h)
    /\ UNCHANGED <<profile, proven, interrupted>>

\* A wrong PIN: Fail.
CommitDelete(h) ==
    /\ At(h, "commitDelete")
    /\ Erase(h)
    /\ Finish(h)

FindForBan(h) ==
    /\ At(h, "idle")
    /\ ~user.deleted
    /\ Become(h, [Idle EXCEPT !.pc = "commitBan"])
    /\ NoWrite

CommitBan(h) ==
    /\ At(h, "commitBan")
    /\ Erase(h)
    /\ Finish(h)

\* The listings that match are one query, their users and profiles the next.
QueryListings(h) ==
    /\ At(h, "idle")
    /\ listing.active /\ ~user.deleted /\ ProfileLive
    /\ Become(h, [Idle EXCEPT !.pc = "loadLister"])
    /\ NoWrite

LoadLister(h) ==
    /\ At(h, "loadLister")
    /\ Finish(h)
    /\ NoWrite

-----------------------------------------------------------------------------
(* The specification.                                                      *)

OwnerStep(h) ==
    \/ FindUser(h) \/ SaveProfile(h)
    \/ FindForPatch(h) \/ FindUserForPatch(h) \/ UpdateProfile(h)
    \/ FindForPut(h) \/ FindListing(h) \/ FindOwner(h) \/ SaveListing(h) \/ Deactivate(h)
    \/ FindPhone(h) \/ SetPhone(h)
    \/ FindForVerify(h) \/ VerifyCode(h) \/ MarkVerified(h) \/ FindProfile(h)
    \/ RefreshCompletion(h)
    \/ CommitDelete(h)

Next ==
    \E h \in Handlers :
        \/ Begin(h) \/ Fail(h) \/ OwnerStep(h)
        \/ FindForBan(h) \/ CommitBan(h)
        \/ QueryListings(h) \/ LoadLister(h)

Spec == Init /\ [][Next]_vars

-----------------------------------------------------------------------------
(* Properties.                                                             *)

Fields == Scores \cup {0}

User == [deleted : BOOLEAN, phone : Phones \cup {NoPhone}, verified : BOOLEAN]

Profile == [exists : BOOLEAN, deleted : BOOLEAN, fields : Fields, completion : Nat]

Request == [pc : OwnerSteps \cup {"idle", "commitBan", "loadLister"}, fields : Fields,
            verified : BOOLEAN, phone : Phones \cup {NoPhone}, row : BOOLEAN]

\* Types of the rows and of what handlers hold; a row that is not there is neither
\* deleted nor active.
TypeOK ==
    /\ user \in User
    /\ profile \in Profile
    /\ listing \in [exists : BOOLEAN, active : BOOLEAN]
    /\ req \in [Handlers -> Request]
    /\ proven \in BOOLEAN /\ interrupted \in BOOLEAN
    /\ gone \in {"no", "clean", "raced"}
    /\ profile.deleted => profile.exists
    /\ listing.active => listing.exists

\* A deletion or ban that no write was racing with leaves the profile deleted and the
\* listing inactive for good: what starts later is turned away by the guard, and what
\* had already started looks at the user or at the profile again before it writes.
DeletionSticks ==
    gone = "clean" => ~ProfileLive /\ ~listing.active

\* While the owner waits for answers, a verified number is one whose code was accepted
\* since it was set: verifyPhone sets the flag by user id, after the code.
VerifiedMeansProven == user.verified => user.phone # NoPhone /\ proven

\* While the owner waits for answers, a verified phone counts in the completion that
\* the flatmates search filters on, unless a verification was cut off half-way.
VerifiedCounts ==
    user.verified /\ ProfileLive /\ ~OwnerBusy =>
        interrupted \/ profile.completion = Completion(profile.fields, TRUE)

\* While the owner waits for answers, a listing that passed the conflict check does not
\* overwrite an active one when it is saved.
PostingFindsNone ==
    \A h \in Handlers : req[h].pc \in {"findOwner", "saveListing"} => ~listing.active

\* browseFlats throws 'invariant: browse listing without lister profile' unless the
\* profile that its query asked for is still there when it is loaded.
BrowseInvariant ==
    \A h \in Handlers : At(h, "loadLister") => ProfileLive

=============================================================================
