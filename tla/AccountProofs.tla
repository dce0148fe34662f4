--------------------------- MODULE AccountProofs ---------------------------
(***************************************************************************)
(* Proofs about Account.tla, for any handlers, numbers and scores; then    *)
(* about Identity.tla, for any handlers, accounts, addresses and reviews.  *)
(***************************************************************************)
EXTENDS MCAccount, Naturals, TLAPS

-----------------------------------------------------------------------------
(* Types.                                                                  *)

\* A profile score with or without the points of the phone is a natural number.
LEMMA CompletionNat ==
    ASSUME NEW f \in Acct!Fields, NEW v \in BOOLEAN
    PROVE  Acct!Completion(f, v) \in Nat
BY OwnerAssumption DEF Acct!AccountAssumption, Acct!Completion, Acct!Fields, Acct!PhonePoints

\* A handler that becomes a request of the right type.
LEMMA BecomeType ==
    ASSUME ownReq \in [Handlers -> Acct!Request], NEW h \in Handlers, NEW r \in Acct!Request,
    Acct!Become(h, r)
    PROVE  ownReq' \in [Handlers -> Acct!Request]
BY DEF Acct!Become

\* An idle handler is a request.
LEMMA IdleType == Acct!Idle \in Acct!Request
BY DEF Acct!Idle, Acct!Request, Acct!Fields

\* Going on with a step keeps the types of the requests.
LEMMA GotoType ==
    ASSUME ownReq \in [Handlers -> Acct!Request], NEW h \in Handlers,
           NEW s \in Acct!OwnerSteps, Acct!Goto(h, s)
    PROVE  ownReq' \in [Handlers -> Acct!Request]
<1>1. [ownReq[h] EXCEPT !.pc = s] \in Acct!Request
  BY DEF Acct!Request
<1> QED
  BY <1>1, BecomeType DEF Acct!Goto

\* A handler that ends keeps the types of the requests.
LEMMA FinishType ==
    ASSUME ownReq \in [Handlers -> Acct!Request], NEW h \in Handlers, Acct!Finish(h)
    PROVE  ownReq' \in [Handlers -> Acct!Request]
BY BecomeType, IdleType DEF Acct!Finish

\* Init establishes the types.
LEMMA InitType == Acct!Init => Acct!TypeOK
<1> SUFFICES ASSUME Acct!Init PROVE Acct!TypeOK
  OBVIOUS
<1>1. ownReq \in [Handlers -> Acct!Request]
  BY IdleType DEF Acct!Init
<1>2. user \in Acct!User /\ profile \in Acct!Profile
  BY DEF Acct!Init, Acct!User, Acct!Profile, Acct!Fields
<1> QED
  BY <1>1, <1>2 DEF Acct!Init, Acct!TypeOK

\* Steps that read, and those that end a request without a write, keep the types.
LEMMA ReadType ==
    ASSUME Acct!TypeOK, NEW h \in Handlers,
           \/ Acct!Begin(h) \/ Acct!Fail(h) \/ Acct!FindUser(h) \/ Acct!FindForPatch(h)
           \/ Acct!FindUserForPatch(h)
           \/ Acct!FindForPut(h) \/ Acct!FindListing(h) \/ Acct!FindOwner(h)
           \/ Acct!FindPhone(h)
           \/ Acct!FindForVerify(h) \/ Acct!FindProfile(h) \/ Acct!FindForBan(h)
           \/ Acct!QueryListings(h)
           \/ Acct!LoadLister(h)
    PROVE  Acct!TypeOK'
<1>1. ownReq' \in [Handlers -> Acct!Request]
  <2> USE DEF Acct!TypeOK
  <2>1. CASE Acct!Begin(h)
    <3>1. PICK step \in Acct!FirstSteps, score \in Scores, p \in Phones :
              Acct!Become(h, [Acct!Idle EXCEPT !.pc = step, !.fields = score, !.phone = p])
      BY <2>1 DEF Acct!Begin
    <3>2. step \in Acct!OwnerSteps
      BY DEF Acct!FirstSteps, Acct!OwnerSteps
    <3>3. [Acct!Idle EXCEPT !.pc = step, !.fields = score, !.phone = p] \in Acct!Request
      BY <3>2, IdleType DEF Acct!Request, Acct!Fields
    <3> QED
      BY <3>1, <3>3, BecomeType
  <2>2. CASE Acct!Finish(h)
    BY <2>2, FinishType
  <2>3. CASE \E s \in Acct!OwnerSteps : Acct!Goto(h, s)
    BY <2>3, GotoType
  <2>4. CASE \E r \in Acct!Request : Acct!Become(h, r)
    BY <2>4, BecomeType
  <2>5. ASSUME NEW s \in Acct!OwnerSteps
        PROVE  /\ [ownReq[h] EXCEPT !.pc = s, !.verified = user.verified] \in Acct!Request
               /\ [ownReq[h] EXCEPT !.pc = s, !.row = listing.exists] \in Acct!Request
               /\ [ownReq[h] EXCEPT !.pc = s, !.phone = user.phone] \in Acct!Request
               /\ [ownReq[h] EXCEPT !.pc = s, !.fields = profile.fields] \in Acct!Request
    BY DEF Acct!Request, Acct!User, Acct!Profile
  <2>6. /\ [Acct!Idle EXCEPT !.pc = "commitBan"] \in Acct!Request
        /\ [Acct!Idle EXCEPT !.pc = "loadLister"] \in Acct!Request
    BY IdleType DEF Acct!Request
  <2>7. {"saveProfile", "updateProfile", "findUserForPatch", "findListing", "findOwner",
         "saveListing", "setPhone", "verifyCode", "refresh"} \subseteq Acct!OwnerSteps
    BY DEF Acct!OwnerSteps
  <2> QED
    BY <2>1, <2>2, <2>3, <2>4, <2>5, <2>6, <2>7
    DEF Acct!Fail, Acct!FindUser, Acct!FindForPatch, Acct!FindUserForPatch, Acct!FindForPut,
        Acct!FindListing, Acct!FindOwner,
        Acct!FindPhone, Acct!FindForVerify, Acct!FindProfile, Acct!FindForBan,
        Acct!QueryListings, Acct!LoadLister
<1>2. UNCHANGED <<user, profile, listing, proven, gone>> /\ interrupted' \in BOOLEAN
  BY DEF Acct!TypeOK, Acct!NoWrite, Acct!Begin, Acct!Fail, Acct!FindUser, Acct!FindForPatch,
         Acct!FindUserForPatch, Acct!FindForPut,
         Acct!FindListing, Acct!FindOwner, Acct!FindPhone, Acct!FindForVerify,
         Acct!FindProfile, Acct!FindForBan,
         Acct!QueryListings, Acct!LoadLister
<1> QED
  BY <1>1, <1>2 DEF Acct!TypeOK

\* Writes of the profile keep the types.
LEMMA ProfileType ==
    ASSUME Acct!TypeOK, NEW h \in Handlers,
           Acct!SaveProfile(h) \/ Acct!UpdateProfile(h) \/ Acct!RefreshCompletion(h)
    PROVE  Acct!TypeOK'
<1>1. ownReq' \in [Handlers -> Acct!Request]
  BY FinishType DEF Acct!TypeOK, Acct!SaveProfile, Acct!UpdateProfile, Acct!RefreshCompletion
<1>2. ownReq[h].fields \in Acct!Fields /\ ownReq[h].verified \in BOOLEAN
  BY DEF Acct!TypeOK, Acct!Request
<1>3. /\ Acct!Completion(ownReq[h].fields, ownReq[h].verified) \in Nat
      /\ Acct!Completion(ownReq[h].fields, TRUE) \in Nat
  BY <1>2, CompletionNat
<1>4. profile' \in Acct!Profile /\ (profile'.deleted => profile'.exists)
  <2>1. CASE Acct!SaveProfile(h)
    BY <2>1, <1>2, <1>3 DEF Acct!SaveProfile, Acct!SavedProfile, Acct!Profile
  <2>2. CASE Acct!UpdateProfile(h)
    BY <2>2, <1>2, <1>3 DEF Acct!TypeOK, Acct!UpdateProfile, Acct!Profile
  <2>3. CASE Acct!RefreshCompletion(h)
    BY <2>3, <1>2, <1>3 DEF Acct!TypeOK, Acct!RefreshCompletion, Acct!Profile
  <2> QED
    BY <2>1, <2>2, <2>3
<1> QED
  BY <1>1, <1>4 DEF Acct!TypeOK, Acct!SaveProfile, Acct!UpdateProfile, Acct!RefreshCompletion

\* The other writes keep the types.
LEMMA WriteType ==
    ASSUME Acct!TypeOK, NEW h \in Handlers,
           \/ Acct!SaveListing(h) \/ Acct!Deactivate(h) \/ Acct!SetPhone(h)
           \/ Acct!VerifyCode(h)
           \/ Acct!MarkVerified(h) \/ Acct!CommitDelete(h) \/ Acct!CommitBan(h)
    PROVE  Acct!TypeOK'
<1>1. CASE Acct!SaveListing(h) \/ Acct!Deactivate(h)
  <2>1. /\ listing' \in [exists : BOOLEAN, active : BOOLEAN]
        /\ (listing'.active => listing'.exists)
    <3>1. CASE Acct!SaveListing(h)
      <4>1. [exists |-> TRUE, active |-> TRUE] \in [exists : BOOLEAN, active : BOOLEAN]
        OBVIOUS
      <4>2. CASE ownReq[h].row \/ ~listing.exists
        BY <3>1, <4>1, <4>2 DEF Acct!SaveListing
      <4>3. CASE ~(ownReq[h].row \/ ~listing.exists)
        BY <3>1, <4>3 DEF Acct!SaveListing, Acct!TypeOK
      <4> QED
        BY <4>2, <4>3
    <3>2. CASE Acct!Deactivate(h)
      BY <3>2 DEF Acct!TypeOK, Acct!Deactivate
    <3> QED
      BY <1>1, <3>1, <3>2
  <2> QED
    BY <1>1, <2>1, FinishType DEF Acct!TypeOK, Acct!SaveListing, Acct!Deactivate, Acct!NoHistory
<1>2. CASE Acct!SetPhone(h)
  BY <1>2, FinishType DEF Acct!TypeOK, Acct!SetPhone, Acct!User, Acct!Request
<1>3. CASE Acct!VerifyCode(h)
  BY <1>3, GotoType DEF Acct!TypeOK, Acct!VerifyCode, Acct!OwnerSteps
<1>4. CASE Acct!MarkVerified(h)
  BY <1>4, GotoType DEF Acct!TypeOK, Acct!MarkVerified, Acct!OwnerSteps, Acct!User,
                        Acct!NoHistory
<1>5. CASE Acct!CommitDelete(h) \/ Acct!CommitBan(h)
  BY <1>5, FinishType DEF Acct!TypeOK, Acct!CommitDelete, Acct!CommitBan, Acct!Erase,
                          Acct!User, Acct!Profile
<1> QED
  BY <1>1, <1>2, <1>3, <1>4, <1>5

\* Every row and request has its type, whatever overlaps.
THEOREM TypeCorrect == Acct!Spec => []Acct!TypeOK
<1>1. Acct!TypeOK /\ [Acct!Next]_owner => Acct!TypeOK'
  <2> SUFFICES ASSUME Acct!TypeOK, [Acct!Next]_owner PROVE Acct!TypeOK'
    OBVIOUS
  <2>1. CASE Acct!Next
    BY <2>1, ReadType, ProfileType, WriteType DEF Acct!Next, Acct!OwnerStep
  <2>2. CASE UNCHANGED owner
    BY <2>2 DEF owner, Acct!TypeOK
  <2> QED
    BY <2>1, <2>2
<1> QED
  BY <1>1, InitType, PTL DEF Acct!Spec, Acct!vars, owner

-----------------------------------------------------------------------------
(* Deletion sticks, in every mode.                                         *)

\* A clean deletion leaves no request that would write the account alive again.
NobodyRevives ==
    gone = "clean" => user.deleted /\ \A g \in Handlers : ~Acct!Reviving(g)

\* A transaction that erases the account starts a deletion that sticks.
LEMMA EraseSticks ==
    ASSUME Acct!TypeOK, NEW h \in Handlers, Acct!Erase(h), Acct!Finish(h)
    PROVE  NobodyRevives' /\ Acct!DeletionSticks'
<1>1. \A g \in Handlers : ownReq'[g] = IF g = h THEN Acct!Idle ELSE ownReq[g]
  BY DEF Acct!TypeOK, Acct!Finish, Acct!Become
<1>2. user'.deleted /\ ~listing'.active /\ ~Acct!ProfileLive'
  BY DEF Acct!Erase, Acct!TypeOK, Acct!User, Acct!Profile, Acct!ProfileLive
<1>3. ASSUME gone' = "clean", NEW g \in Handlers PROVE ~Acct!Reviving(g)'
  BY <1>1, <1>3 DEF Acct!Erase, Acct!Reviving, Acct!At, Acct!Idle
<1> QED
  BY <1>2, <1>3 DEF NobodyRevives, Acct!DeletionSticks

\* A handler that goes on with a value it has read is at the step it went to.
LEMMA ReadMoves ==
    ASSUME ownReq \in [Handlers -> Acct!Request], NEW h \in Handlers, NEW s, NEW x,
           \/ Acct!Become(h, [ownReq[h] EXCEPT !.pc = s, !.row = x])
           \/ Acct!Become(h, [ownReq[h] EXCEPT !.pc = s, !.fields = x])
    PROVE  ownReq'[h].pc = s
<1>1. ownReq'[h] = [ownReq[h] EXCEPT !.pc = s, !.row = x]
      \/ ownReq'[h] = [ownReq[h] EXCEPT !.pc = s, !.fields = x]
  BY DEF Acct!Become
<1>2. ownReq[h] \in Acct!Request
  OBVIOUS
<1> QED
  BY <1>1, <1>2 DEF Acct!Request

\* Every step keeps a clean deletion clean.
LEMMA DeletionStep ==
    ASSUME Acct!TypeOK, NobodyRevives, Acct!DeletionSticks, [Acct!Next]_owner
    PROVE  NobodyRevives' /\ Acct!DeletionSticks'
<1>1. ASSUME NEW h \in Handlers,
             \/ Acct!Begin(h) \/ Acct!Fail(h) \/ Acct!FindUser(h) \/ Acct!FindForPatch(h)
             \/ Acct!FindUserForPatch(h)
             \/ Acct!FindForPut(h) \/ Acct!FindListing(h) \/ Acct!FindOwner(h)
             \/ Acct!FindPhone(h)
             \/ Acct!FindForVerify(h) \/ Acct!FindProfile(h) \/ Acct!FindForBan(h)
             \/ Acct!QueryListings(h)
             \/ Acct!LoadLister(h) \/ Acct!SetPhone(h) \/ Acct!VerifyCode(h)
             \/ Acct!MarkVerified(h)
      PROVE  NobodyRevives' /\ Acct!DeletionSticks'
  <2>1. UNCHANGED <<profile, listing, gone>> /\ user'.deleted = user.deleted
    BY <1>1 DEF Acct!TypeOK, Acct!User, Acct!NoWrite, Acct!Begin, Acct!Fail, Acct!FindUser,
                Acct!FindForPatch, Acct!FindUserForPatch,
                Acct!FindForPut, Acct!FindListing, Acct!FindOwner, Acct!FindPhone,
                Acct!FindForVerify, Acct!FindProfile,
                Acct!FindForBan, Acct!QueryListings, Acct!LoadLister, Acct!SetPhone,
                Acct!VerifyCode, Acct!MarkVerified,
                Acct!NoHistory
  <2>2. ASSUME NEW g \in Handlers, Acct!Reviving(g)' PROVE Acct!Reviving(g) \/ ~user.deleted
    <3>1. CASE g # h
      <4>1. ownReq'[g] = ownReq[g]
        BY <1>1, <3>1 DEF Acct!TypeOK, Acct!Become, Acct!Goto, Acct!Finish, Acct!Begin,
                          Acct!Fail, Acct!FindUser, Acct!FindForPatch,
                          Acct!FindUserForPatch, Acct!FindForPut, Acct!FindListing,
                          Acct!FindOwner, Acct!FindPhone,
                          Acct!FindForVerify, Acct!FindProfile, Acct!FindForBan,
                          Acct!QueryListings, Acct!LoadLister,
                          Acct!SetPhone, Acct!VerifyCode, Acct!MarkVerified
      <4> QED
        BY <2>2, <4>1 DEF Acct!Reviving, Acct!At
    <3>2. CASE g = h /\ (Acct!Begin(h) \/ Acct!FindUser(h) \/ Acct!FindOwner(h))
      <4>1. CASE Acct!Begin(h)
        BY <2>2, <3>2, <4>1 DEF Acct!Begin
      <4>2. CASE Acct!FindUser(h) \/ Acct!FindOwner(h)
        BY <2>2, <3>2, <4>2 DEF Acct!FindUser, Acct!FindOwner, Acct!Finish, Acct!Become,
                                Acct!Idle, Acct!TypeOK, Acct!Reviving, Acct!At
      <4> QED
        BY <3>2, <4>1, <4>2
    <3>3. CASE /\ g = h
               /\ \/ Acct!FindUserForPatch(h) \/ Acct!FindListing(h)
                  \/ Acct!FindForVerify(h) \/ Acct!FindProfile(h)
      <4>1. CASE Acct!FindUserForPatch(h)
        BY <2>2, <3>3, <4>1 DEF Acct!FindUserForPatch, Acct!Become, Acct!TypeOK, Acct!Request,
                                Acct!Reviving, Acct!At
      <4>2. CASE Acct!FindListing(h)
        <5>1. Acct!Finish(h) \/ ownReq'[h].pc = "findOwner"
          BY <4>2, ReadMoves DEF Acct!FindListing, Acct!TypeOK
        <5>2. ownReq'[h].pc \in {"idle", "findOwner"}
          BY <5>1 DEF Acct!Finish, Acct!Become, Acct!Idle, Acct!TypeOK
        <5> QED
          BY <2>2, <3>3, <5>2 DEF Acct!Reviving, Acct!At
      <4>3. CASE Acct!FindForVerify(h)
        BY <2>2, <3>3, <4>3 DEF Acct!FindForVerify, Acct!Finish, Acct!Become, Acct!Idle,
                                Acct!TypeOK, Acct!Request, Acct!Reviving, Acct!At
      <4>4. CASE Acct!FindProfile(h)
        <5>1. Acct!Finish(h) \/ ownReq'[h].pc = "refresh"
          BY <4>4, ReadMoves DEF Acct!FindProfile, Acct!TypeOK
        <5>2. ownReq'[h].pc \in {"idle", "refresh"}
          BY <5>1 DEF Acct!Finish, Acct!Become, Acct!Idle, Acct!TypeOK
        <5> QED
          BY <2>2, <3>3, <5>2 DEF Acct!Reviving, Acct!At
      <4> QED
        BY <3>3, <4>1, <4>2, <4>3, <4>4
    <3>4. CASE /\ g = h
               /\ \/ Acct!FindForPatch(h) \/ Acct!FindForPut(h) \/ Acct!FindPhone(h)
                  \/ Acct!VerifyCode(h) \/ Acct!MarkVerified(h)
      BY <2>2, <3>4 DEF Acct!FindForPatch, Acct!FindForPut, Acct!FindPhone, Acct!VerifyCode,
                        Acct!MarkVerified, Acct!Finish,
                        Acct!Goto, Acct!Become, Acct!Idle, Acct!TypeOK, Acct!Request,
                        Acct!Reviving, Acct!At
    <3>5. CASE /\ g = h
               /\ \/ Acct!Fail(h) \/ Acct!LoadLister(h) \/ Acct!SetPhone(h)
                  \/ Acct!FindForBan(h) \/ Acct!QueryListings(h)
      BY <2>2, <3>5 DEF Acct!Fail, Acct!LoadLister, Acct!SetPhone, Acct!FindForBan,
                        Acct!QueryListings, Acct!Finish,
                        Acct!Become, Acct!Idle, Acct!TypeOK, Acct!Reviving, Acct!At
    <3> QED
      BY <1>1, <3>1, <3>2, <3>3, <3>4, <3>5
  <2> QED
    BY <2>1, <2>2 DEF NobodyRevives, Acct!DeletionSticks, Acct!ProfileLive
<1>2. ASSUME NEW h \in Handlers,
Acct!UpdateProfile(h) \/ Acct!RefreshCompletion(h) \/ Acct!Deactivate(h)
      PROVE  NobodyRevives' /\ Acct!DeletionSticks'
  <2>1. \A g \in Handlers : ownReq'[g] = IF g = h THEN Acct!Idle ELSE ownReq[g]
    BY <1>2 DEF Acct!TypeOK, Acct!UpdateProfile, Acct!RefreshCompletion, Acct!Deactivate,
                Acct!Finish, Acct!Become
  <2>2. /\ UNCHANGED <<user, gone>>
        /\ profile'.exists = profile.exists /\ profile'.deleted = profile.deleted
        /\ listing'.active => listing.active
    BY <1>2 DEF Acct!TypeOK, Acct!Profile, Acct!UpdateProfile, Acct!RefreshCompletion,
                Acct!Deactivate, Acct!NoHistory
  <2> QED
    BY <2>1, <2>2 DEF NobodyRevives, Acct!DeletionSticks, Acct!ProfileLive, Acct!Reviving,
                      Acct!At, Acct!Idle
<1>3. ASSUME NEW h \in Handlers, Acct!SaveProfile(h) \/ Acct!SaveListing(h)
      PROVE  NobodyRevives' /\ Acct!DeletionSticks'
  BY <1>3 DEF Acct!SaveProfile, Acct!SaveListing, Acct!NoHistory, NobodyRevives,
              Acct!DeletionSticks, Acct!Reviving
<1>4. ASSUME NEW h \in Handlers, Acct!CommitDelete(h) \/ Acct!CommitBan(h)
      PROVE  NobodyRevives' /\ Acct!DeletionSticks'
  BY <1>4, EraseSticks DEF Acct!CommitDelete, Acct!CommitBan
<1>5. CASE UNCHANGED owner
  BY <1>5 DEF owner, NobodyRevives, Acct!DeletionSticks, Acct!ProfileLive, Acct!Reviving,
              Acct!At
<1> QED
  BY <1>1, <1>2, <1>3, <1>4, <1>5 DEF Acct!Next, Acct!OwnerStep

\* A deletion or ban that meets no write under way is final, whatever overlaps later.
THEOREM DeletionIsFinal == Acct!Spec => []DeletionSticks
<1>1. Acct!Init => NobodyRevives /\ Acct!DeletionSticks
  BY DEF Acct!Init, NobodyRevives, Acct!DeletionSticks
<1>2. Acct!TypeOK /\ NobodyRevives /\ Acct!DeletionSticks /\ [Acct!Next]_owner
        => NobodyRevives' /\ Acct!DeletionSticks'
  BY DeletionStep
<1> QED
  BY <1>1, <1>2, TypeCorrect, PTL DEF Acct!Spec, Acct!vars, owner, DeletionSticks

-----------------------------------------------------------------------------
(* An owner who waits for the answer of one request before the next.       *)

\* At most one request of the owner is under way.
OneRequest ==
    \A g, h \in Handlers :
        ownReq[g].pc \in Acct!OwnerSteps /\ ownReq[h].pc \in Acct!OwnerSteps => g = h

\* What the owner's request has read is still so.
ReadHolds(h) ==
    /\ ownReq[h].pc \in {"verifyCode", "markVerified"} =>
          ownReq[h].phone = user.phone /\ user.phone # NoPhone
    /\ ownReq[h].pc = "markVerified" => proven
    /\ ownReq[h].pc \in {"saveProfile", "updateProfile"} => ownReq[h].verified = user.verified
    /\ ownReq[h].pc = "refresh" => ownReq[h].fields = profile.fields
    /\ ownReq[h].pc \in {"findOwner", "saveListing"} => ~listing.active

\* A verified phone is counted, or is about to be, or was cut off.
CountedOrPending ==
    user.verified /\ Acct!ProfileLive =>
        \/ interrupted
        \/ profile.completion = Acct!Completion(profile.fields, TRUE)
        \/ \E h \in Handlers : ownReq[h].pc \in {"findProfile", "refresh"}

AloneInv ==
    /\ OneRequest
    /\ \A h \in Handlers : ReadHolds(h)
    /\ Acct!VerifiedMeansProven
    /\ CountedOrPending

\* What a handler holds after it went on with a value it has read.
LEMMA ReadTaken ==
    ASSUME ownReq \in [Handlers -> Acct!Request], NEW h \in Handlers, NEW s, NEW x
    PROVE  /\ Acct!Become(h, [ownReq[h] EXCEPT !.pc = s, !.phone = x]) =>
                  ownReq'[h].pc = s /\ ownReq'[h].phone = x
           /\ Acct!Become(h, [ownReq[h] EXCEPT !.pc = s, !.verified = x]) =>
                  ownReq'[h].pc = s /\ ownReq'[h].verified = x
           /\ Acct!Become(h, [ownReq[h] EXCEPT !.pc = s, !.fields = x]) =>
                  ownReq'[h].pc = s /\ ownReq'[h].fields = x
           /\ Acct!Become(h, [ownReq[h] EXCEPT !.pc = s, !.row = x]) => ownReq'[h].pc = s
<1>1. \A r : Acct!Become(h, r) => ownReq'[h] = r
  BY DEF Acct!Become
<1>2. ownReq[h] \in Acct!Request
  OBVIOUS
<1>3. /\ [ownReq[h] EXCEPT !.pc = s, !.phone = x].pc = s
      /\ [ownReq[h] EXCEPT !.pc = s, !.phone = x].phone = x
      /\ [ownReq[h] EXCEPT !.pc = s, !.verified = x].pc = s
      /\ [ownReq[h] EXCEPT !.pc = s, !.verified = x].verified = x
  BY <1>2 DEF Acct!Request
<1>4. /\ [ownReq[h] EXCEPT !.pc = s, !.fields = x].pc = s
      /\ [ownReq[h] EXCEPT !.pc = s, !.fields = x].fields = x
      /\ [ownReq[h] EXCEPT !.pc = s, !.row = x].pc = s
  BY <1>2 DEF Acct!Request
<1> QED
  BY <1>1, <1>3, <1>4

\* The requests of the other handlers stay, in every step of a handler.
LEMMA OthersStay ==
    ASSUME ownReq \in [Handlers -> Acct!Request], NEW h \in Handlers,
           \/ Acct!Begin(h) \/ Acct!Fail(h) \/ Acct!OwnerStep(h) \/ Acct!FindForBan(h)
           \/ Acct!CommitBan(h)
           \/ Acct!QueryListings(h) \/ Acct!LoadLister(h)
    PROVE  \A g \in Handlers \ {h} : ownReq'[g] = ownReq[g]
<1>1. \A r : Acct!Become(h, r) => \A g \in Handlers \ {h} : ownReq'[g] = ownReq[g]
  BY DEF Acct!Become
<1>2. CASE Acct!Begin(h)
  BY <1>1, <1>2 DEF Acct!Begin
<1>3. CASE ~Acct!Begin(h)
  BY <1>1, <1>3
  DEF Acct!Goto, Acct!Finish, Acct!Fail, Acct!OwnerStep, Acct!FindUser, Acct!SaveProfile,
      Acct!FindForPatch, Acct!FindUserForPatch,
      Acct!UpdateProfile, Acct!FindForPut, Acct!FindListing, Acct!FindOwner, Acct!SaveListing,
      Acct!Deactivate, Acct!FindPhone,
      Acct!SetPhone, Acct!FindForVerify, Acct!VerifyCode, Acct!MarkVerified, Acct!FindProfile,
      Acct!RefreshCompletion,
      Acct!CommitDelete, Acct!FindForBan, Acct!CommitBan, Acct!QueryListings, Acct!LoadLister
<1> QED
  BY <1>2, <1>3

\* A step of the owner's request starts from one of the owner's steps, and ends there
\* or idle; every other handler stays out of them.
LEMMA OwnerStepAlone ==
    ASSUME Acct!TypeOK, OneRequest, NEW h \in Handlers, Acct!OwnerStep(h)
    PROVE  /\ ownReq[h].pc \in Acct!OwnerSteps
           /\ \A g \in Handlers \ {h} :
                 ownReq'[g] = ownReq[g] /\ ownReq[g].pc \notin Acct!OwnerSteps
           /\ OneRequest'
<1>1. ownReq[h].pc \in Acct!OwnerSteps
  BY DEF Acct!OwnerStep, Acct!FindUser, Acct!SaveProfile, Acct!FindForPatch,
         Acct!FindUserForPatch, Acct!UpdateProfile,
         Acct!FindForPut, Acct!FindListing, Acct!FindOwner, Acct!SaveListing, Acct!Deactivate,
         Acct!FindPhone, Acct!SetPhone,
         Acct!FindForVerify, Acct!VerifyCode, Acct!MarkVerified, Acct!FindProfile,
         Acct!RefreshCompletion,
         Acct!CommitDelete, Acct!At, Acct!OwnerSteps
<1>2. \A g \in Handlers \ {h} : ownReq'[g] = ownReq[g] /\ ownReq[g].pc \notin Acct!OwnerSteps
  BY <1>1, OthersStay DEF Acct!TypeOK, OneRequest
<1> QED
  BY <1>1, <1>2 DEF OneRequest

\* The profile's steps of the owner.
LEMMA AloneProfile ==
    ASSUME Acct!TypeOK, AloneInv, NEW h \in Handlers,
           \/ Acct!FindUser(h) \/ Acct!SaveProfile(h) \/ Acct!FindForPatch(h)
           \/ Acct!FindUserForPatch(h)
           \/ Acct!UpdateProfile(h)
    PROVE  ReadHolds(h)' /\ Acct!VerifiedMeansProven' /\ CountedOrPending'
<1>1. /\ UNCHANGED <<user, listing, proven>>
      /\ \A g \in Handlers \ {h} : ownReq'[g] = ownReq[g]
      /\ ownReq[h].pc \notin {"findProfile", "refresh"}
  BY OthersStay DEF Acct!TypeOK, Acct!OwnerStep, Acct!FindUser, Acct!SaveProfile,
                    Acct!FindForPatch, Acct!FindUserForPatch,
                    Acct!UpdateProfile, Acct!NoWrite, Acct!At
<1>2. Acct!VerifiedMeansProven'
  BY <1>1 DEF AloneInv, Acct!VerifiedMeansProven
<1>3. ReadHolds(h)'
  <2>1. CASE Acct!Finish(h)
    BY <2>1 DEF Acct!Finish, Acct!Become, Acct!Idle, Acct!TypeOK, ReadHolds
  <2>2. CASE Acct!FindUser(h) /\ ~Acct!Finish(h)
    <3>1. ownReq'[h].pc = "saveProfile" /\ ownReq'[h].verified = user.verified
      BY <2>2, ReadTaken DEF Acct!FindUser, Acct!TypeOK
    <3> QED
      BY <1>1, <3>1 DEF ReadHolds
  <2>3. CASE Acct!FindForPatch(h) /\ ~Acct!Finish(h)
    <3>1. ownReq'[h].pc = "findUserForPatch"
      BY <2>3 DEF Acct!FindForPatch, Acct!Goto, Acct!Become, Acct!TypeOK, Acct!Request
    <3> QED
      BY <3>1 DEF ReadHolds
  <2>4. CASE Acct!FindUserForPatch(h)
    <3>1. ownReq'[h].pc = "updateProfile" /\ ownReq'[h].verified = user.verified
      BY <2>4, ReadTaken DEF Acct!FindUserForPatch, Acct!TypeOK
    <3> QED
      BY <1>1, <3>1 DEF ReadHolds
  <2> QED
    BY <2>1, <2>2, <2>3, <2>4 DEF Acct!SaveProfile, Acct!UpdateProfile
<1>4. CountedOrPending'
  <2>1. CASE UNCHANGED <<profile, interrupted>>
    BY <1>1, <2>1 DEF AloneInv, CountedOrPending, Acct!ProfileLive
  <2>2. CASE Acct!SaveProfile(h) \/ Acct!UpdateProfile(h)
    <3>1. profile'.completion = Acct!Completion(profile'.fields, ownReq[h].verified)
      <4>1. CASE Acct!SaveProfile(h)
        BY <4>1 DEF Acct!SaveProfile, Acct!SavedProfile
      <4>2. CASE Acct!UpdateProfile(h)
        BY <4>2 DEF Acct!UpdateProfile, Acct!TypeOK, Acct!Profile
      <4> QED
        BY <2>2, <4>1, <4>2
    <3>2. ownReq[h].verified = user'.verified
      BY <1>1, <2>2 DEF Acct!SaveProfile, Acct!UpdateProfile, AloneInv, ReadHolds, Acct!At
    <3>3. user'.verified \in BOOLEAN
      BY <1>1 DEF Acct!TypeOK, Acct!User
    <3>4. CASE user'.verified = TRUE
      BY <3>1, <3>2, <3>4 DEF CountedOrPending, Acct!Completion
    <3> QED
      BY <3>3, <3>4 DEF CountedOrPending
  <2> QED
    BY <2>1, <2>2 DEF Acct!FindUser, Acct!SaveProfile, Acct!FindForPatch,
                      Acct!FindUserForPatch, Acct!UpdateProfile, Acct!NoWrite
<1> QED
  BY <1>2, <1>3, <1>4

\* The listing's steps of the owner, and the deletion.
LEMMA AloneListing ==
    ASSUME Acct!TypeOK, AloneInv, NEW h \in Handlers,
           \/ Acct!FindForPut(h) \/ Acct!FindListing(h) \/ Acct!FindOwner(h)
           \/ Acct!SaveListing(h)
           \/ Acct!Deactivate(h) \/ Acct!CommitDelete(h)
    PROVE  ReadHolds(h)' /\ Acct!VerifiedMeansProven' /\ CountedOrPending'
<1>1. /\ UNCHANGED <<proven, interrupted>>
      /\ user'.phone = user.phone /\ user'.verified = user.verified
      /\ profile'.fields = profile.fields /\ profile'.completion = profile.completion
      /\ Acct!ProfileLive' => Acct!ProfileLive
      /\ \A g \in Handlers \ {h} : ownReq'[g] = ownReq[g]
      /\ ownReq[h].pc \notin {"findProfile", "refresh"}
  <2>1. /\ \A g \in Handlers \ {h} : ownReq'[g] = ownReq[g]
        /\ ownReq[h].pc \notin {"findProfile", "refresh"}
    BY OthersStay DEF Acct!TypeOK, Acct!OwnerStep, Acct!FindForPut, Acct!FindListing,
                      Acct!FindOwner, Acct!SaveListing,
                      Acct!Deactivate, Acct!CommitDelete, Acct!At
  <2>2. CASE Acct!CommitDelete(h)
    BY <2>1, <2>2 DEF Acct!CommitDelete, Acct!Erase, Acct!TypeOK, Acct!User, Acct!Profile,
                      Acct!ProfileLive
  <2>3. CASE ~Acct!CommitDelete(h)
    BY <2>1, <2>3 DEF Acct!FindForPut, Acct!FindListing, Acct!FindOwner, Acct!SaveListing,
                      Acct!Deactivate, Acct!NoWrite,
                      Acct!NoHistory, Acct!ProfileLive
  <2> QED
    BY <2>2, <2>3
<1>2. Acct!VerifiedMeansProven' /\ CountedOrPending'
  BY <1>1 DEF AloneInv, Acct!VerifiedMeansProven, CountedOrPending
<1>3. ReadHolds(h)'
  <2>1. CASE Acct!Finish(h)
    BY <2>1 DEF Acct!Finish, Acct!Become, Acct!Idle, Acct!TypeOK, ReadHolds
  <2>2. CASE Acct!FindForPut(h) /\ ~Acct!Finish(h)
    <3>1. ownReq'[h].pc = "findListing"
      BY <2>2 DEF Acct!FindForPut, Acct!Goto, Acct!Become, Acct!TypeOK, Acct!Request
    <3> QED
      BY <3>1 DEF ReadHolds
  <2>3. CASE Acct!FindListing(h) /\ ~Acct!Finish(h)
    <3>1. ownReq'[h].pc = "findOwner" /\ ~listing'.active
      BY <2>3, ReadTaken DEF Acct!FindListing, Acct!TypeOK, Acct!NoWrite
    <3> QED
      BY <3>1 DEF ReadHolds
  <2>4. CASE Acct!FindOwner(h) /\ ~Acct!Finish(h)
    <3>1. ownReq'[h].pc = "saveListing" /\ ~listing'.active
      BY <2>4 DEF Acct!FindOwner, Acct!Goto, Acct!Become, Acct!TypeOK, Acct!Request, AloneInv,
                  ReadHolds, Acct!At, Acct!NoWrite
    <3> QED
      BY <3>1 DEF ReadHolds
  <2> QED
    BY <2>1, <2>2, <2>3, <2>4 DEF Acct!SaveListing, Acct!Deactivate, Acct!CommitDelete
<1> QED
  BY <1>2, <1>3

\* The phone's steps of the owner.
LEMMA AlonePhone ==
    ASSUME Acct!TypeOK, AloneInv, NEW h \in Handlers,
           \/ Acct!FindPhone(h) \/ Acct!SetPhone(h) \/ Acct!FindForVerify(h)
           \/ Acct!VerifyCode(h)
           \/ Acct!MarkVerified(h) \/ Acct!FindProfile(h) \/ Acct!RefreshCompletion(h)
    PROVE  ReadHolds(h)' /\ Acct!VerifiedMeansProven' /\ CountedOrPending'
<1>1. /\ UNCHANGED listing
      /\ \A g \in Handlers \ {h} : ownReq'[g] = ownReq[g]
      /\ ReadHolds(h) /\ Acct!VerifiedMeansProven /\ CountedOrPending
  BY OthersStay DEF Acct!TypeOK, Acct!OwnerStep, Acct!FindPhone, Acct!SetPhone,
                    Acct!FindForVerify, Acct!VerifyCode,
                    Acct!MarkVerified, Acct!FindProfile, Acct!RefreshCompletion, Acct!NoWrite,
                    AloneInv
<1>2. CASE Acct!FindPhone(h)
  <2>1. ownReq'[h].pc = "setPhone" /\ ownReq[h].pc = "findPhone"
    BY <1>2 DEF Acct!FindPhone, Acct!Goto, Acct!Become, Acct!TypeOK, Acct!Request, Acct!At
  <2> QED
    BY <1>1, <1>2, <2>1 DEF Acct!FindPhone, Acct!NoWrite, ReadHolds, Acct!VerifiedMeansProven,
                            CountedOrPending, Acct!ProfileLive
<1>3. CASE Acct!SetPhone(h)
  <2>1. ownReq'[h].pc = "idle" /\ ~user'.verified
    BY <1>3 DEF Acct!SetPhone, Acct!Finish, Acct!Become, Acct!Idle, Acct!TypeOK, Acct!User
  <2> QED
    BY <2>1 DEF ReadHolds, Acct!VerifiedMeansProven, CountedOrPending
<1>4. CASE Acct!FindForVerify(h)
  <2>1. ownReq[h].pc = "findForVerify"
    BY <1>4 DEF Acct!FindForVerify, Acct!At
  <2>2. \/ ownReq'[h].pc = "idle"
        \/ /\ ownReq'[h].pc = "verifyCode"
           /\ ownReq'[h].phone = user.phone /\ user.phone # NoPhone
    <3>1. CASE Acct!Finish(h)
      BY <3>1 DEF Acct!Finish, Acct!Become, Acct!Idle, Acct!TypeOK
    <3> QED
      BY <1>4, <3>1, ReadTaken DEF Acct!FindForVerify, Acct!TypeOK
  <2> QED
    BY <1>1, <1>4, <2>1, <2>2 DEF Acct!FindForVerify, Acct!NoWrite, ReadHolds,
                                  Acct!VerifiedMeansProven,
                                  CountedOrPending, Acct!ProfileLive
<1>5. CASE Acct!VerifyCode(h)
  <2>1. /\ ownReq[h].pc = "verifyCode" /\ ownReq[h].phone = user.phone
        /\ ownReq'[h].pc = "markVerified" /\ ownReq'[h].phone = ownReq[h].phone
    BY <1>1, <1>5 DEF Acct!VerifyCode, Acct!Goto, Acct!Become, Acct!TypeOK, Acct!Request,
                      Acct!At, ReadHolds
  <2>2. proven' = TRUE
    BY <1>5, <2>1 DEF Acct!VerifyCode
  <2> QED
    BY <1>1, <1>5, <2>1, <2>2 DEF Acct!VerifyCode, ReadHolds, Acct!VerifiedMeansProven,
                                  CountedOrPending, Acct!ProfileLive
<1>6. CASE Acct!MarkVerified(h)
  <2>1. ownReq[h].pc = "markVerified" /\ ownReq'[h].pc = "findProfile"
    BY <1>6 DEF Acct!MarkVerified, Acct!Goto, Acct!Become, Acct!TypeOK, Acct!Request, Acct!At
  <2>2. user'.phone # NoPhone /\ proven'
    BY <1>1, <1>6, <2>1 DEF Acct!MarkVerified, Acct!NoHistory, ReadHolds, Acct!TypeOK, Acct!User
  <2> QED
    BY <2>1, <2>2 DEF ReadHolds, Acct!VerifiedMeansProven, CountedOrPending
<1>7. CASE Acct!FindProfile(h)
  <2>1. ownReq[h].pc = "findProfile"
    BY <1>7 DEF Acct!FindProfile, Acct!At
  <2>2. \/ ownReq'[h].pc = "idle" /\ ~Acct!ProfileLive
        \/ ownReq'[h].pc = "refresh" /\ ownReq'[h].fields = profile.fields
    <3>1. Acct!Finish(h) => ownReq'[h].pc = "idle"
      BY DEF Acct!Finish, Acct!Become, Acct!Idle, Acct!TypeOK
    <3> QED
      BY <1>7, <3>1, ReadTaken DEF Acct!FindProfile, Acct!TypeOK
  <2> QED
    BY <1>1, <1>7, <2>1, <2>2 DEF Acct!FindProfile, Acct!NoWrite, ReadHolds,
                                  Acct!VerifiedMeansProven,
                                  CountedOrPending, Acct!ProfileLive
<1>8. CASE Acct!RefreshCompletion(h)
  <2>1. ownReq'[h].pc = "idle"
    BY <1>8 DEF Acct!RefreshCompletion, Acct!Finish, Acct!Become, Acct!Idle, Acct!TypeOK
  <2>2. profile'.completion = Acct!Completion(profile'.fields, TRUE)
    BY <1>1, <1>8 DEF Acct!RefreshCompletion, ReadHolds, Acct!At, Acct!TypeOK, Acct!Profile
  <2> QED
    BY <1>1, <1>8, <2>1, <2>2 DEF Acct!RefreshCompletion, ReadHolds, Acct!VerifiedMeansProven,
                                  CountedOrPending
<1> QED
  BY <1>2, <1>3, <1>4, <1>5, <1>6, <1>7, <1>8

\* The steps that are not the owner's, and those that start or end a request of the owner.
LEMMA AloneOthers ==
    ASSUME Overlap = FALSE, Acct!TypeOK, AloneInv, NEW h \in Handlers,
           \/ Acct!Begin(h) \/ Acct!Fail(h) \/ Acct!FindForBan(h) \/ Acct!CommitBan(h)
           \/ Acct!QueryListings(h)
           \/ Acct!LoadLister(h)
    PROVE  AloneInv'
<1>1. \A g \in Handlers \ {h} : ownReq'[g] = ownReq[g]
  BY OthersStay DEF Acct!TypeOK
<1>2. /\ UNCHANGED proven
      /\ user'.phone = user.phone /\ user'.verified = user.verified
      /\ profile'.fields = profile.fields /\ profile'.completion = profile.completion
      /\ Acct!ProfileLive' => Acct!ProfileLive
      /\ listing'.active => listing.active
  <2>1. CASE Acct!CommitBan(h)
    BY <2>1 DEF Acct!CommitBan, Acct!Erase, Acct!TypeOK, Acct!User, Acct!Profile,
                Acct!ProfileLive
  <2>2. CASE ~Acct!CommitBan(h)
    BY <2>2 DEF Acct!Begin, Acct!Fail, Acct!FindForBan, Acct!QueryListings, Acct!LoadLister,
                Acct!NoWrite, Acct!ProfileLive
  <2> QED
    BY <2>1, <2>2
<1>3. \/ ownReq'[h].pc \in {"idle", "commitBan", "loadLister"}
      \/ ownReq'[h].pc \in Acct!FirstSteps /\ ~Acct!OwnerBusy
  <2>1. CASE Acct!Begin(h)
    <3>1. PICK step \in Acct!FirstSteps, score \in Scores, p \in Phones :
              Acct!Become(h, [Acct!Idle EXCEPT !.pc = step, !.fields = score, !.phone = p])
      BY <2>1 DEF Acct!Begin
    <3>2. ownReq'[h].pc = step
      BY <3>1 DEF Acct!Become, Acct!Idle, Acct!TypeOK
    <3> QED
      BY <2>1, <3>2 DEF Acct!Begin
  <2>2. CASE ~Acct!Begin(h)
    BY <2>2 DEF Acct!Fail, Acct!FindForBan, Acct!CommitBan, Acct!QueryListings,
                Acct!LoadLister, Acct!Finish, Acct!Become, Acct!Idle, Acct!TypeOK
  <2> QED
    BY <2>1, <2>2
<1>4. OneRequest'
  BY <1>1, <1>3 DEF AloneInv, OneRequest, Acct!OwnerBusy, Acct!OwnerSteps
<1>5. \A g \in Handlers : ReadHolds(g)'
  BY <1>1, <1>2, <1>3 DEF AloneInv, ReadHolds, Acct!FirstSteps
<1>6. Acct!VerifiedMeansProven'
  BY <1>2 DEF AloneInv, Acct!VerifiedMeansProven
<1>7. ownReq[h].pc \in {"findProfile", "refresh"} => interrupted'
  BY DEF Acct!Begin, Acct!Fail, Acct!FindForBan, Acct!CommitBan, Acct!QueryListings,
         Acct!LoadLister, Acct!At
<1>8. interrupted => interrupted'
  BY DEF Acct!Begin, Acct!Fail, Acct!FindForBan, Acct!CommitBan, Acct!QueryListings,
         Acct!LoadLister, Acct!NoWrite, Acct!Erase
<1>9. CountedOrPending'
  BY <1>1, <1>2, <1>7, <1>8 DEF AloneInv, CountedOrPending
<1> QED
  BY <1>4, <1>5, <1>6, <1>9 DEF AloneInv

\* The invariant of an owner who waits.
THEOREM AloneHolds == ASSUME Overlap = FALSE PROVE Acct!Spec => []AloneInv
<1>1. Acct!Init => AloneInv
  <2> SUFFICES ASSUME Acct!Init PROVE AloneInv
    OBVIOUS
  <2>1. \A h \in Handlers : ownReq[h].pc = "idle"
    BY DEF Acct!Init, Acct!Idle
  <2>2. OneRequest /\ \A h \in Handlers : ReadHolds(h)
    BY <2>1 DEF OneRequest, ReadHolds, Acct!OwnerSteps
  <2>3. Acct!VerifiedMeansProven /\ CountedOrPending
    BY DEF Acct!Init, Acct!VerifiedMeansProven, CountedOrPending
  <2> QED
    BY <2>2, <2>3 DEF AloneInv
<1>2. Acct!TypeOK /\ AloneInv /\ [Acct!Next]_owner => AloneInv'
  <2> SUFFICES ASSUME Acct!TypeOK, AloneInv, [Acct!Next]_owner PROVE AloneInv'
    OBVIOUS
  <2>1. ASSUME NEW h \in Handlers, Acct!OwnerStep(h) PROVE AloneInv'
    <3>1. /\ \A g \in Handlers \ {h} : ownReq'[g].pc \notin Acct!OwnerSteps
          /\ OneRequest'
      BY <2>1, OwnerStepAlone DEF AloneInv
    <3>2. \A g \in Handlers \ {h} : ReadHolds(g)'
      BY <3>1 DEF ReadHolds, Acct!OwnerSteps
    <3>3. ReadHolds(h)' /\ Acct!VerifiedMeansProven' /\ CountedOrPending'
      BY <2>1, AloneProfile, AloneListing, AlonePhone DEF Acct!OwnerStep
    <3> QED
      BY <3>1, <3>2, <3>3 DEF AloneInv
  <2>2. CASE UNCHANGED owner
    BY <2>2 DEF owner, AloneInv, OneRequest, ReadHolds, Acct!VerifiedMeansProven,
                CountedOrPending,
                Acct!ProfileLive
  <2> QED
    BY <2>1, <2>2, AloneOthers DEF Acct!Next
<1> QED
  BY <1>1, <1>2, TypeCorrect, PTL DEF Acct!Spec, Acct!vars, owner

\* A number is flagged verified only after a code for it was accepted.
THEOREM VerifiedIsProven == ASSUME Overlap = FALSE PROVE Acct!Spec => []VerifiedMeansProven
BY AloneHolds, PTL DEF AloneInv, VerifiedMeansProven

\* A verified phone is in the completion once the owner's requests are over.
THEOREM VerifiedIsCounted == ASSUME Overlap = FALSE PROVE Acct!Spec => []VerifiedCounts
<1>1. AloneInv => VerifiedCounts
  BY DEF VerifiedCounts, AloneInv, CountedOrPending, Acct!VerifiedCounts, Acct!OwnerBusy,
         Acct!OwnerSteps
<1> QED
  BY <1>1, AloneHolds, PTL

\* A listing that passed the conflict check overwrites no active one.
THEOREM PostingOverwritesNone ==
    ASSUME Overlap = FALSE PROVE Acct!Spec => []Acct!PostingFindsNone
<1>1. AloneInv => Acct!PostingFindsNone
  BY DEF AloneInv, ReadHolds, Acct!PostingFindsNone
<1> QED
  BY <1>1, AloneHolds, PTL

-----------------------------------------------------------------------------
(* The run of MCAccount.                                                   *)

\* In a behaviour of the run the account keeps to its own specification, while Identity
\* rests at its first state.
THEOREM AccountKeepsItsSpec == AccountSpec => Acct!Spec
<1>1. AccountInit => Acct!Init
  BY DEF AccountInit
<1>2. [AccountNext]_<<vars, owner>> => [Acct!Next]_owner
  BY DEF AccountNext
<1> QED
  BY <1>1, <1>2, PTL DEF AccountSpec, Acct!Spec, Acct!vars, owner

-----------------------------------------------------------------------------
(* Identity.                                                               *)

Deciding == {"approve", "readAllowlist", "setCache", "reject"}
Moving == {"issue", "setMeta", "verify", "move"}

IdRequests ==
    [pc : {"idle", "approve", "readAllowlist", "setCache", "reject", "create",
           "issue", "setMeta", "verify", "move", "dropMeta"},
     email : Emails \cup {None}, user : Users \cup {None},
     review : Reviews \cup {None}, own : BOOLEAN, allow : SUBSET Domains]

\* What a request x carries stays true, of the allowed domains al and the accounts as
\* that asked for each address: its address is of an allowed domain, its account asked
\* for the address, the code that was spent is its own, and the domains are allowed.
Sound(x, al, as) ==
    /\ x.pc \in Moving \cup {"create"} => x.email \in Emails /\ DomainOf[x.email] \in al
    /\ x.pc \in Moving => x.user \in Users
    /\ x.pc \in {"setMeta", "verify"} => x.user \in as[x.email]
    /\ x.pc = "move" => x.own = TRUE
    /\ x.pc = "setCache" => x.allow \subseteq al
    /\ x.pc \in Deciding => x.email \in Emails /\ x.review \in Reviews

RequestsSound ==
    /\ req \in [Handlers -> IdRequests]
    /\ \A h \in Handlers : Sound(req[h], allowed, asked)

\* The rows and keys.  Only an account that asked is noted for an address, and the
\* address is then of an allowed domain.
StoreSound ==
    /\ review \in [Reviews -> {None, "PENDING", "APPROVED", "REJECTED"}]
    /\ allowed \subseteq Domains /\ cached \subseteq allowed
    /\ account \in [Users -> [email : Emails \cup {None}, deleted : BOOLEAN]]
    /\ signup \subseteq Emails /\ coded \subseteq Emails /\ recovery \subseteq Users
    /\ meta \in [Emails -> Users \cup {None}]
    /\ asked \in [Emails -> SUBSET Users]
    /\ behind \in BOOLEAN
    /\ \A e \in Emails : meta[e] # None => meta[e] \in asked[e] /\ DomainOf[e] \in allowed
    /\ \A u \in Users : account[u].email # None => DomainOf[account[u].email] \in allowed
    /\ strangers = {}

IdInv == RequestsSound /\ StoreSound

LEMMA IdInvIsType == IdInv => TypeOK
BY DEF IdInv, RequestsSound, StoreSound, IdRequests, TypeOK

LEMMA FreshFits ==
    /\ Idle \in IdRequests
    /\ Idle.pc = "idle"
    /\ \A al, as : Sound(Idle, al, as)
<1>1. Idle \in IdRequests /\ Idle.pc = "idle"
  BY DEF Idle, IdRequests
<1> QED
  BY <1>1 DEF Sound, Moving, Deciding

\* A request that begins.
LEMMA Begins ==
    ASSUME req \in [Handlers -> IdRequests], NEW h \in Handlers,
           NEW s \in {"approve", "reject", "create", "issue", "verify"},
           NEW e \in Emails, NEW u \in Users \cup {None}, NEW r \in Reviews \cup {None},
           Enter(h, s, e, u, r)
    PROVE  \E x \in IdRequests :
              /\ req' = [req EXCEPT ![h] = x] /\ req[h].pc = "idle"
              /\ x.pc = s /\ x.email = e /\ x.user = u /\ x.review = r
<1> DEFINE a == [Idle EXCEPT !.pc = s]
<1> DEFINE b == [a EXCEPT !.email = e]
<1> DEFINE c == [b EXCEPT !.user = u]
<1> DEFINE d == [c EXCEPT !.review = r]
<1>1. a \in IdRequests /\ a.pc = s
  BY FreshFits DEF IdRequests
<1>2. b \in IdRequests /\ b.pc = s /\ b.email = e
  <2> HIDE DEF a
  <2> QED
    BY <1>1 DEF IdRequests
<1>3. c \in IdRequests /\ c.pc = s /\ c.email = e /\ c.user = u
  <2> HIDE DEF b
  <2> QED
    BY <1>2 DEF IdRequests
<1>4. d \in IdRequests /\ d.pc = s /\ d.email = e /\ d.user = u /\ d.review = r
  <2> HIDE DEF c
  <2> QED
    BY <1>3 DEF IdRequests
<1>5. req' = [req EXCEPT ![h] = d] /\ req[h].pc = "idle"
  BY DEF Enter
<1> HIDE DEF d
<1> QED
  BY <1>4, <1>5

\* One request becomes x; what the others carry stays true, because domains are only
\* ever added, and so are the accounts that asked.
LEMMA OneMoves ==
    ASSUME RequestsSound, NEW h \in Handlers, NEW x \in IdRequests,
           req' = [req EXCEPT ![h] = x], Sound(x, allowed', asked'),
           allowed \subseteq allowed', \A e \in Emails : asked[e] \subseteq asked'[e]
    PROVE  RequestsSound'
<1>1. req' \in [Handlers -> IdRequests] /\ req'[h] = x
  BY DEF RequestsSound
<1>2. ASSUME NEW g \in Handlers \ {h} PROVE Sound(req'[g], allowed', asked')
  <2>1. req'[g] = req[g] /\ Sound(req[g], allowed, asked)
    BY DEF RequestsSound
  <2> QED
    BY <2>1 DEF Sound, Moving
<1> QED
  BY <1>1, <1>2 DEF RequestsSound

\* A handler goes to its next step, with what it carries.
LEMMA GoesTo ==
    ASSUME RequestsSound, NEW h \in Handlers, NEW s, Goto(h, s),
           s \in {"readAllowlist", "setMeta", "dropMeta"}
    PROVE  \E x \in IdRequests :
              /\ req' = [req EXCEPT ![h] = x] /\ x.pc = s
              /\ x.email = req[h].email /\ x.user = req[h].user
              /\ x.review = req[h].review
<1> DEFINE x == [req[h] EXCEPT !.pc = s]
<1>1. req[h] \in IdRequests
  BY DEF RequestsSound
<1>2. /\ x \in IdRequests /\ x.pc = s
      /\ x.email = req[h].email /\ x.user = req[h].user /\ x.review = req[h].review
  BY <1>1 DEF IdRequests
<1>3. req' = [req EXCEPT ![h] = x]
  BY DEF Goto
<1> HIDE DEF x
<1> QED
  BY <1>2, <1>3

\* The rows and keys that a request of an account never writes stay.
LEMMA StoreRests ==
    ASSUME StoreSound,
           UNCHANGED <<review, allowed, cached, account, meta, asked, strangers, behind>>,
           signup' \subseteq Emails, coded' \subseteq Emails, recovery' \subseteq Users
    PROVE  StoreSound'
BY DEF StoreSound

LEMMA IdentityBegins == Init => IdInv
<1> SUFFICES ASSUME Init PROVE IdInv
  OBVIOUS
<1>1. RequestsSound
  BY FreshFits DEF RequestsSound, Init
<1>2. /\ account \in [Users -> [email : Emails \cup {None}, deleted : BOOLEAN]]
      /\ \A u \in Users : account[u].email = None
  BY DEF Init, NoRow
<1>3. StoreSound
  BY <1>2, IdentityAssumption DEF StoreSound, Init
<1> QED
  BY <1>1, <1>3 DEF IdInv

\* Steps that only look: nothing is written yet.
LEMMA Looks ==
    ASSUME IdInv, NEW h \in Handlers,
           \/ \E r \in Reviews : FindForApprove(h, r) \/ FindForReject(h, r)
           \/ \E e \in Emails : FindForSetPin(h, e)
           \/ \E u \in Users, e \in Emails : FindTaken(h, u, e) \/ ReadMeta(h, u, e)
    PROVE  IdInv'
<1>1. RequestsSound /\ StoreSound /\ req \in [Handlers -> IdRequests]
  BY DEF IdInv, RequestsSound
<1>2. UNCHANGED <<review, allowed, cached, behind, account, signup, recovery, meta, coded,
                  asked, strangers>>
  BY DEF FindForApprove, FindForReject, FindForSetPin, FindTaken, ReadMeta,
         domains, rebinds
<1>3. StoreSound'
  BY <1>1, <1>2, StoreRests DEF StoreSound
<1>4. None \notin Users /\ None \notin Reviews
  BY IdentityAssumption
<1>5. ASSUME NEW r \in Reviews, FindForApprove(h, r) \/ FindForReject(h, r)
      PROVE  RequestsSound'
  <2>1. About[r] \in Emails
    BY IdentityAssumption
  <2>2. PICK s \in {"approve", "reject"} : Enter(h, s, About[r], None, r)
    BY <1>5 DEF FindForApprove, FindForReject
  <2>3. PICK x \in IdRequests :
           /\ req' = [req EXCEPT ![h] = x]
           /\ x.pc = s /\ x.email = About[r] /\ x.review = r
    <3>1. /\ s \in {"approve", "reject", "create", "issue", "verify"}
          /\ None \in Users \cup {None} /\ r \in Reviews \cup {None}
      OBVIOUS
    <3>2. \A none \in Users \cup {None} :
             Enter(h, s, About[r], none, r) =>
                \E x \in IdRequests :
                   /\ req' = [req EXCEPT ![h] = x]
                   /\ x.pc = s /\ x.email = About[r] /\ x.review = r
      BY <1>1, <2>1, <3>1, Begins
    <3> QED
      BY <2>2, <3>1, <3>2
  <2>4. Sound(x, allowed', asked')
    BY <2>1, <2>3 DEF Sound, Moving
  <2> QED
    BY <1>1, <1>2, <2>3, <2>4, OneMoves
<1>6. ASSUME NEW e \in Emails, FindForSetPin(h, e) PROVE RequestsSound'
  <2>1. Enter(h, "create", e, None, None) /\ DomainOf[e] \in allowed
    BY <1>1, <1>6 DEF FindForSetPin, Recognised, StoreSound
  <2>2. PICK x \in IdRequests :
           req' = [req EXCEPT ![h] = x] /\ x.pc = "create" /\ x.email = e
    <3>1. None \in Users \cup {None} /\ None \in Reviews \cup {None}
      OBVIOUS
    <3>2. \A none \in Users \cup {None}, r \in Reviews \cup {None} :
             Enter(h, "create", e, none, r) =>
                \E x \in IdRequests :
                   req' = [req EXCEPT ![h] = x] /\ x.pc = "create" /\ x.email = e
      BY <1>1, Begins
    <3> QED
      BY <2>1, <3>1, <3>2
  <2>3. Sound(x, allowed', asked')
    BY <1>2, <2>1, <2>2 DEF Sound, Moving, Deciding
  <2> QED
    BY <1>1, <1>2, <2>2, <2>3, OneMoves
<1>7. ASSUME NEW u \in Users, NEW e \in Emails, FindTaken(h, u, e) PROVE RequestsSound'
  <2>1. Enter(h, "issue", e, u, None) /\ DomainOf[e] \in allowed
    BY <1>1, <1>7 DEF FindTaken, Recognised, StoreSound
  <2>2. PICK x \in IdRequests :
           req' = [req EXCEPT ![h] = x] /\ x.pc = "issue" /\ x.email = e /\ x.user = u
    BY <1>1, <2>1, Begins
  <2>3. Sound(x, allowed', asked')
    BY <1>2, <2>1, <2>2 DEF Sound, Moving, Deciding
  <2> QED
    BY <1>1, <1>2, <2>2, <2>3, OneMoves
<1>8. ASSUME NEW u \in Users, NEW e \in Emails, ReadMeta(h, u, e) PROVE RequestsSound'
  <2>1. Enter(h, "verify", e, u, None) /\ DomainOf[e] \in allowed /\ u \in asked[e]
    BY <1>1, <1>4, <1>8 DEF ReadMeta, StoreSound
  <2>2. PICK x \in IdRequests :
           req' = [req EXCEPT ![h] = x] /\ x.pc = "verify" /\ x.email = e /\ x.user = u
    BY <1>1, <2>1, Begins
  <2>3. Sound(x, allowed', asked')
    BY <1>2, <2>1, <2>2 DEF Sound, Moving, Deciding
  <2> QED
    BY <1>1, <1>2, <2>2, <2>3, OneMoves
<1> QED
  BY <1>3, <1>5, <1>6, <1>7, <1>8 DEF IdInv

\* Approving, refreshing the cache and rejecting.
LEMMA Decides ==
    ASSUME IdInv, NEW h \in Handlers,
           \/ CommitApprove(h) \/ ReadAllowlist(h) \/ SetCache(h)
           \/ RefreshFails(h) \/ CommitReject(h)
    PROVE  IdInv'
<1>1. /\ RequestsSound /\ StoreSound /\ req \in [Handlers -> IdRequests]
      /\ req[h] \in IdRequests /\ Sound(req[h], allowed, asked)
  BY DEF IdInv, RequestsSound
<1>2. UNCHANGED <<account, signup, recovery, meta, coded, asked, strangers>>
  BY DEF CommitApprove, ReadAllowlist, SetCache, RefreshFails, CommitReject,
         rebinds
<1>3. CASE CommitApprove(h)
  <2>1. req[h].email \in Emails /\ DomainOf[req[h].email] \in Domains
    BY <1>1, <1>3, IdentityAssumption DEF Sound, Deciding, CommitApprove
  <2>2. /\ allowed' = allowed \cup {DomainOf[req[h].email]}
        /\ review' = [review EXCEPT ![req[h].review] = "APPROVED"]
        /\ UNCHANGED <<cached, behind>> /\ Goto(h, "readAllowlist")
    BY <1>3 DEF CommitApprove
  <2>3. PICK x \in IdRequests :
           /\ req' = [req EXCEPT ![h] = x] /\ x.pc = "readAllowlist"
           /\ x.email = req[h].email /\ x.review = req[h].review
    BY <1>1, <2>2, GoesTo
  <2>4. req[h].review \in Reviews
    BY <1>1, <1>3 DEF Sound, Deciding, CommitApprove
  <2>5. Sound(x, allowed', asked')
    BY <2>1, <2>3, <2>4 DEF Sound, Moving
  <2>6. RequestsSound'
    BY <1>1, <1>2, <2>2, <2>3, <2>5, OneMoves
  <2>7. review' \in [Reviews -> {None, "PENDING", "APPROVED", "REJECTED"}]
    BY <1>1, <2>2 DEF StoreSound
  <2>8. StoreSound'
    BY <1>1, <1>2, <2>1, <2>2, <2>7 DEF StoreSound
  <2> QED
    BY <2>6, <2>8 DEF IdInv
<1>4. CASE ReadAllowlist(h)
  <2> DEFINE y == [req[h] EXCEPT !.pc = "setCache"]
  <2> DEFINE x == [y EXCEPT !.allow = allowed]
  <2>1. /\ UNCHANGED <<review, allowed, cached, behind>> /\ req[h].pc = "readAllowlist"
        /\ req' = [req EXCEPT ![h] = x]
    BY <1>1, <1>4 DEF ReadAllowlist, domains
  <2>2. /\ y \in IdRequests /\ y.pc = "setCache"
        /\ y.email = req[h].email /\ y.review = req[h].review
    BY <1>1 DEF IdRequests
  <2>3. /\ x \in IdRequests /\ x.pc = "setCache" /\ x.allow = allowed
        /\ x.email = y.email /\ x.review = y.review
    <3>1. allowed \in SUBSET Domains
      BY <1>1 DEF StoreSound
    <3> HIDE DEF y
    <3> QED
      BY <2>2, <3>1 DEF IdRequests
  <2>4. y.email \in Emails /\ y.review \in Reviews
    BY <1>1, <2>1, <2>2 DEF Sound, Deciding
  <2> HIDE DEF x, y
  <2>5. Sound(x, allowed', asked')
    BY <2>1, <2>3, <2>4 DEF Sound, Moving
  <2>6. RequestsSound'
    BY <1>1, <1>2, <2>1, <2>3, <2>5, OneMoves
  <2>7. StoreSound'
    BY <1>1, <1>2, <2>1, StoreRests DEF StoreSound
  <2> QED
    BY <2>6, <2>7 DEF IdInv
<1>5. CASE SetCache(h) \/ RefreshFails(h) \/ CommitReject(h)
  <2>1. req' = [req EXCEPT ![h] = Idle] /\ allowed' = allowed
    BY <1>5 DEF SetCache, RefreshFails, CommitReject, Finish
  <2>2. RequestsSound'
    BY <1>1, <1>2, <2>1, FreshFits, OneMoves
  <2>3. cached' \subseteq allowed' /\ behind' \in BOOLEAN
    BY <1>1, <1>5, <2>1
       DEF SetCache, RefreshFails, CommitReject, Sound, StoreSound
  <2>4. review' \in [Reviews -> {None, "PENDING", "APPROVED", "REJECTED"}]
    BY <1>1, <1>5 DEF SetCache, RefreshFails, CommitReject, StoreSound
  <2>5. StoreSound'
    BY <1>1, <1>2, <2>1, <2>3, <2>4 DEF StoreSound
  <2> QED
    BY <2>2, <2>5 DEF IdInv
<1> QED
  BY <1>3, <1>4, <1>5

\* The account that is created has an address of an allowed domain.
LEMMA Creates ==
    ASSUME IdInv, NEW h \in Handlers, CreateUser(h)
    PROVE  IdInv'
<1>1. /\ RequestsSound /\ StoreSound /\ Sound(req[h], allowed, asked)
  BY DEF IdInv, RequestsSound
<1>2. /\ UNCHANGED <<review, allowed, cached, behind, signup, recovery, meta, coded, asked,
                     strangers>>
      /\ req' = [req EXCEPT ![h] = Idle]
  BY DEF CreateUser, Finish, domains, rebinds
<1>3. RequestsSound'
  BY <1>1, <1>2, FreshFits, OneMoves
<1>4. req[h].email \in Emails /\ DomainOf[req[h].email] \in allowed
  BY <1>1 DEF Sound, CreateUser
<1>5. \/ account' = account
      \/ \E u \in Users :
            account' = [account EXCEPT ![u] = [email |-> req[h].email, deleted |-> FALSE]]
  BY DEF CreateUser
<1>6. /\ account' \in [Users -> [email : Emails \cup {None}, deleted : BOOLEAN]]
      /\ \A u \in Users : account'[u].email # None => DomainOf[account'[u].email] \in allowed
  <2>1. CASE account' = account
    BY <1>1, <2>1 DEF StoreSound
  <2>2. ASSUME NEW v \in Users,
               account' = [account EXCEPT ![v] = [email |-> req[h].email, deleted |-> FALSE]]
        PROVE  <1>6!1 /\ <1>6!2
    <3> DEFINE row == [email |-> req[h].email, deleted |-> FALSE]
    <3>1. row \in [email : Emails \cup {None}, deleted : BOOLEAN] /\ row.email = req[h].email
      BY <1>4
    <3>2. account \in [Users -> [email : Emails \cup {None}, deleted : BOOLEAN]]
      BY <1>1 DEF StoreSound
    <3>3. account' = [account EXCEPT ![v] = row]
      BY <2>2
    <3> HIDE DEF row
    <3>4. account' \in [Users -> [email : Emails \cup {None}, deleted : BOOLEAN]]
      BY <3>1, <3>2, <3>3
    <3>5. ASSUME NEW u \in Users, account'[u].email # None
          PROVE  DomainOf[account'[u].email] \in allowed
      <4>1. CASE u = v
        BY <1>4, <3>1, <3>2, <3>3, <4>1
      <4>2. CASE u # v
        BY <1>1, <3>2, <3>3, <3>5, <4>2 DEF StoreSound
      <4> QED
        BY <4>1, <4>2
    <3> QED
      BY <3>4, <3>5
  <2> QED
    BY <1>5, <2>1, <2>2
<1>7. StoreSound'
  BY <1>1, <1>2, <1>6 DEF StoreSound
<1> QED
  BY <1>3, <1>7 DEF IdInv

\* The code, whose it is, and the refusal of a second one.
LEMMA AsksToMove ==
    ASSUME IdInv, NEW h \in Handlers,
           Issue(h) \/ IssueRefused(h) \/ SetMeta(h) \/ DropMeta(h)
    PROVE  IdInv'
<1>1. RequestsSound /\ StoreSound /\ Sound(req[h], allowed, asked)
  BY DEF IdInv, RequestsSound
<1>2. UNCHANGED <<review, allowed, cached, behind, account, signup, recovery, strangers>>
  BY DEF Issue, IssueRefused, SetMeta, DropMeta, domains, rebinds
<1>3. CASE Issue(h)
  <2>1. /\ req[h].email \in Emails /\ req[h].user \in Users
        /\ DomainOf[req[h].email] \in allowed
    BY <1>1, <1>3 DEF Sound, Moving, Issue
  <2>2. /\ coded' = coded \cup {req[h].email} /\ meta' = meta
        /\ asked' = [asked EXCEPT ![req[h].email] = @ \cup {req[h].user}]
        /\ Goto(h, "setMeta")
    BY <1>3 DEF Issue
  <2>3. /\ asked' \in [Emails -> SUBSET Users]
        /\ \A e \in Emails : asked[e] \subseteq asked'[e]
        /\ req[h].user \in asked'[req[h].email]
    BY <1>1, <2>1, <2>2 DEF StoreSound
  <2>4. PICK x \in IdRequests :
           /\ req' = [req EXCEPT ![h] = x] /\ x.pc = "setMeta"
           /\ x.email = req[h].email /\ x.user = req[h].user
    BY <1>1, <2>2, GoesTo
  <2>5. Sound(x, allowed', asked')
    BY <1>2, <2>1, <2>3, <2>4 DEF Sound, Deciding
  <2>6. RequestsSound'
    BY <1>1, <1>2, <2>3, <2>4, <2>5, OneMoves
  <2>7. StoreSound'
    BY <1>1, <1>2, <2>1, <2>2, <2>3 DEF StoreSound
  <2> QED
    BY <2>6, <2>7 DEF IdInv
<1>4. CASE IssueRefused(h) \/ SetMeta(h) \/ DropMeta(h)
  <2>1. /\ req' = [req EXCEPT ![h] = Idle] /\ UNCHANGED <<coded, asked>>
    BY <1>4 DEF IssueRefused, SetMeta, DropMeta, Finish, rebinds
  <2>2. RequestsSound'
    BY <1>1, <1>2, <2>1, FreshFits, OneMoves
  <2>3. /\ meta' \in [Emails -> Users \cup {None}]
        /\ \A e \in Emails : meta'[e] # None => meta'[e] \in asked[e] /\ DomainOf[e] \in allowed
    <3>1. CASE IssueRefused(h)
      BY <1>1, <3>1 DEF IssueRefused, rebinds, StoreSound
    <3>2. CASE SetMeta(h)
      <4>1. /\ req[h].email \in Emails /\ DomainOf[req[h].email] \in allowed
            /\ req[h].user \in Users /\ req[h].user \in asked[req[h].email]
        BY <1>1, <3>2 DEF Sound, Moving, SetMeta
      <4>2. meta' = [meta EXCEPT ![req[h].email] = req[h].user]
        BY <3>2 DEF SetMeta
      <4> QED
        BY <1>1, <4>1, <4>2 DEF StoreSound
    <3>3. CASE DropMeta(h)
      <4>1. meta' = [meta EXCEPT ![req[h].email] = None]
        BY <3>3 DEF DropMeta
      <4> QED
        BY <1>1, <4>1 DEF StoreSound
    <3> QED
      BY <1>4, <3>1, <3>2, <3>3
  <2>4. StoreSound'
    BY <1>1, <1>2, <2>1, <2>3 DEF StoreSound
  <2> QED
    BY <2>2, <2>4 DEF IdInv
<1> QED
  BY <1>3, <1>4

\* The code is spent: it was made for the account that brings it.
LEMMA Verifies ==
    ASSUME IdInv, NEW h \in Handlers, VerifyRebind(h) PROVE IdInv'
<1>1. RequestsSound /\ StoreSound /\ Sound(req[h], allowed, asked) /\ req[h] \in IdRequests
  BY DEF IdInv, RequestsSound
<1>2. /\ UNCHANGED <<review, allowed, cached, behind, account, signup, recovery, meta, asked,
                     strangers>>
      /\ req[h].pc = "verify" /\ coded' \subseteq coded
  BY DEF VerifyRebind, domains
<1>3. StoreSound'
  BY <1>1, <1>2, StoreRests DEF StoreSound
<1>4. /\ req[h].email \in Emails /\ DomainOf[req[h].email] \in allowed
      /\ req[h].user \in Users /\ req[h].user \in asked[req[h].email]
  BY <1>1, <1>2 DEF Sound, Moving
<1>5. CASE req' = [req EXCEPT ![h].pc = "move",
                                  ![h].own = req[h].user \in asked[req[h].email]]
  <2> DEFINE y == [req[h] EXCEPT !.pc = "move"]
  <2> DEFINE x == [y EXCEPT !.own = TRUE]
  <2>1. req' = [req EXCEPT ![h] = [y EXCEPT !.own = req[h].user \in asked[req[h].email]]]
    BY <1>1, <1>5 DEF RequestsSound
  <2>2. (req[h].user \in asked[req[h].email]) = TRUE
    BY <1>4
  <2>3. req' = [req EXCEPT ![h] = x]
    BY <2>1, <2>2
  <2>4. y \in IdRequests /\ y.pc = "move" /\ y.email = req[h].email /\ y.user = req[h].user
    BY <1>1 DEF IdRequests
  <2>5. /\ x \in IdRequests /\ x.pc = "move" /\ x.own = TRUE
        /\ x.email = y.email /\ x.user = y.user
    <3> HIDE DEF y
    <3> QED
      BY <2>4 DEF IdRequests
  <2> HIDE DEF x, y
  <2>6. Sound(x, allowed', asked')
    BY <1>2, <1>4, <2>4, <2>5 DEF Sound, Moving, Deciding
  <2>7. RequestsSound'
    BY <1>1, <1>2, <2>3, <2>5, <2>6, OneMoves
  <2> QED
    BY <1>3, <2>7 DEF IdInv
<1>6. CASE Finish(h)
  <2>1. RequestsSound'
    BY <1>1, <1>2, <1>6, FreshFits, OneMoves DEF Finish
  <2> QED
    BY <1>3, <2>1 DEF IdInv
<1> QED
  BY <1>5, <1>6 DEF VerifyRebind

\* The account moves, with a code of its own, to an address of an allowed domain.
LEMMA Moves ==
    ASSUME IdInv, NEW h \in Handlers, MoveEmail(h) PROVE IdInv'
<1>1. RequestsSound /\ StoreSound /\ Sound(req[h], allowed, asked)
  BY DEF IdInv, RequestsSound
<1>2. /\ UNCHANGED <<review, allowed, cached, behind, signup, recovery, meta, coded, asked>>
      /\ req[h].pc = "move"
  BY DEF MoveEmail, domains
<1> DEFINE u == req[h].user
<1> DEFINE e == req[h].email
<1>3. e \in Emails /\ DomainOf[e] \in allowed /\ u \in Users /\ req[h].own = TRUE
  BY <1>1, <1>2 DEF Sound, Moving
<1>4. CASE Free(e, u)
  <2>1. /\ account' = [account EXCEPT ![u].email = e] /\ strangers' = strangers
        /\ Goto(h, "dropMeta")
    BY <1>3, <1>4 DEF MoveEmail
  <2>2. PICK x \in IdRequests : req' = [req EXCEPT ![h] = x] /\ x.pc = "dropMeta"
    BY <1>1, <2>1, GoesTo
  <2>3. Sound(x, allowed', asked')
    BY <2>2 DEF Sound, Moving, Deciding
  <2>4. RequestsSound'
    BY <1>1, <1>2, <2>2, <2>3, OneMoves
  <2>5. /\ account' \in [Users -> [email : Emails \cup {None}, deleted : BOOLEAN]]
        /\ \A v \in Users : account'[v].email # None => DomainOf[account'[v].email] \in allowed
    <3> DEFINE row == [account[u] EXCEPT !.email = e]
    <3>1. account \in [Users -> [email : Emails \cup {None}, deleted : BOOLEAN]]
      BY <1>1 DEF StoreSound
    <3>2. account' = [account EXCEPT ![u] = row]
      BY <2>1
    <3>3. row \in [email : Emails \cup {None}, deleted : BOOLEAN] /\ row.email = e
      BY <1>3, <3>1
    <3> HIDE DEF row
    <3>4. ASSUME NEW v \in Users, account'[v].email # None
          PROVE  DomainOf[account'[v].email] \in allowed
      <4>1. CASE v = u
        BY <1>3, <3>1, <3>2, <3>3, <4>1
      <4>2. CASE v # u
        BY <1>1, <3>1, <3>2, <3>4, <4>2 DEF StoreSound
      <4> QED
        BY <4>1, <4>2
    <3> QED
      BY <1>3, <3>1, <3>2, <3>3, <3>4
  <2>6. StoreSound'
    BY <1>1, <1>2, <2>1, <2>5 DEF StoreSound
  <2> QED
    BY <2>4, <2>6 DEF IdInv
<1>5. CASE ~ Free(e, u)
  <2>1. UNCHANGED <<account, strangers>> /\ req' = [req EXCEPT ![h] = Idle]
    BY <1>5 DEF MoveEmail, Finish
  <2>2. RequestsSound' /\ StoreSound'
    BY <1>1, <1>2, <2>1, FreshFits, OneMoves, StoreRests DEF StoreSound
  <2> QED
    BY <2>2 DEF IdInv
<1> QED
  BY <1>4, <1>5

\* What happens without a request in flight: visits of one step, expiries and deletions.
LEMMA StoreChanges ==
    ASSUME IdInv,
           \/ \E r \in Reviews : AskReview(r)
           \/ \E e \in Emails :
                 \/ RequestSignup(e) \/ SignupExpires(e)
                 \/ MetaExpires(e) \/ CodeExpires(e)
           \/ \E u \in Users : Delete(u) \/ VerifyPhone(u) \/ RecoveryExpires(u)
    PROVE  IdInv'
<1>1. RequestsSound /\ StoreSound
  BY DEF IdInv
<1>2. UNCHANGED <<allowed, cached, behind, asked, strangers, req>>
  BY DEF AskReview, RequestSignup, SignupExpires, MetaExpires, CodeExpires,
         Delete, VerifyPhone, RecoveryExpires, domains, rebinds
<1>3. RequestsSound'
  BY <1>1, <1>2 DEF RequestsSound
<1>4. ASSUME NEW r \in Reviews, AskReview(r) PROVE StoreSound'
  BY <1>1, <1>2, <1>4 DEF AskReview, rebinds, StoreSound
<1>5. ASSUME NEW e \in Emails,
             RequestSignup(e) \/ SignupExpires(e) \/ CodeExpires(e)
      PROVE  StoreSound'
  <2>1. /\ UNCHANGED <<review, account, meta>>
        /\ signup' \subseteq Emails /\ coded' \subseteq Emails /\ recovery' \subseteq Users
    BY <1>1, <1>5 DEF RequestSignup, SignupExpires, CodeExpires, domains,
                      rebinds, StoreSound
  <2> QED
    BY <1>1, <1>2, <2>1, StoreRests
<1>6. ASSUME NEW e \in Emails, MetaExpires(e) PROVE StoreSound'
  <2>1. /\ meta' = [meta EXCEPT ![e] = None]
        /\ UNCHANGED <<review, account, signup, coded, recovery>>
    BY <1>6 DEF MetaExpires, domains
  <2> QED
    BY <1>1, <1>2, <2>1 DEF StoreSound
<1>7. ASSUME NEW u \in Users, VerifyPhone(u) \/ RecoveryExpires(u) PROVE StoreSound'
  <2>1. /\ UNCHANGED <<review, account, meta, signup, coded>> /\ recovery' \subseteq Users
    BY <1>1, <1>7 DEF VerifyPhone, RecoveryExpires, domains, StoreSound
  <2> QED
    BY <1>1, <1>2, <2>1, StoreRests DEF StoreSound
<1>8. ASSUME NEW u \in Users, Delete(u) PROVE StoreSound'
  <2> DEFINE row == [account[u] EXCEPT !.deleted = TRUE]
  <2>1. /\ account' = [account EXCEPT ![u] = row]
        /\ UNCHANGED <<review, signup, coded, recovery, meta>>
    BY <1>8 DEF Delete, domains, rebinds
  <2>2. account \in [Users -> [email : Emails \cup {None}, deleted : BOOLEAN]]
    BY <1>1 DEF StoreSound
  <2>3. row \in [email : Emails \cup {None}, deleted : BOOLEAN] /\ row.email = account[u].email
    BY <2>2
  <2> HIDE DEF row
  <2>4. /\ account' \in [Users -> [email : Emails \cup {None}, deleted : BOOLEAN]]
        /\ \A v \in Users : account'[v].email = account[v].email
    BY <2>1, <2>2, <2>3
  <2> QED
    BY <1>1, <1>2, <2>1, <2>4 DEF StoreSound
<1> QED
  BY <1>3, <1>4, <1>5, <1>6, <1>7, <1>8 DEF IdInv

\* The process starts again, with the list or without it.
LEMMA Restarts == ASSUME IdInv, NEW loaded \in BOOLEAN, Restart(loaded) PROVE IdInv'
<1>1. /\ UNCHANGED <<review, allowed, account, signup, recovery, meta, coded, asked, strangers>>
      /\ req' = [h \in Handlers |-> Idle]
      /\ cached' \subseteq allowed /\ behind' \in BOOLEAN
  BY DEF Restart, rebinds
<1>2. RequestsSound'
  BY <1>1, FreshFits DEF RequestsSound
<1>3. StoreSound'
  BY <1>1 DEF IdInv, StoreSound
<1> QED
  BY <1>2, <1>3 DEF IdInv

LEMMA IdentityStep ==
    IdInv /\ [Next]_vars => IdInv'
<1> SUFFICES ASSUME IdInv, [Next]_vars PROVE IdInv'
  OBVIOUS
<1>1. CASE UNCHANGED vars
  BY <1>1 DEF vars, IdInv, RequestsSound, StoreSound
<1>2. ASSUME NEW h \in Handlers, Admin(h) \/ Rebind(h) \/ CreateUser(h) PROVE IdInv'
  <2>1. CASE Admin(h)
    BY <2>1, Looks, Decides DEF Admin
  <2>2. CASE Rebind(h)
    BY <2>2, Looks, AsksToMove, Verifies, Moves DEF Rebind
  <2> QED
    BY <1>2, <2>1, <2>2, Creates
<1> QED
  BY <1>1, <1>2, Looks, StoreChanges, Restarts DEF Next

\* Every behaviour of Identity keeps the invariant.
LEMMA IdentityInductive == Spec => []IdInv
BY IdentityBegins, IdentityStep, PTL DEF Spec

\* The types of the rows, the keys and the requests.
THEOREM IdentityTypes == Spec => []TypeOK
BY IdentityInductive, IdInvIsType, PTL

\* The domain of every address that an account holds is allowed, although it was checked
\* several calls before the address is written (signupSetPin and confirmNewEmail).
THEOREM MembersStayAllowed == Spec => []MembersAllowed
<1>1. IdInv => MembersAllowed
  BY DEF IdInv, StoreSound, MembersAllowed
<1> QED
  BY <1>1, IdentityInductive, PTL

\* An account moves only with a code that was mailed at or after its own request, however
\* many accounts want the same address (phoneUpdateEmail and confirmNewEmail).
THEOREM MovesAreOwn == Spec => []MovedByOwnCode
<1>1. IdInv => MovedByOwnCode
  BY DEF IdInv, StoreSound, MovedByOwnCode
<1> QED
  BY <1>1, IdentityInductive, PTL

\* While admins wait for one decision before the next, at most one request decides, and
\* the list that it has read is the present one.
OneDecides ==
    \A h, g \in Handlers : req[h].pc \in Deciding /\ req[g].pc \in Deciding => h = g

ListIsLatest == \A h \in Handlers : req[h].pc = "setCache" => req[h].allow = allowed

CacheInv == OneDecides /\ ListIsLatest /\ CacheCatchesUp

\* One request becomes x, and no other decides.
LEMMA OnlyDecider ==
    ASSUME IdInv, OneDecides, NEW h \in Handlers, NEW x \in IdRequests,
           req' = [req EXCEPT ![h] = x],
           req[h].pc \in Deciding \/ \A g \in Handlers : req[g].pc \notin Deciding
    PROVE  /\ req'[h] = x
           /\ \A g \in Handlers \ {h} : req[g].pc \notin Deciding /\ req'[g].pc \notin Deciding
           /\ OneDecides'
<1>1. req \in [Handlers -> IdRequests]
  BY DEF IdInv, RequestsSound
<1>2. ASSUME NEW g \in Handlers \ {h}
      PROVE  req[g].pc \notin Deciding /\ req'[g].pc \notin Deciding
  <2>1. req'[g] = req[g] /\ g # h
    BY <1>1
  <2> QED
    BY <2>1 DEF OneDecides
<1> QED
  BY <1>1, <1>2 DEF OneDecides

LEMMA CacheDecisions ==
    ASSUME OneAdmin = TRUE, IdInv, CacheInv, NEW h \in Handlers,
           Admin(h)
    PROVE  CacheInv'
<1>1. /\ RequestsSound /\ StoreSound /\ req \in [Handlers -> IdRequests]
      /\ req[h] \in IdRequests /\ Sound(req[h], allowed, asked)
      /\ OneDecides /\ ListIsLatest /\ CacheCatchesUp
  BY DEF IdInv, RequestsSound, CacheInv
<1>2. CASE \E r \in Reviews : FindForApprove(h, r) \/ FindForReject(h, r)
  <2>1. PICK r \in Reviews : FindForApprove(h, r) \/ FindForReject(h, r)
    BY <1>2
  <2>2. /\ \A g \in Handlers : req[g].pc \notin Deciding
        /\ UNCHANGED <<allowed, cached, behind>>
    BY <2>1 DEF FindForApprove, FindForReject, AdminFree, domains, Deciding
  <2>3. PICK s \in {"approve", "reject"} : Enter(h, s, About[r], None, r)
    BY <2>1 DEF FindForApprove, FindForReject
  <2>4. PICK x \in IdRequests : req' = [req EXCEPT ![h] = x] /\ x.pc = s
    <3>1. /\ s \in {"approve", "reject", "create", "issue", "verify"} /\ About[r] \in Emails
          /\ None \in Users \cup {None} /\ r \in Reviews \cup {None}
      BY IdentityAssumption
    <3>2. \A none \in Users \cup {None} :
             Enter(h, s, About[r], none, r) =>
                \E x \in IdRequests : req' = [req EXCEPT ![h] = x] /\ x.pc = s
      BY <1>1, <3>1, Begins
    <3> QED
      BY <2>3, <3>1, <3>2
  <2>5. OneDecides' /\ \A g \in Handlers : req'[g].pc # "setCache"
    BY <1>1, <2>2, <2>4, OnlyDecider DEF Deciding
  <2>6. CacheCatchesUp'
    BY <1>1, <2>2 DEF CacheCatchesUp, Deciding
  <2> QED
    BY <2>5, <2>6 DEF CacheInv, ListIsLatest
<1>3. CASE CommitApprove(h)
  <2>1. Goto(h, "readAllowlist") /\ req[h].pc = "approve"
    BY <1>3 DEF CommitApprove
  <2>2. PICK x \in IdRequests : req' = [req EXCEPT ![h] = x] /\ x.pc = "readAllowlist"
    BY <1>1, <2>1, GoesTo
  <2>3. /\ req'[h].pc = "readAllowlist" /\ OneDecides'
        /\ \A g \in Handlers : req'[g].pc # "setCache"
    BY <1>1, <2>1, <2>2, OnlyDecider DEF Deciding
  <2> QED
    BY <2>3 DEF CacheInv, ListIsLatest, CacheCatchesUp
<1>4. CASE ReadAllowlist(h)
  <2> DEFINE y == [req[h] EXCEPT !.pc = "setCache"]
  <2> DEFINE x == [y EXCEPT !.allow = allowed]
  <2>1. /\ allowed' = allowed /\ req[h].pc = "readAllowlist"
        /\ req' = [req EXCEPT ![h] = x]
    BY <1>1, <1>4 DEF ReadAllowlist, domains
  <2>2. y \in IdRequests /\ y.pc = "setCache"
    BY <1>1 DEF IdRequests
  <2>3. x \in IdRequests /\ x.pc = "setCache" /\ x.allow = allowed
    <3>1. allowed \in SUBSET Domains
      BY <1>1 DEF StoreSound
    <3> HIDE DEF y
    <3> QED
      BY <2>2, <3>1 DEF IdRequests
  <2> HIDE DEF x, y
  <2>4. /\ req'[h] = x /\ OneDecides'
        /\ \A g \in Handlers \ {h} : req'[g].pc # "setCache"
    BY <1>1, <2>1, <2>3, OnlyDecider DEF Deciding
  <2> QED
    BY <2>1, <2>3, <2>4 DEF CacheInv, ListIsLatest, CacheCatchesUp
<1>5. CASE SetCache(h) \/ RefreshFails(h) \/ CommitReject(h)
  <2>1. /\ req' = [req EXCEPT ![h] = Idle] /\ req[h].pc \in Deciding
        /\ allowed' = allowed
    BY <1>5 DEF SetCache, RefreshFails, CommitReject, Finish, Deciding
  <2>2. /\ OneDecides' /\ \A g \in Handlers : req'[g].pc # "setCache"
        /\ \A g \in Handlers \ {h} : req[g].pc \notin Deciding
    BY <1>1, <2>1, FreshFits, OnlyDecider DEF Deciding
  <2>3. CacheCatchesUp'
    <3>1. CASE SetCache(h)
      BY <1>1, <2>1, <3>1 DEF SetCache, ListIsLatest, CacheCatchesUp
    <3>2. CASE RefreshFails(h)
      BY <3>2 DEF RefreshFails, CacheCatchesUp
    <3>3. CASE CommitReject(h)
      BY <1>1, <2>1, <2>2, <3>3 DEF CommitReject, CacheCatchesUp, Deciding
    <3> QED
      BY <1>5, <3>1, <3>2, <3>3
  <2> QED
    BY <2>2, <2>3 DEF CacheInv, ListIsLatest
<1> QED
  BY <1>2, <1>3, <1>4, <1>5 DEF Admin

\* Requests of visitors and owners do not touch the domains, nor the requests that decide.
LEMMA DomainsRest ==
    ASSUME CacheInv, UNCHANGED <<allowed, cached, behind>>,
           \A g \in Handlers : \/ req'[g] = req[g]
                               \/ req[g].pc \notin Deciding /\ req'[g].pc \notin Deciding
    PROVE  CacheInv'
<1>1. \A g \in Handlers :
         /\ req'[g].pc \in Deciding <=> req[g].pc \in Deciding
         /\ req[g].pc \in Deciding => req'[g] = req[g]
  OBVIOUS
<1>2. OneDecides'
  BY <1>1 DEF CacheInv, OneDecides
<1>3. ListIsLatest'
  BY <1>1 DEF CacheInv, ListIsLatest, Deciding
<1>4. CacheCatchesUp'
  BY <1>1 DEF CacheInv, CacheCatchesUp, Deciding
<1> QED
  BY <1>2, <1>3, <1>4 DEF CacheInv

\* A request that does not decide becomes another that does not.
LEMMA OthersGoOn ==
    ASSUME IdInv, CacheInv, NEW h \in Handlers,
           \/ Rebind(h) \/ CreateUser(h) \/ \E e \in Emails : FindForSetPin(h, e)
    PROVE  CacheInv'
<1>1. req \in [Handlers -> IdRequests] /\ req[h] \in IdRequests
  BY DEF IdInv, RequestsSound
<1>2. UNCHANGED <<allowed, cached, behind>>
  BY DEF Rebind, Issue, IssueRefused, SetMeta, VerifyRebind, MoveEmail,
         DropMeta, FindTaken, ReadMeta, CreateUser, FindForSetPin, domains
<1>3. /\ req[h].pc \in {"idle", "create", "issue", "setMeta", "verify", "move", "dropMeta"}
      /\ \E x :
            /\ req' = [req EXCEPT ![h] = x]
            /\ x.pc \in {"idle", "create", "issue", "setMeta", "verify", "move", "dropMeta"}
  <2>1. CASE \E e \in Emails : FindForSetPin(h, e)
    BY <2>1 DEF FindForSetPin, Enter, Idle
  <2>2. CASE \E u \in Users, e \in Emails : FindTaken(h, u, e) \/ ReadMeta(h, u, e)
    BY <2>2 DEF FindTaken, ReadMeta, Enter, Idle
  <2>3. CASE CreateUser(h) \/ IssueRefused(h) \/ SetMeta(h) \/ DropMeta(h)
    <3>1. req' = [req EXCEPT ![h] = Idle]
      BY <2>3 DEF CreateUser, IssueRefused, SetMeta, DropMeta, Finish
    <3> QED
      BY <2>3, <3>1, FreshFits
         DEF CreateUser, IssueRefused, SetMeta, DropMeta
  <2>4. CASE Issue(h)
    <3>1. Goto(h, "setMeta") /\ req[h].pc = "issue"
      BY <2>4 DEF Issue
    <3> QED
      BY <3>1, GoesTo DEF IdInv
  <2>5. CASE MoveEmail(h)
    <3>1. req[h].pc = "move" /\ (Goto(h, "dropMeta") \/ Finish(h))
      BY <2>5 DEF MoveEmail
    <3>2. CASE Goto(h, "dropMeta")
      BY <3>1, <3>2, GoesTo DEF IdInv
    <3>3. CASE Finish(h)
      BY <3>1, <3>3, FreshFits DEF Finish
    <3> QED
      BY <3>1, <3>2, <3>3
  <2>6. CASE VerifyRebind(h)
    <3> DEFINE b == req[h].user \in asked[req[h].email]
    <3> DEFINE x == [req[h] EXCEPT !.pc = "move", !.own = b]
    <3>1. req[h].pc = "verify" /\ (req' = [req EXCEPT ![h] = x] \/ Finish(h))
      BY <1>1, <2>6 DEF VerifyRebind
    <3>2. x.pc = "move"
      BY <1>1 DEF IdRequests
    <3> HIDE DEF x
    <3>3. CASE req' = [req EXCEPT ![h] = x]
      BY <3>1, <3>2, <3>3
    <3>4. CASE Finish(h)
      BY <3>1, <3>4, FreshFits DEF Finish
    <3> QED
      BY <3>1, <3>3, <3>4
  <2> QED
    BY <2>1, <2>2, <2>3, <2>4, <2>5, <2>6 DEF Rebind
<1>4. req[h].pc \notin Deciding /\ req'[h].pc \notin Deciding
  BY <1>1, <1>3 DEF Deciding
<1>5. \A g \in Handlers \ {h} : req'[g] = req[g]
  BY <1>1, <1>3
<1> QED
  BY <1>2, <1>4, <1>5, DomainsRest

LEMMA CacheStep ==
    ASSUME OneAdmin = TRUE
    PROVE  IdInv /\ CacheInv /\ [Next]_vars => CacheInv'
<1> SUFFICES ASSUME IdInv, CacheInv, [Next]_vars PROVE CacheInv'
  OBVIOUS
<1>1. CASE UNCHANGED vars
  BY <1>1, DomainsRest DEF vars
<1>2. ASSUME NEW loaded \in BOOLEAN, Restart(loaded) PROVE CacheInv'
  <2>1. \A h \in Handlers : req'[h].pc = "idle"
    BY <1>2, FreshFits DEF Restart
  <2>2. allowed' = allowed /\ (behind' \/ cached' = allowed')
    BY <1>2 DEF Restart
  <2> QED
    BY <2>1, <2>2 DEF CacheInv, OneDecides, ListIsLatest, CacheCatchesUp, Deciding
<1>3. ASSUME \/ \E r \in Reviews : AskReview(r)
             \/ \E e \in Emails :
                   \/ RequestSignup(e) \/ SignupExpires(e)
                   \/ MetaExpires(e) \/ CodeExpires(e)
             \/ \E u \in Users : Delete(u) \/ VerifyPhone(u) \/ RecoveryExpires(u)
      PROVE  CacheInv'
  <2>1. UNCHANGED <<allowed, cached, behind, req>>
    BY <1>3 DEF AskReview, RequestSignup, SignupExpires, MetaExpires,
                CodeExpires, Delete, VerifyPhone, RecoveryExpires, domains
  <2> QED
    BY <2>1, DomainsRest
<1> QED
  BY <1>1, <1>2, <1>3, CacheDecisions, OthersGoOn DEF Next

\* While one decision is waited for before the next begins, the process knows every allowed
\* domain once none is under way, unless its last look at the list failed
\* (approveManualReview and refreshAllowlist).
THEOREM CacheIsRefreshed ==
    ASSUME OneAdmin = TRUE
    PROVE  Spec => []CacheCatchesUp
<1>1. Init => CacheInv
  BY FreshFits
     DEF Init, CacheInv, OneDecides, ListIsLatest, CacheCatchesUp, Deciding
<1>2. CacheInv => CacheCatchesUp
  BY DEF CacheInv
<1> QED
  BY <1>1, <1>2, CacheStep, IdentityInductive, PTL DEF Spec

=============================================================================
