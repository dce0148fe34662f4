----------------------------- MODULE PublicView -----------------------------
(***************************************************************************)
(* What one viewer is shown of another account: getPublic of the listing   *)
(* and of the profile.  Each is five, or four, SELECTs without a           *)
(* transaction (an include loads its relation by a query of its own), and  *)
(* the rules of visibility-rules.ts are applied to what they found one     *)
(* after the other, while the owner, an admin and the viewer change it.    *)
(***************************************************************************)
CONSTANT Requests     \* requests of the viewer

VARIABLES
    bars,       \* the reasons that hide the owner from the viewer, as the rows are now
    req         \* per request: kind, step, reasons found, and the history of the reasons

vars == <<bars, req>>

\* Why a page is hidden.  No listing counts as an inactive one, no profile as one that
\* was deleted.
Reasons == {"inactive", "ownerGone", "unverified", "noProfile", "ownerBlocks", "viewerBlocks"}

Kinds == {"listing", "profile"}

\* The profile of an owner without an active listing is shown.
Relevant(kind) == IF kind = "listing" THEN Reasons ELSE Reasons \ {"inactive"}

\* The queries in their order.
Follows ==
    [kind \in Kinds |->
       IF kind = "listing"
       THEN [listing |-> "owner", owner |-> "profile", profile |-> "byOwner", byOwner |-> "byViewer"]
       ELSE [profile |-> "owner", owner |-> "byOwner", byOwner |-> "byViewer"]]

\* What the rows a query loads can tell.
Tells(step) ==
    CASE step = "listing" -> {"inactive"}
      [] step = "owner" -> {"ownerGone", "unverified"}
      [] step = "profile" -> {"noProfile"}
      [] step = "byOwner" -> {"ownerBlocks"}
      [] step = "byViewer" -> {"viewerBlocks"}

Waiting == {"none", "shown", "hidden"}

\* No page has been asked for.
Blank == [kind |-> "listing", pc |-> "none", found |-> {}, always |-> {}, ever |-> {}]

\* Any account that is not deleted.
Init ==
    /\ bars \in SUBSET (Reasons \ {"ownerGone"})
    /\ req = [r \in Requests |-> Blank]

-----------------------------------------------------------------------------
(* The viewer.                                                             *)

Ask(r) ==
    /\ req[r].pc \in Waiting
    /\ \E kind \in Kinds :
          req' = [req EXCEPT ![r] =
                    [kind |-> kind, pc |-> kind, found |-> {},
                     always |-> bars \cap Relevant(kind), ever |-> bars \cap Relevant(kind)]]
    /\ UNCHANGED bars

\* One SELECT that is not the last.
Find(r) ==
    /\ req[r].pc \in DOMAIN Follows[req[r].kind]
    /\ req' = [req EXCEPT ![r].pc = Follows[req[r].kind][@],
                          ![r].found = @ \cup (bars \cap Tells(req[r].pc))]
    /\ UNCHANGED bars

\* There is no row of the listing or profile that was asked for.
Missing(r) ==
    /\ req[r].pc = req[r].kind
    /\ LET found == bars \cap Tells(req[r].kind)
       IN  /\ found # {}
           /\ req' = [req EXCEPT ![r].pc = "hidden", ![r].found = found]
    /\ UNCHANGED bars

\* Mutant of Decide: the blocks of the viewer are not looked up.
DecideWithoutOwnBlocks(r) ==
    /\ req[r].pc = "byViewer"
    /\ req' = [req EXCEPT ![r].pc = IF req[r].found = {} THEN "shown" ELSE "hidden"]
    /\ UNCHANGED bars

\* The last SELECT, the rules on all that was found, and the answer.
Decide(r) ==
    /\ req[r].pc = "byViewer"
    /\ LET found == req[r].found \cup (bars \cap Tells("byViewer"))
       IN  req' = [req EXCEPT ![r].pc = IF found = {} THEN "shown" ELSE "hidden",
                              ![r].found = found]
    /\ UNCHANGED bars

\* A query fails, or the process dies.
Fail(r) ==
    /\ req[r].pc \notin Waiting
    /\ req' = [req EXCEPT ![r] = Blank]
    /\ UNCHANGED bars

-----------------------------------------------------------------------------
(* The rows change: each of these is one commit.                           *)

\* From here on these are the reasons; requests under way have met them.
Becomes(new) ==
    /\ bars' = new
    /\ req' = [r \in Requests |->
                 IF req[r].pc \in Waiting THEN req[r]
                 ELSE [req[r] EXCEPT !.always = @ \cap new,
                                     !.ever = @ \cup (new \cap Relevant(req[r].kind))]]

\* The owner takes the listing off.
Deactivate == "inactive" \notin bars /\ Becomes(bars \cup {"inactive"})

\* The owner posts or puts the listing; one that was under way does so after a deletion.
Activate == "inactive" \in bars /\ Becomes(bars \ {"inactive"})

\* Deletion by the owner, or a ban.
Remove ==
    /\ "ownerGone" \notin bars
    /\ Becomes(bars \cup {"ownerGone", "noProfile", "inactive"})

\* The upsert of a new profile, or of one that was under way at the deletion.
SaveProfile == "noProfile" \in bars /\ Becomes(bars \ {"noProfile"})

\* An admin approves the company of the owner.
Verify ==
    /\ "unverified" \in bars /\ "ownerGone" \notin bars
    /\ Becomes(bars \ {"unverified"})

Block == \E who \in {"ownerBlocks", "viewerBlocks"} \ bars : Becomes(bars \cup {who})

Unblock == \E who \in {"ownerBlocks", "viewerBlocks"} \cap bars : Becomes(bars \ {who})

Next ==
    \/ \E r \in Requests : Ask(r) \/ Find(r) \/ Missing(r) \/ Decide(r) \/ Fail(r)
    \/ Deactivate \/ Activate \/ Remove \/ SaveProfile \/ Verify \/ Block \/ Unblock

Spec == Init /\ [][Next]_vars

-----------------------------------------------------------------------------
(* Properties.                                                             *)

\* Every variable has its type, and an answered request was turned down exactly if it
\* found a reason.
TypeOK ==
    /\ bars \subseteq Reasons
    /\ req \in [Requests -> [kind : Kinds, pc : Waiting \cup Kinds \cup {"owner", "byOwner", "byViewer"},
                             found : SUBSET Reasons, always : SUBSET Reasons, ever : SUBSET Reasons]]
    /\ \A r \in Requests : req[r].pc \in {"shown", "hidden"} =>
                              (req[r].pc = "hidden" <=> req[r].found # {})

\* No reason to hide a listing or a profile that is shown held all through the
\* request: a deletion, a block or a deactivation that was answered before the page
\* was asked for, and not taken back, hides it, in whatever order the queries ran.
ShownWasFree == \A r \in Requests : req[r].pc = "shown" => req[r].always = {}

\* A page is hidden only for a reason of its kind that held at some time during the
\* request.
HiddenForReason == \A r \in Requests : req[r].pc = "hidden" => req[r].ever # {}

=============================================================================
