-------------------------- MODULE SharedRowsProofs --------------------------
(***************************************************************************)
(* Proofs about RowEdits.tla, SseFanout.tla, ReportFiling.tla,             *)
(* PublicView.tla and KeysetPaging.tla, as MCSharedRows.tla instantiates   *)
(* them, for any requests, rows, users and streams.                        *)
(***************************************************************************)
EXTENDS MCSharedRows, Integers, FiniteSets, TLAPS

-----------------------------------------------------------------------------
(* RowEdits: what a PATCH has read obeys the same two rules as the row     *)
(* itself, as long as it has not written.                                  *)

\* A value of field f that a saved edit brought, or the one of the creation.
Saved(f, value) ==
    value # First => edit[value].pc = "saved" /\ f \in edit[value].named

\* The value of field f is the latest, or the latest was saved in an overlap.
Recent(f, value) == value = latest[f] \/ latest[f] \in overlapped

\* Of what a PATCH under way has read, the fields it does not name.
Kept(e) == {f \in Fields : edit[e].pc = "write" /\ f \notin edit[e].named}

RowHolds == \A f \in Fields : Saved(f, row[f]) /\ Recent(f, row[f])

ReadHolds ==
    \A e \in Edits : \A f \in Kept(e) : Saved(f, edit[e].read[f]) /\ Recent(f, edit[e].read[f])

\* The inductive invariant.
IInv == TypeOK /\ RowHolds /\ ReadHolds

-----------------------------------------------------------------------------

LEMMA InitIInv == Init => IInv
  BY DEF Init, IInv, TypeOK, RowHolds, ReadHolds, Kept, Saved, Recent, Created

\* What a request does to its own record, types included.
LEMMA TypeStep == TypeOK /\ [Next]_vars => TypeOK'
<1> SUFFICES ASSUME TypeOK, [Next]_vars PROVE TypeOK'
  OBVIOUS
<1>1. ASSUME NEW e \in Edits, Read(e) PROVE TypeOK'
  <2>1. PICK named \in (SUBSET Fields) \ {{}} :
           edit' = [edit EXCEPT ![e] = [pc |-> "write", named |-> named, read |-> row]]
    BY <1>1 DEF Read
  <2>2. edit' \in [Edits -> [pc : {"new", "write", "saved", "failed"},
                             named : SUBSET Fields, read : [Fields -> Edits \cup {First}]]]
    BY <2>1 DEF TypeOK
  <2>3. \A r \in Edits : edit'[r].pc = "new" <=> edit'[r].named = {}
    BY <2>1 DEF TypeOK
  <2>4. QED
    BY <1>1, <2>2, <2>3 DEF Read, TypeOK
<1>2. ASSUME NEW e \in Edits, Write(e) PROVE TypeOK'
  <2>1. Merged(e) \in [Fields -> Edits \cup {First}]
    BY DEF Merged, TypeOK
  <2>2. edit' = [edit EXCEPT ![e].pc = "saved"] /\ edit[e].pc = "write"
    BY <1>2 DEF Write
  <2>3. overlapped' \subseteq Edits
    BY <1>2 DEF Write, TypeOK
  <2>4. latest' \in [Fields -> Edits \cup {First}]
    BY <1>2 DEF Write, TypeOK
  <2>5. QED
    BY <1>2, <2>1, <2>2, <2>3, <2>4 DEF Write, TypeOK
<1>3. ASSUME NEW e \in Edits, Fail(e) PROVE TypeOK'
  BY <1>3 DEF Fail, TypeOK
<1>4. CASE UNCHANGED vars
  BY <1>4 DEF vars, TypeOK
<1>5. QED
  BY <1>1, <1>2, <1>3, <1>4 DEF Next

-----------------------------------------------------------------------------
(* A value that a saved edit brought stays one: edits are saved for good.  *)

LEMMA SavedStays ==
    ASSUME TypeOK, [Next]_vars, NEW f \in Fields, NEW value \in Edits \cup {First},
           Saved(f, value)
    PROVE  Saved(f, value)'
<1> SUFFICES ASSUME value # First, value \in Edits,
                    edit[value].pc = "saved", f \in edit[value].named
             PROVE  edit'[value].pc = "saved" /\ f \in edit'[value].named
  BY DEF Saved
<1>1. ASSUME NEW e \in Edits, Read(e) PROVE edit'[value] = edit[value]
  BY <1>1 DEF Read, TypeOK
<1>2. ASSUME NEW e \in Edits, Write(e) PROVE edit'[value] = edit[value]
  BY <1>2 DEF Write, TypeOK
<1>3. ASSUME NEW e \in Edits, Fail(e) PROVE edit'[value] = edit[value]
  BY <1>3 DEF Fail, TypeOK
<1>4. QED
  BY <1>1, <1>2, <1>3 DEF Next, vars

\* A step that saves nothing that names f leaves what is recent for f.
LEMMA RecentStays ==
    ASSUME TypeOK, [Next]_vars, NEW f \in Fields, NEW value, Recent(f, value),
           \A e \in Edits : Write(e) => f \notin edit[e].named \/ e \in overlapped'
    PROVE  Recent(f, value)'
<1>1. ASSUME NEW e \in Edits, Read(e) \/ Fail(e) PROVE Recent(f, value)'
  BY <1>1 DEF Read, Fail, Recent
<1>2. ASSUME NEW e \in Edits, Write(e) PROVE Recent(f, value)'
  <2>1. overlapped \subseteq overlapped'
    BY <1>2 DEF Write
  <2>2. latest'[f] = IF f \in edit[e].named THEN e ELSE latest[f]
    BY <1>2 DEF Write
  <2>3. QED
    BY <1>2, <2>1, <2>2 DEF Recent
<1>3. CASE UNCHANGED vars
  BY <1>3 DEF vars, Recent
<1>4. QED
  BY <1>1, <1>2, <1>3 DEF Next

-----------------------------------------------------------------------------

\* What is written is recent and was saved: named fields bring the edit itself,
\* the others what was read.
LEMMA RowStep == IInv /\ [Next]_vars => RowHolds'
<1> SUFFICES ASSUME IInv, [Next]_vars, NEW f \in Fields
             PROVE  Saved(f, row[f])' /\ Recent(f, row[f])'
  BY DEF RowHolds
<1> USE DEF IInv
<1>1. row[f] \in Edits \cup {First}
  BY DEF TypeOK
<1>2. ASSUME NEW e \in Edits, Write(e) PROVE Saved(f, row[f])' /\ Recent(f, row[f])'
  <2>1. row' = Merged(e) /\ edit[e].pc = "write"
    BY <1>2 DEF Write
  <2>2. CASE f \in edit[e].named
    <3>1. row'[f] = e
      BY <2>1, <2>2 DEF Merged
    <3>2. latest'[f] = e
      BY <1>2, <2>2 DEF Write
    <3>3. edit'[e].pc = "saved" /\ edit'[e].named = edit[e].named
      BY <1>2 DEF Write, TypeOK
    <3>4. QED
      BY <2>2, <3>1, <3>2, <3>3 DEF Saved, Recent
  <2>3. CASE f \notin edit[e].named
    <3>1. row'[f] = edit[e].read[f]
      BY <2>1, <2>3 DEF Merged
    <3>2. f \in Kept(e)
      BY <2>1, <2>3 DEF Kept
    <3>3. Saved(f, edit[e].read[f]) /\ Recent(f, edit[e].read[f])
      BY <3>2 DEF ReadHolds
    <3>4. edit[e].read[f] \in Edits \cup {First}
      BY DEF TypeOK
    <3>5. \A value \in Edits \cup {First} : Saved(f, value) => Saved(f, value)'
      BY SavedStays
    <3>6. latest'[f] = latest[f] /\ overlapped \subseteq overlapped'
      BY <1>2, <2>3 DEF Write
    <3>7. QED
      BY <3>1, <3>3, <3>4, <3>5, <3>6 DEF Saved, Recent
  <2>4. QED
    BY <2>2, <2>3
<1>3. CASE ~ \E e \in Edits : Write(e)
  <2>1. row' = row
    BY <1>3 DEF Next, Read, Fail, vars
  <2>2. Saved(f, row[f]) /\ Recent(f, row[f])
    BY DEF RowHolds
  <2>3. \A value \in Edits \cup {First} : Saved(f, value) => Saved(f, value)'
    BY SavedStays
  <2>4. latest' = latest /\ overlapped' = overlapped
    BY <1>3 DEF Next, Read, Fail, vars
  <2>5. QED
    BY <1>1, <2>1, <2>2, <2>3, <2>4 DEF Saved, Recent
<1>4. QED
  BY <1>2, <1>3

\* What another PATCH has read is recent, since whoever saves meanwhile overlaps it.
LEMMA ReadStep == IInv /\ [Next]_vars => ReadHolds'
<1> SUFFICES ASSUME IInv, [Next]_vars, NEW r \in Edits, NEW f \in Kept(r)'
             PROVE  Saved(f, edit[r].read[f])' /\ Recent(f, edit[r].read[f])'
  BY DEF ReadHolds
<1> USE DEF IInv
<1>1. f \in Fields /\ edit'[r].pc = "write" /\ f \notin edit'[r].named
  BY DEF Kept
<1>2. ASSUME Read(r) PROVE Saved(f, edit[r].read[f])' /\ Recent(f, edit[r].read[f])'
  <2>1. edit'[r].read = row
    BY <1>2 DEF Read, TypeOK
  <2>2. row' = row
    BY <1>2 DEF Read
  <2>3. RowHolds'
    BY RowStep
  <2>4. QED
    BY <1>1, <2>1, <2>2, <2>3 DEF RowHolds, Saved, Recent
<1>3. ASSUME ~ Read(r) PROVE Saved(f, edit[r].read[f])' /\ Recent(f, edit[r].read[f])'
  <2>1. edit'[r] = edit[r]
    <3>1. ASSUME NEW e \in Edits, Read(e) PROVE edit'[r] = edit[r]
      BY <1>3, <3>1 DEF Read, TypeOK
    <3>2. ASSUME NEW e \in Edits, Write(e) PROVE edit'[r] = edit[r]
      BY <1>1, <3>2 DEF Write, TypeOK
    <3>3. ASSUME NEW e \in Edits, Fail(e) PROVE edit'[r] = edit[r]
      BY <1>1, <3>3 DEF Fail, TypeOK
    <3>4. QED
      BY <3>1, <3>2, <3>3 DEF Next, vars
  <2>2. f \in Kept(r)
    BY <1>1, <2>1 DEF Kept
  <2>3. Saved(f, edit[r].read[f]) /\ Recent(f, edit[r].read[f])
    BY <2>2 DEF ReadHolds
  <2>4. edit[r].read[f] \in Edits \cup {First}
    BY <1>1 DEF TypeOK
  <2>5. ASSUME NEW e \in Edits, Write(e)
        PROVE  f \notin edit[e].named \/ e \in overlapped'
    <3>1. e # r
      BY <1>1, <2>5 DEF Write, TypeOK
    <3>2. r \in Merging \ {e}
      BY <1>1, <2>1, <3>1 DEF Merging
    <3>3. QED
      BY <2>5, <3>2 DEF Write
  <2>6. Saved(f, edit[r].read[f])'
    <3>1. \A value \in Edits \cup {First} : Saved(f, value) => Saved(f, value)'
      BY <1>1, SavedStays
    <3>2. QED
      BY <2>1, <2>3, <2>4, <3>1 DEF Saved
  <2>7. Recent(f, edit[r].read[f])'
    <3>1. \A value : Recent(f, value) => Recent(f, value)'
      BY <1>1, <2>5, RecentStays
    <3>2. QED
      BY <2>1, <2>3, <3>1 DEF Recent
  <2>8. QED
    BY <2>6, <2>7
<1>4. QED
  BY <1>2, <1>3

-----------------------------------------------------------------------------

\* The inductive invariant holds of every behaviour.
THEOREM Inductive == Spec => []IInv
<1>1. IInv /\ [Next]_vars => IInv'
  BY TypeStep, RowStep, ReadStep DEF IInv
<1>2. QED
  BY InitIInv, <1>1, PTL DEF Spec

\* Every variable has its type, for any edits and fields.
THEOREM TypeCorrect == Spec => []TypeOK
<1>1. IInv => TypeOK
  BY DEF IInv
<1>2. QED
  BY Inductive, <1>1, PTL

\* An answered edit of the listing or the profile is lost to an edit that overlaps
\* it only, however many requests race.
THEOREM EditsOverlapOrStay == Spec => []LostToOverlapOnly
<1>1. IInv => LostToOverlapOnly
  BY DEF IInv, RowHolds, Recent, LostToOverlapOnly
<1>2. QED
  BY Inductive, <1>1, PTL

\* Every field holds what a saved edit gave it by name, however many requests race.
THEOREM FieldsWereSaved == Spec => []ValuesWereSaved
<1>1. IInv => ValuesWereSaved
  BY DEF IInv, RowHolds, Saved, ValuesWereSaved
<1>2. QED
  BY Inductive, <1>1, PTL

-----------------------------------------------------------------------------
(* SseFanout: what the map says of a user, read through SetOf.             *)

SseInv == Sse!TypeOK /\ Sse!MapHasLiveStreams /\ Sse!NothingMissed

\* Replacing the set of one user changes nobody else's.
LEMMA SseWithSet ==
    ASSUME NEW u, NEW set, NEW v, subscribers' = Sse!WithSet(u, set)
    PROVE  Sse!SetOf(v)' = IF v = u THEN set ELSE Sse!SetOf(v)
  BY DEF Sse!WithSet, Sse!SetOf

\* Users stay the keys of the map, and no set in it is empty.
LEMMA SseMapTyped ==
    ASSUME Sse!TypeOK, NEW u \in Users, NEW set \in SUBSET Streams,
           subscribers' = Sse!WithSet(u, set)
    PROVE  /\ DOMAIN subscribers' \subseteq Users
           /\ \A v \in DOMAIN subscribers' : subscribers'[v] \in (SUBSET Streams) \ {{}}
  BY DEF Sse!WithSet, Sse!TypeOK

LEMMA SseInit == PartsAssumption /\ Sse!Init => SseInv
<1> SUFFICES ASSUME PartsAssumption, Sse!Init PROVE SseInv
  OBVIOUS
<1>1. Sse!TypeOK
  BY PartsAssumption DEF Sse!Init, Sse!TypeOK, Sse!NoEntries, Sse!SseAssumption
<1>2. Sse!MapHasLiveStreams /\ Sse!NothingMissed
  BY DEF Sse!Init, Sse!MapHasLiveStreams, Sse!NothingMissed, Sse!NoEntries, Sse!SetOf
<1> QED
  BY <1>1, <1>2 DEF SseInv

\* A stream joins or leaves the set of its own user as it gets or loses its place
\* among the streams that are made and not closed.
LEMMA SseMoves ==
    ASSUME SseInv, NEW s \in Streams, NEW step \in {"made", "closed"},
           NEW set \in SUBSET Streams,
           set = IF step = "made" THEN Sse!SetOf(stream[s].user) \cup {s}
                 ELSE Sse!SetOf(stream[s].user) \ {s},
           subscribers' = Sse!WithSet(stream[s].user, set),
           Sse!Goto(s, step), UNCHANGED <<events, got, due>>
    PROVE  SseInv'
<1> USE DEF SseInv
<1>0. stream[s].user \in Users
  BY DEF Sse!TypeOK
<1>1. Sse!TypeOK'
  <2>1. stream' \in [Streams -> [user : Users, pc : {"new", "made", "open", "closed"}]]
    BY DEF Sse!TypeOK, Sse!Goto
  <2> QED
    BY <1>0, <2>1, SseMapTyped DEF Sse!TypeOK
<1>2. ASSUME NEW v \in Users
      PROVE  Sse!SetOf(v)' =
                {q \in Streams : stream'[q].user = v /\ stream'[q].pc \in {"made", "open"}}
  <2>1. Sse!SetOf(v)' = IF v = stream[s].user THEN set ELSE Sse!SetOf(v)
    BY SseWithSet
  <2>2. Sse!SetOf(v) =
           {q \in Streams : stream[q].user = v /\ stream[q].pc \in {"made", "open"}}
    BY DEF Sse!MapHasLiveStreams
  <2>3. \A q \in Streams : /\ stream'[q].user = stream[q].user
                           /\ stream'[q].pc = IF q = s THEN step ELSE stream[q].pc
    BY DEF Sse!Goto, Sse!TypeOK
  <2> QED
    BY <2>1, <2>2, <2>3
<1>3. Sse!MapHasLiveStreams'
  BY <1>2 DEF Sse!MapHasLiveStreams
<1>4. Sse!NothingMissed'
  BY DEF Sse!NothingMissed
<1> QED
  BY <1>1, <1>3, <1>4

LEMMA SseStep == SseInv /\ [Sse!Next]_sse => SseInv'
<1> SUFFICES ASSUME SseInv, [Sse!Next]_sse PROVE SseInv'
  OBVIOUS
<1> USE DEF SseInv
<1>0. \A s \in Streams : stream[s].user \in Users /\ Sse!SetOf(stream[s].user) \in SUBSET Streams
  BY DEF Sse!TypeOK, Sse!SetOf
<1>1. ASSUME NEW s \in Streams, Sse!Subscribe(s) PROVE SseInv'
  BY <1>0, <1>1, SseMoves DEF Sse!Subscribe
<1>2. ASSUME NEW s \in Streams, Sse!Open(s) PROVE SseInv'
  BY <1>2 DEF Sse!Open, Sse!Goto, Sse!TypeOK, Sse!MapHasLiveStreams, Sse!NothingMissed, Sse!SetOf
<1>3. ASSUME NEW s \in Streams, Sse!Close(s) PROVE SseInv'
  BY <1>0, <1>3, SseMoves DEF Sse!Close
<1>4. ASSUME NEW u \in Users, Sse!Publish(u) PROVE SseInv'
  <2>1. \A s \in Streams :
           s \in Sse!SetOf(u) /\ stream[s].pc = "open" <=> s \in Sse!OpenOf(u)
    BY DEF Sse!MapHasLiveStreams, Sse!OpenOf
  <2>2. Sse!NothingMissed'
    BY <1>4, <2>1 DEF Sse!Publish, Sse!NothingMissed
  <2>3. events' \in 0 .. MaxEvents /\ 1 .. events \subseteq 1 .. events' /\ events' \in 1 .. events'
    BY <1>4, PartsAssumption DEF Sse!Publish, Sse!TypeOK, Sse!SseAssumption
  <2>4. got' \in [Streams -> SUBSET (1 .. events')] /\ due' \in [Streams -> SUBSET (1 .. events')]
    BY <1>4, <2>3 DEF Sse!Publish, Sse!TypeOK
  <2>5. Sse!TypeOK' /\ Sse!MapHasLiveStreams'
    BY <1>4, <2>3, <2>4 DEF Sse!Publish, Sse!TypeOK, Sse!MapHasLiveStreams, Sse!SetOf
  <2> QED
    BY <2>2, <2>5
<1>5. CASE Sse!Restart
  <2>1. stream' \in [Streams -> [user : Users, pc : {"new", "made", "open", "closed"}]]
    BY <1>5 DEF Sse!Restart, Sse!TypeOK
  <2>2. \A s \in Streams : stream'[s].pc \notin {"made", "open"}
    BY <1>5 DEF Sse!Restart, Sse!TypeOK
  <2> QED
    BY <1>5, <2>1, <2>2
    DEF Sse!Restart, Sse!NoEntries, Sse!TypeOK, Sse!MapHasLiveStreams, Sse!NothingMissed, Sse!SetOf
<1>6. CASE UNCHANGED sse
  BY <1>6 DEF sse, Sse!TypeOK, Sse!MapHasLiveStreams, Sse!NothingMissed, Sse!SetOf
<1> QED
  BY <1>1, <1>2, <1>3, <1>4, <1>5, <1>6 DEF Sse!Next

\* An open stream gets exactly what is published to its user, and the map has the live
\* streams, for any users, streams and number of events.
THEOREM StreamsAreServed == Sse!Spec => []StreamsServed
<1>1. Sse!Init => SseInv
  BY SseInit, PartsAssumption
<1>2. SseInv => StreamsServed
  BY DEF SseInv, StreamsServed
<1> QED
  BY <1>1, <1>2, SseStep, PTL DEF Sse!Spec, Sse!vars, sse

-----------------------------------------------------------------------------
(* ReportFiling: requests of one topic on their way to the commit have met *)
(* each other, and none of them began while a report of it was PENDING.    *)

Committing(h) == filingReq[h].pc = "commit"

\* Two requests that are about to create a report of one topic know of each other.
MeetEachOther ==
    \A g, h \in Handlers :
        g # h /\ Committing(g) /\ Committing(h) /\ filingReq[g].topic = filingReq[h].topic
            => filingReq[g].met /\ filingReq[h].met

\* So do one that is about to and one whose report is there.
MeetTheirRows ==
    \A h \in Handlers, i \in Reports :
        /\ Committing(h)
        /\ reportRow[i].status = "PENDING"
        /\ reportRow[i].topic = filingReq[h].topic
        => filingReq[h].met /\ reportRow[i].met

TopicKnown == \A h \in Handlers : filingReq[h].pc # "idle" => filingReq[h].topic \in Topics

FilingInv ==
    /\ Filing!TypeOK /\ TopicKnown
    /\ MeetEachOther /\ MeetTheirRows
    /\ Filing!DuplicatesMet /\ Filing!BanClosesReports

LEMMA FilingInit == Filing!Init => FilingInv
<1> SUFFICES ASSUME Filing!Init PROVE FilingInv
  OBVIOUS
<1>1. Filing!TypeOK /\ TopicKnown
  BY DEF Filing!Init, Filing!TypeOK, Filing!NoRow, Filing!NoReq, Filing!Closed, TopicKnown
<1>2. MeetEachOther /\ MeetTheirRows
  BY DEF Filing!Init, Filing!NoReq, MeetEachOther, MeetTheirRows, Committing
<1>3. Filing!DuplicatesMet /\ Filing!BanClosesReports
  BY DEF Filing!Init, Filing!NoRow, Filing!DuplicatesMet, Filing!BanClosesReports
<1> QED
  BY <1>1, <1>2, <1>3 DEF FilingInv

\* Requests only: the rows, and with them what is said of rows alone, stay.
LEMMA FilingRows ==
    ASSUME FilingInv, UNCHANGED <<user, ban, reportRow>>
    PROVE  Filing!DuplicatesMet' /\ Filing!BanClosesReports'
  BY DEF FilingInv, Filing!DuplicatesMet, Filing!BanClosesReports

LEMMA FilingLookup ==
    ASSUME FilingInv, NEW h \in Handlers, Filing!FindUser(h)
    PROVE  FilingInv'
<1> USE DEF FilingInv
<1>1. PICK t \in Topics :
         filingReq' = [filingReq EXCEPT ![h] =
                         [Filing!NoReq EXCEPT !.pc = "search", !.topic = t]]
  BY DEF Filing!FindUser
<1>2. Filing!TypeOK' /\ TopicKnown'
  BY <1>1 DEF Filing!FindUser, Filing!TypeOK, Filing!NoReq, TopicKnown
<1>3. \A g \in Handlers : Committing(g)' => g # h /\ filingReq'[g] = filingReq[g]
  BY <1>1 DEF Filing!TypeOK, Filing!NoReq, Committing
<1>4. MeetEachOther' /\ MeetTheirRows'
  BY <1>3 DEF Filing!FindUser, MeetEachOther, MeetTheirRows, Committing
<1> QED
  BY <1>2, <1>4, FilingRows DEF Filing!FindUser

\* Nothing PENDING was found: the request meets those already on their way.
LEMMA FilingSearch ==
    ASSUME FilingInv, NEW h \in Handlers, Filing!FindPending(h)
    PROVE  FilingInv'
<1> USE DEF FilingInv
<1> DEFINE met == {g \in Handlers \ {h} : Committing(g) /\ filingReq[g].topic = filingReq[h].topic}
           found == Filing!Filed(filingReq[h].topic, {"PENDING"})
<1>0. filingReq[h].pc = "search" /\ UNCHANGED <<user, ban, reportRow>>
  BY DEF Filing!FindPending, Filing!Search
<1>1. CASE found
  <2>1. filingReq' = [filingReq EXCEPT ![h] = Filing!NoReq]
    BY <1>1 DEF Filing!FindPending, Filing!Search
  <2>2. Filing!TypeOK' /\ TopicKnown'
    BY <1>0, <2>1 DEF Filing!TypeOK, Filing!NoReq, TopicKnown
  <2>3. MeetEachOther' /\ MeetTheirRows'
    BY <1>0, <2>1 DEF Filing!TypeOK, Filing!NoReq, MeetEachOther, MeetTheirRows, Committing
  <2> QED
    BY <1>0, <2>2, <2>3, FilingRows
<1>2. CASE ~found
  <2>1. filingReq' = [g \in Handlers |->
                        IF g = h THEN [filingReq[h] EXCEPT !.pc = "commit", !.met = met # {}]
                        ELSE [filingReq[g] EXCEPT !.met = @ \/ g \in met]]
    BY <1>2 DEF Filing!FindPending, Filing!Search, Committing
  <2>2. Filing!TypeOK' /\ TopicKnown'
    <3>1. \A g \in Handlers :
             filingReq'[g] \in [pc : {"idle", "search", "commit"},
                                topic : Topics \cup {"none"}, met : BOOLEAN]
      BY <2>1 DEF Filing!TypeOK
    <3>2. \A g \in Handlers : /\ filingReq'[g].topic = filingReq[g].topic
                              /\ g # h => filingReq'[g].pc = filingReq[g].pc
      BY <2>1 DEF Filing!TypeOK
    <3> QED
      BY <1>0, <2>1, <3>1, <3>2 DEF Filing!TypeOK, TopicKnown
  <2>3. \A g \in Handlers :
           /\ filingReq'[g].topic = filingReq[g].topic
           /\ g = h => filingReq'[g].pc = "commit" /\ (filingReq'[g].met <=> met # {})
           /\ g # h => /\ filingReq'[g].pc = filingReq[g].pc
                       /\ filingReq'[g].met <=> filingReq[g].met \/ g \in met
    BY <2>1 DEF Filing!TypeOK
  <2>4. \A g \in Handlers \ {h} :
           Committing(g)' /\ filingReq'[g].topic = filingReq'[h].topic => g \in met
    BY <2>3 DEF Committing
  <2>5. MeetEachOther'
    BY <2>3, <2>4 DEF MeetEachOther, Committing
  <2>6. MeetTheirRows'
    <3>1. \A i \in Reports : ~ (/\ reportRow[i].status = "PENDING"
                                /\ reportRow[i].topic = filingReq[h].topic)
      BY <1>2 DEF Filing!Filed
    <3> QED
      BY <1>0, <2>3, <3>1 DEF MeetTheirRows, Committing
  <2> QED
    BY <1>0, <2>2, <2>5, <2>6, FilingRows
<1> QED
  BY <1>1, <1>2

\* The new report is as its request: whatever it duplicates, the two have met.
LEMMA FilingCommit ==
    ASSUME FilingInv, NEW h \in Handlers, Filing!Commit(h)
    PROVE  FilingInv'
<1> USE DEF FilingInv
<1> DEFINE i == Filing!NextId
           new == [status |-> "PENDING", topic |-> filingReq[h].topic, resolved |-> FALSE,
                   met |-> filingReq[h].met, late |-> user = "banned"]
<1> HIDE DEF i
<1>1. /\ Committing(h) /\ i \in Reports
      /\ reportRow' = [reportRow EXCEPT ![i] = new]
      /\ filingReq' = [filingReq EXCEPT ![h] = Filing!NoReq]
      /\ UNCHANGED <<user, ban>>
  BY DEF Filing!Commit, Filing!End, Committing, i
<1>2. new \in Filing!Report
  BY <1>1 DEF Filing!Report, Filing!Open, TopicKnown, Filing!TypeOK, Committing
<1>3. Filing!TypeOK' /\ TopicKnown'
  BY <1>1, <1>2 DEF Filing!TypeOK, Filing!NoReq, Filing!Closed, TopicKnown
<1>4. \A g \in Handlers : Committing(g)' => g # h /\ filingReq'[g] = filingReq[g] /\ Committing(g)
  BY <1>1 DEF Filing!TypeOK, Filing!NoReq, Committing
<1>5. \A j \in Reports : reportRow'[j] = IF j = i THEN new ELSE reportRow[j]
  BY <1>1 DEF Filing!TypeOK
<1>6. MeetEachOther'
  BY <1>4 DEF MeetEachOther
<1>7. MeetTheirRows'
  <2> SUFFICES ASSUME NEW g \in Handlers, NEW j \in Reports, Committing(g)',
                      reportRow'[j].status = "PENDING",
                      reportRow'[j].topic = filingReq'[g].topic
               PROVE  filingReq'[g].met /\ reportRow'[j].met
    BY DEF MeetTheirRows
  <2>1. CASE j = i
    BY <1>1, <1>4, <1>5, <2>1 DEF MeetEachOther
  <2>2. CASE j # i
    BY <1>4, <1>5, <2>2 DEF MeetTheirRows
  <2> QED
    BY <2>1, <2>2
<1>8. Filing!DuplicatesMet'
  <2> SUFFICES ASSUME NEW j \in Reports, NEW k \in Reports, j # k,
                      reportRow'[j].status = "PENDING", reportRow'[k].status = "PENDING",
                      reportRow'[j].topic = reportRow'[k].topic
               PROVE  reportRow'[j].met /\ reportRow'[k].met
    BY DEF Filing!DuplicatesMet
  <2>1. CASE j # i /\ k # i
    BY <1>5, <2>1 DEF Filing!DuplicatesMet
  <2>2. CASE j = i
    BY <1>1, <1>5, <2>2 DEF MeetTheirRows
  <2>3. CASE k = i
    BY <1>1, <1>5, <2>3 DEF MeetTheirRows
  <2> QED
    BY <2>1, <2>2, <2>3
<1>9. Filing!BanClosesReports'
  <2>1. user = "banned" => new.late
    OBVIOUS
  <2> QED
    BY <1>1, <1>5, <2>1 DEF Filing!BanClosesReports
<1> QED
  BY <1>3, <1>6, <1>7, <1>8, <1>9

\* A decision or a ban takes reports out of PENDING, and never puts one there.
LEMMA FilingDecided ==
    ASSUME FilingInv, UNCHANGED filingReq, Filing!TypeOK',
           \A i \in Reports : \/ reportRow'[i] = reportRow[i]
                              \/ reportRow'[i].status # "PENDING",
           Filing!BanClosesReports'
    PROVE  FilingInv'
<1> USE DEF FilingInv
<1>1. TopicKnown' /\ MeetEachOther'
  BY DEF TopicKnown, MeetEachOther, Committing
<1>2. MeetTheirRows'
  BY DEF MeetTheirRows, Committing
<1>3. Filing!DuplicatesMet'
  BY DEF Filing!DuplicatesMet
<1> QED
  BY <1>1, <1>2, <1>3

LEMMA FilingStep == FilingInv /\ [Filing!Next]_filing => FilingInv'
<1> SUFFICES ASSUME FilingInv, [Filing!Next]_filing PROVE FilingInv'
  OBVIOUS
<1> USE DEF FilingInv
<1>1. ASSUME NEW h \in Handlers, Filing!Fail(h) PROVE FilingInv'
  <2>1. Filing!TypeOK' /\ TopicKnown'
    BY <1>1 DEF Filing!Fail, Filing!End, Filing!TypeOK, Filing!NoReq, TopicKnown
  <2>2. MeetEachOther' /\ MeetTheirRows'
    BY <1>1 DEF Filing!Fail, Filing!End, Filing!TypeOK, Filing!NoReq,
                MeetEachOther, MeetTheirRows, Committing
  <2> QED
    BY <1>1, <2>1, <2>2, FilingRows DEF Filing!Fail
<1>2. ASSUME NEW i \in Reports, Filing!Patch(i) PROVE FilingInv'
  <2>1. PICK status \in {"REVIEWING", "RESOLVED", "DISMISSED"} :
           reportRow' = [reportRow EXCEPT ![i].status = status,
                                          ![i].resolved = @ \/ status \in Filing!Closed]
    BY <1>2 DEF Filing!Patch
  <2>2. reportRow[i] \in Filing!Report /\ reportRow'[i].status = status
    <3>1. reportRow[i] \in Filing!Report
      BY <1>2 DEF Filing!Patch, Filing!TypeOK
    <3>2. reportRow'[i] = [reportRow[i] EXCEPT !.status = status,
                                              !.resolved = @ \/ status \in Filing!Closed]
      BY <2>1 DEF Filing!TypeOK
    <3> QED
      BY <3>1, <3>2 DEF Filing!Report
  <2>3. reportRow'[i] \in Filing!Report /\ (status \in Filing!Closed => reportRow'[i].resolved)
    BY <2>1, <2>2 DEF Filing!TypeOK, Filing!Report, Filing!Open, Filing!Closed
  <2>4. \A j \in Reports \ {i} : reportRow'[j] = reportRow[j]
    BY <2>1 DEF Filing!TypeOK
  <2>5. DOMAIN reportRow' = Reports /\ reportRow' = [j \in Reports |-> reportRow'[j]]
    BY <2>1 DEF Filing!TypeOK
  <2>6. Filing!TypeOK'
    BY <1>2, <2>2, <2>3, <2>4, <2>5 DEF Filing!Patch, Filing!TypeOK
  <2>7. Filing!BanClosesReports'
    BY <1>2, <2>2, <2>4 DEF Filing!Patch, Filing!BanClosesReports
  <2> QED
    BY <1>2, <2>2, <2>4, <2>6, <2>7, FilingDecided DEF Filing!Patch
<1>3. CASE Filing!FindForBan \/ Filing!DeleteAccount
  BY <1>3, FilingDecided DEF Filing!FindForBan, Filing!DeleteAccount, Filing!TypeOK, Filing!BanClosesReports
<1>4. CASE Filing!Ban
  <2>1. \A i \in Reports :
           reportRow'[i] = IF reportRow[i].status = "PENDING"
                           THEN [reportRow[i] EXCEPT !.status = "RESOLVED", !.resolved = TRUE]
                           ELSE reportRow[i]
    BY <1>4 DEF Filing!Ban
  <2>2. \A i \in Reports : reportRow[i].status = "PENDING" => reportRow[i] \in Filing!Report
    BY DEF Filing!TypeOK, Filing!NoRow
  <2>3. \A i \in Reports :
           /\ reportRow'[i] \in Filing!Report \cup {Filing!NoRow}
           /\ reportRow'[i].status # "PENDING"
           /\ reportRow'[i].status \in Filing!Closed => reportRow'[i].resolved
    <3> SUFFICES ASSUME NEW i \in Reports
                 PROVE  /\ reportRow'[i] \in Filing!Report \cup {Filing!NoRow}
                        /\ reportRow'[i].status # "PENDING"
                        /\ reportRow'[i].status \in Filing!Closed => reportRow'[i].resolved
      OBVIOUS
    <3>1. CASE reportRow[i].status = "PENDING"
      BY <2>1, <2>2, <3>1 DEF Filing!Report, Filing!Closed
    <3>2. CASE reportRow[i].status # "PENDING"
      BY <2>1, <3>2 DEF Filing!TypeOK
    <3> QED
      BY <3>1, <3>2
  <2>4. Filing!TypeOK'
    BY <1>4, <2>3 DEF Filing!Ban, Filing!TypeOK
  <2>5. Filing!BanClosesReports'
    BY <2>3 DEF Filing!BanClosesReports
  <2> QED
    BY <1>4, <2>3, <2>4, <2>5, FilingDecided DEF Filing!Ban
<1>5. CASE UNCHANGED filing
  BY <1>5, FilingDecided DEF filing, Filing!TypeOK, Filing!BanClosesReports
<1> QED
  BY <1>1, <1>2, <1>3, <1>4, <1>5, FilingLookup, FilingSearch, FilingCommit DEF Filing!Next

\* Reports of one topic stay PENDING together only when their requests met, and past a
\* ban only when the request found the user before it, for any number of requests.
THEOREM ReportsAreSettled == Filing!Spec => []ReportsSettled
<1>1. FilingInv => ReportsSettled
  BY DEF FilingInv, ReportsSettled
<1>2. UNCHANGED filing <=> UNCHANGED <<user, ban, reportRow, filingReq>>
  BY DEF filing
<1> QED
  BY <1>1, FilingInit, FilingStep, PTL DEF Filing!Spec, Filing!vars, filing

-----------------------------------------------------------------------------
(* PublicView: a reason that held all along is among those found, or one   *)
(* of the queries still to come tells it.                                  *)

\* The queries of a kind of page.
ViewSteps(kind) ==
    {"profile", "owner", "byOwner", "byViewer"} \cup IF kind = "listing" THEN {"listing"} ELSE {}

\* What the queries from a step on can tell.
Left(kind, step) ==
    CASE step = "listing" -> View!Reasons
      [] step = "owner" -> View!Reasons \ IF kind = "listing" THEN {"inactive"}
                                          ELSE {"inactive", "noProfile"}
      [] step = "profile" -> IF kind = "listing" THEN {"noProfile", "ownerBlocks", "viewerBlocks"}
                             ELSE View!Reasons \ {"inactive"}
      [] step = "byOwner" -> {"ownerBlocks", "viewerBlocks"}
      [] step = "byViewer" -> {"viewerBlocks"}

\* What is known of a request q between its first query and its answer.
Informed(q) ==
    /\ q.pc \in ViewSteps(q.kind)
    /\ q.always \subseteq bars
    /\ q.always \subseteq q.found \cup Left(q.kind, q.pc)
    /\ bars \cap View!Relevant(q.kind) \subseteq q.ever
    /\ q.found \subseteq q.ever

ViewInv ==
    /\ View!TypeOK
    /\ \A r \in Viewers : viewReq[r].pc \notin View!Waiting => Informed(viewReq[r])
    /\ View!ShownWasFree /\ View!HiddenForReason

\* Each query tells its part of what was left, and nothing that is not relevant.
LEMMA ViewOrder ==
    ASSUME NEW kind \in View!Kinds, NEW step \in ViewSteps(kind)
    PROVE  /\ View!Tells(step) \subseteq View!Relevant(kind)
           /\ step \in DOMAIN View!Follows[kind] =>
                /\ View!Follows[kind][step] \in ViewSteps(kind)
                /\ Left(kind, step) \subseteq
                      View!Tells(step) \cup Left(kind, View!Follows[kind][step])
           /\ step = "byViewer" => Left(kind, step) \subseteq View!Tells(step)
           /\ Left(kind, kind) = View!Relevant(kind)
           /\ kind \in ViewSteps(kind)
<1> USE DEF View!Kinds, ViewSteps
<1>1. CASE kind = "listing"
  <2>1. View!Follows[kind] = [listing |-> "owner", owner |-> "profile",
                              profile |-> "byOwner", byOwner |-> "byViewer"]
    BY <1>1 DEF View!Follows
  <2> QED
    BY <1>1, <2>1 DEF View!Tells, View!Relevant, View!Reasons, Left
<1>2. CASE kind = "profile"
  <2>1. View!Follows[kind] = [profile |-> "owner", owner |-> "byOwner", byOwner |-> "byViewer"]
    BY <1>2 DEF View!Follows
  <2> QED
    BY <1>2, <2>1 DEF View!Tells, View!Relevant, View!Reasons, Left
<1> QED
  BY <1>1, <1>2

LEMMA ViewInit == View!Init => ViewInv
  BY DEF View!Init, ViewInv, View!TypeOK, View!Blank, View!Waiting, View!Kinds,
         View!ShownWasFree, View!HiddenForReason

\* A step of one request, after which what must hold of it does.
LEMMA ViewMove ==
    ASSUME ViewInv, NEW r \in Viewers, NEW q, viewReq' = [viewReq EXCEPT ![r] = q],
           UNCHANGED bars,
           q \in [kind : View!Kinds,
                  pc : View!Waiting \cup View!Kinds \cup {"owner", "byOwner", "byViewer"},
                  found : SUBSET View!Reasons, always : SUBSET View!Reasons,
                  ever : SUBSET View!Reasons],
           q.pc \in {"shown", "hidden"} => (q.pc = "hidden" <=> q.found # {}),
           q.pc \notin View!Waiting => Informed(q),
           q.pc = "shown" => q.always = {},
           q.pc = "hidden" => q.ever # {}
    PROVE  ViewInv'
<1> USE DEF ViewInv
<1>1. \A s \in Viewers : viewReq'[s] = IF s = r THEN q ELSE viewReq[s]
  BY DEF View!TypeOK
<1>2. View!TypeOK'
  BY <1>1 DEF View!TypeOK
<1>3. \A s \in Viewers : viewReq'[s].pc \notin View!Waiting => Informed(viewReq'[s])
  BY <1>1
<1>4. View!ShownWasFree' /\ View!HiddenForReason'
  BY <1>1 DEF View!ShownWasFree, View!HiddenForReason
<1>5. \A s \in Viewers : viewReq'[s].pc \notin View!Waiting => Informed(viewReq[s])'
  BY <1>3 DEF Informed
<1> QED
  BY <1>2, <1>4, <1>5

\* The rows change under the requests: each has met the new reasons, and what held
\* all along is what holds still.
LEMMA ViewBecomes ==
    ASSUME ViewInv, NEW new \in SUBSET View!Reasons, View!Becomes(new)
    PROVE  ViewInv'
<1> USE DEF ViewInv, View!Becomes
<1> DEFINE Shape == [kind : View!Kinds,
                     pc : View!Waiting \cup View!Kinds \cup {"owner", "byOwner", "byViewer"},
                     found : SUBSET View!Reasons, always : SUBSET View!Reasons,
                     ever : SUBSET View!Reasons]
<1>1. \A r \in Viewers :
         IF viewReq[r].pc \in View!Waiting
         THEN viewReq'[r] = viewReq[r]
         ELSE /\ viewReq'[r].pc = viewReq[r].pc
              /\ viewReq'[r].kind = viewReq[r].kind
              /\ viewReq'[r].found = viewReq[r].found
              /\ viewReq'[r].always = viewReq[r].always \cap new
              /\ viewReq'[r].ever = viewReq[r].ever \cup (new \cap View!Relevant(viewReq[r].kind))
              /\ viewReq'[r] \in Shape
  <2> SUFFICES ASSUME NEW r \in Viewers, viewReq[r].pc \notin View!Waiting
               PROVE  /\ viewReq'[r].pc = viewReq[r].pc
                      /\ viewReq'[r].kind = viewReq[r].kind
                      /\ viewReq'[r].found = viewReq[r].found
                      /\ viewReq'[r].always = viewReq[r].always \cap new
                      /\ viewReq'[r].ever =
                            viewReq[r].ever \cup (new \cap View!Relevant(viewReq[r].kind))
                      /\ viewReq'[r] \in Shape
    OBVIOUS
  <2>1. viewReq'[r] = [viewReq[r] EXCEPT
                         !.always = @ \cap new,
                         !.ever = @ \cup (new \cap View!Relevant(viewReq[r].kind))]
    OBVIOUS
  <2>2. viewReq[r] \in Shape
    BY DEF View!TypeOK
  <2> QED
    BY <2>1, <2>2
<1>2. View!TypeOK'
  <2>1. \A r \in Viewers : viewReq[r] \in Shape /\ viewReq'[r] \in Shape
    BY <1>1 DEF View!TypeOK
  <2>2. \A r \in Viewers : /\ viewReq'[r].pc = viewReq[r].pc
                           /\ viewReq'[r].found = viewReq[r].found
    BY <1>1
  <2>3. viewReq' = [r \in Viewers |-> viewReq'[r]]
    OBVIOUS
  <2> HIDE DEF View!Becomes
  <2>4. viewReq' \in [Viewers -> Shape]
    BY <2>1, <2>3
  <2>5. bars' \subseteq View!Reasons
    BY DEF View!Becomes
  <2> QED
    BY <2>2, <2>4, <2>5 DEF View!TypeOK
<1>3. \A r \in Viewers : viewReq'[r].pc \notin View!Waiting => Informed(viewReq[r])'
  <2> SUFFICES ASSUME NEW r \in Viewers, viewReq'[r].pc \notin View!Waiting
               PROVE  Informed(viewReq[r])'
    OBVIOUS
  <2>1. viewReq[r].pc \notin View!Waiting /\ Informed(viewReq[r])
    BY <1>1
  <2>2. bars' = new
    OBVIOUS
  <2> HIDE DEF View!Becomes
  <2> QED
    BY <1>1, <2>1, <2>2 DEF Informed
<1>4. View!ShownWasFree' /\ View!HiddenForReason'
  BY <1>1 DEF View!ShownWasFree, View!HiddenForReason, View!Waiting
<1> QED
  BY <1>2, <1>3, <1>4

LEMMA ViewStep == ViewInv /\ [View!Next]_view => ViewInv'
<1> SUFFICES ASSUME ViewInv, [View!Next]_view PROVE ViewInv'
  OBVIOUS
<1> USE DEF ViewInv
<1>0. \A r \in Viewers :
         viewReq[r] \in [kind : View!Kinds,
                         pc : View!Waiting \cup View!Kinds \cup {"owner", "byOwner", "byViewer"},
                         found : SUBSET View!Reasons, always : SUBSET View!Reasons,
                         ever : SUBSET View!Reasons]
  BY DEF View!TypeOK
<1>1. ASSUME NEW r \in Viewers, View!Ask(r) PROVE ViewInv'
  <2>1. PICK kind \in View!Kinds :
           viewReq' = [viewReq EXCEPT ![r] =
                         [kind |-> kind, pc |-> kind, found |-> {},
                          always |-> bars \cap View!Relevant(kind),
                          ever |-> bars \cap View!Relevant(kind)]]
    BY <1>1 DEF View!Ask
  <2> DEFINE q == [kind |-> kind, pc |-> kind, found |-> {},
                   always |-> bars \cap View!Relevant(kind),
                   ever |-> bars \cap View!Relevant(kind)]
  <2>2. Left(kind, kind) = View!Relevant(kind) /\ kind \in ViewSteps(kind)
    BY ViewOrder DEF View!Kinds, ViewSteps
  <2>3. Informed(q)
    BY <2>2 DEF Informed
  <2>4. q.pc \notin View!Waiting /\ View!Relevant(kind) \subseteq View!Reasons
    BY DEF View!Kinds, View!Waiting, View!Relevant
  <2> QED
    BY <1>1, <2>1, <2>3, <2>4, ViewMove DEF View!Ask, View!TypeOK, View!Waiting
<1>2. ASSUME NEW r \in Viewers, View!Find(r) PROVE ViewInv'
  <2> DEFINE next == View!Follows[viewReq[r].kind][viewReq[r].pc]
             q == [viewReq[r] EXCEPT !.pc = next,
                                     !.found = @ \cup (bars \cap View!Tells(viewReq[r].pc))]
  <2>1. viewReq[r].pc \in DOMAIN View!Follows[viewReq[r].kind]
    BY <1>2 DEF View!Find
  <2>2. viewReq[r].pc \notin View!Waiting /\ viewReq[r].pc \in ViewSteps(viewReq[r].kind)
    <3>1. viewReq[r].pc \notin View!Waiting
      BY <1>0, <2>1 DEF View!Follows, View!Kinds, View!Waiting
    <3> QED
      BY <3>1 DEF Informed
  <2>3. /\ next \in ViewSteps(viewReq[r].kind)
        /\ View!Tells(viewReq[r].pc) \subseteq View!Relevant(viewReq[r].kind)
        /\ Left(viewReq[r].kind, viewReq[r].pc) \subseteq
              View!Tells(viewReq[r].pc) \cup Left(viewReq[r].kind, next)
    BY <1>0, <2>1, <2>2, ViewOrder
  <2>4. /\ q.kind = viewReq[r].kind /\ q.pc = next
        /\ q.always = viewReq[r].always /\ q.ever = viewReq[r].ever
        /\ q.found = viewReq[r].found \cup (bars \cap View!Tells(viewReq[r].pc))
    BY <1>0
  <2>5. Informed(q)
    <3> HIDE DEF q, next
    <3> QED
      BY <2>2, <2>3, <2>4 DEF Informed
  <2>6. q.pc \notin View!Waiting /\ q.pc \in View!Kinds \cup {"owner", "byOwner", "byViewer"}
    <3> HIDE DEF q, next
    <3> QED
      BY <1>0, <2>3, <2>4 DEF ViewSteps, View!Waiting, View!Kinds
  <2>7. q \in [kind : View!Kinds,
               pc : View!Waiting \cup View!Kinds \cup {"owner", "byOwner", "byViewer"},
               found : SUBSET View!Reasons, always : SUBSET View!Reasons,
               ever : SUBSET View!Reasons]
    <3>1. bars \cap View!Tells(viewReq[r].pc) \subseteq View!Reasons
      BY DEF View!TypeOK
    <3> HIDE DEF next
    <3> QED
      BY <1>0, <2>4, <2>6, <3>1
  <2>8. viewReq' = [viewReq EXCEPT ![r] = q] /\ UNCHANGED bars
    BY <1>0, <1>2 DEF View!Find, View!TypeOK
  <2> HIDE DEF q, next
  <2> QED
    BY <2>5, <2>6, <2>7, <2>8, ViewMove DEF View!Waiting
<1>3. ASSUME NEW r \in Viewers, View!Missing(r) PROVE ViewInv'
  <2> DEFINE found == bars \cap View!Tells(viewReq[r].kind)
             q == [viewReq[r] EXCEPT !.pc = "hidden", !.found = found]
  <2>1. viewReq[r].pc = viewReq[r].kind /\ found # {}
    BY <1>3 DEF View!Missing
  <2>2. Informed(viewReq[r])
    BY <1>0, <2>1 DEF View!Kinds, View!Waiting
  <2>3. found \subseteq viewReq[r].ever
    BY <1>0, <2>1, <2>2, ViewOrder DEF Informed
  <2>4. viewReq' = [viewReq EXCEPT ![r] = q] /\ UNCHANGED bars
    BY <1>0, <1>3 DEF View!Missing, View!TypeOK
  <2>5. q \in [kind : View!Kinds,
               pc : View!Waiting \cup View!Kinds \cup {"owner", "byOwner", "byViewer"},
               found : SUBSET View!Reasons, always : SUBSET View!Reasons,
               ever : SUBSET View!Reasons]
    BY <1>0 DEF View!TypeOK, View!Waiting
  <2>6. q.pc = "hidden" /\ q.found # {} /\ q.ever # {}
    BY <1>0, <2>1, <2>3
  <2> HIDE DEF q
  <2> QED
    BY <2>4, <2>5, <2>6, ViewMove DEF View!Waiting
<1>4. ASSUME NEW r \in Viewers, View!Decide(r) PROVE ViewInv'
  <2> DEFINE found == viewReq[r].found \cup (bars \cap View!Tells("byViewer"))
             q == [viewReq[r] EXCEPT !.pc = IF found = {} THEN "shown" ELSE "hidden",
                                     !.found = found]
  <2>1. viewReq[r].pc = "byViewer"
    BY <1>4 DEF View!Decide
  <2>2. Informed(viewReq[r])
    BY <2>1 DEF View!Waiting
  <2>3. found \subseteq viewReq[r].ever /\ viewReq[r].always \subseteq found
    BY <1>0, <2>1, <2>2, ViewOrder DEF Informed
  <2>4. viewReq' = [viewReq EXCEPT ![r] = q] /\ UNCHANGED bars
    BY <1>0, <1>4 DEF View!Decide, View!TypeOK
  <2>5. q \in [kind : View!Kinds,
               pc : View!Waiting \cup View!Kinds \cup {"owner", "byOwner", "byViewer"},
               found : SUBSET View!Reasons, always : SUBSET View!Reasons,
               ever : SUBSET View!Reasons]
    BY <1>0 DEF View!TypeOK, View!Waiting
  <2>6. /\ q.pc = IF found = {} THEN "shown" ELSE "hidden"
        /\ q.found = found /\ q.always = viewReq[r].always /\ q.ever = viewReq[r].ever
    BY <1>0
  <2> HIDE DEF q, found
  <2> QED
    BY <2>3, <2>4, <2>5, <2>6, ViewMove DEF View!Waiting
<1>5. ASSUME NEW r \in Viewers, View!Fail(r) PROVE ViewInv'
  BY <1>5, ViewMove DEF View!Fail, View!Blank, View!Waiting, View!Kinds
<1>6. ASSUME View!Deactivate \/ View!Activate \/ View!Remove \/ View!SaveProfile
             \/ View!Verify \/ View!Block \/ View!Unblock
      PROVE  ViewInv'
  <2>1. PICK new \in SUBSET View!Reasons : View!Becomes(new)
    <3>1. bars \subseteq View!Reasons
      BY DEF View!TypeOK
    <3> QED
      BY <1>6, <3>1 DEF View!Deactivate, View!Activate, View!Remove, View!SaveProfile,
                        View!Verify, View!Block, View!Unblock, View!Reasons
  <2> QED
    BY <2>1, ViewBecomes
<1>7. CASE UNCHANGED view
  BY <1>7 DEF view, View!TypeOK, Informed, View!ShownWasFree, View!HiddenForReason
<1> QED
  BY <1>1, <1>2, <1>3, <1>4, <1>5, <1>6, <1>7 DEF View!Next

\* No page is shown against a reason that held all through its request, and none is
\* hidden without a reason of its kind, for any number of requests and any changes.
THEOREM ShownUnlessBarredAlways == View!Spec => []ShownUnlessBarred
<1>1. ViewInv => ShownUnlessBarred
  BY DEF ViewInv, ShownUnlessBarred
<1> QED
  BY <1>1, ViewInit, ViewStep, PTL DEF View!Spec, View!vars, view

-----------------------------------------------------------------------------
(* KeysetPaging: of the rows that keep their place, those up to the cursor *)
(* are the ones returned, or fetched and not yet in a summary.             *)

\* Row r comes after the row that a cursor was made of, in the order of the list.
Beyond(c, r) ==
    IF Pages!OldestFirst
    THEN pageRow[r].at > c.at \/ (pageRow[r].at = c.at /\ r > c.id)
    ELSE pageRow[r].at < c.at \/ (pageRow[r].at = c.at /\ r < c.id)

\* A cursor names a row of the list; the message it names is where it was.
CursorNames ==
    ~cursor.none =>
        /\ cursor.id \in Ids /\ cursor.at \in Times
        /\ list = "messages" =>
              pageRow[cursor.id].exists /\ pageRow[cursor.id].at = cursor.at

\* A kept row is still listed, and its summary is not null.
KeptListed == \A r \in kept : Pages!Listed(r) /\ ~pageRow[r].hidden

\* What is known of a kept row at each step of a walk.
KeptPlaced(r) ==
    /\ walk = "ready" => (Pages!After(cursor, r) <=> r \notin shown)
    /\ walk = "building" =>
          /\ r \in shown => r \notin todo
          /\ IF more THEN Pages!After(cursor, r) <=> r \notin shown \cup todo
             ELSE r \in shown \cup todo
    /\ walk = "done" => r \in shown

Unbegun ==
    walk = "idle" => cursor.none /\ shown = {} /\ kept = {} /\ todo = {} /\ repeated = {}

PagesInv ==
    /\ Pages!TypeOK /\ CursorNames /\ KeptListed /\ Unbegun
    /\ \A r \in kept : KeptPlaced(r)
    /\ Pages!NoRepeats

\* The eight conditions of the lists are one: beyond the cursor in the list's order.
LEMMA PagesAfter ==
    ASSUME Pages!TypeOK, NEW c, NEW r \in Ids,
           list = "messages" => pageRow[c.id].at = c.at
    PROVE  Pages!After(c, r) <=> c.none \/ Beyond(c, r)
  BY DEF Pages!TypeOK, Pages!Lists, Pages!After, Pages!MessageAfter, Pages!ThreadAfter,
         Pages!RequestAfter, Pages!FlatAfter, Pages!FlatmateAfter, Pages!ReportAfter,
         Pages!ReviewAfter, Pages!OldestFirst, Beyond

LEMMA PagesCursor ==
    ASSUME PagesInv, NEW r \in Ids
    PROVE  Pages!After(cursor, r) <=> cursor.none \/ Beyond(cursor, r)
<1>1. CASE cursor.none
  BY <1>1 DEF Pages!After
<1>2. CASE ~cursor.none
  BY <1>2, PagesAfter DEF PagesInv, CursorNames
<1> QED
  BY <1>1, <1>2

\* Keys are numbers, so the order of a list is total.
LEMMA PagesOrder ==
    ASSUME Pages!PagingAssumption, Pages!TypeOK, NEW q \in Ids, NEW r \in Ids
    PROVE  /\ pageRow[r].at \in Nat /\ q \in Nat /\ r \in Nat
           /\ Pages!Before(q, r) => ~Pages!Before(r, q)
           /\ ~Pages!Before(r, r)
           /\ Beyond(Pages!Cursor(r), q) <=> Pages!Before(r, q)
           /\ \A c \in [at : Times, id : Ids, none : BOOLEAN] :
                 Beyond(c, r) /\ ~Beyond(c, q) => ~Pages!Before(r, q)
<1>1. /\ pageRow[r].at \in Nat /\ pageRow[q].at \in Nat /\ q \in Nat /\ r \in Nat
  BY DEF Pages!PagingAssumption, Pages!TypeOK, Pages!Rows
<1>2. \A c \in [at : Times, id : Ids, none : BOOLEAN] : c.at \in Nat /\ c.id \in Nat
  BY DEF Pages!PagingAssumption
<1> QED
  BY <1>1, <1>2 DEF Pages!Before, Pages!Cursor, Beyond

\* A page: the rows of the slice are the next ones of the kept rows after the cursor,
\* and the new cursor parts them from those still to come.
LEMMA PagesSlice ==
    ASSUME PagesInv, Pages!PagingAssumption, walk = "ready", NEW limit \in Limits,
           NEW slice \in SUBSET Pages!Matching,
           Pages!Sliced(slice, limit), Pages!Advance(slice), UNCHANGED <<list, pageRow>>
    PROVE  /\ CursorNames' /\ cursor' \in [at : Times \cup {0}, id : Ids \cup {0}, none : BOOLEAN]
           /\ more' \in BOOLEAN
           /\ slice \subseteq Ids
           /\ kept \cap slice \cap shown = {}
           /\ \A r \in kept : IF more' THEN Pages!After(cursor, r)' <=> r \notin shown \cup slice
                              ELSE r \in shown \cup slice
<1> USE DEF PagesInv
<1>0. /\ kept \subseteq Ids /\ slice \subseteq Ids
      /\ \A r \in slice : Pages!Listed(r) /\ Pages!After(cursor, r)
      /\ \A r \in kept : Pages!After(cursor, r) <=> r \notin shown
      /\ \A r \in kept \ shown : r \in Pages!Matching
  BY DEF Pages!TypeOK, Pages!Matching, KeptPlaced, KeptListed
<1>1. CASE slice = Pages!Matching
  <2>1. more' = FALSE /\ cursor' = cursor
    BY <1>1 DEF Pages!Advance
  <2>2. CursorNames'
    BY <2>1 DEF CursorNames
  <2> QED
    BY <1>0, <1>1, <2>1, <2>2 DEF Pages!TypeOK
<1>2. CASE slice # Pages!Matching
  <2>1. more' = TRUE
    BY <1>2 DEF Pages!Advance
  <2>2. PICK last \in slice : Pages!LastOf(slice, last) /\ cursor' = Pages!Cursor(last)
    BY <1>2 DEF Pages!Advance
  <2>3. last \in Ids /\ Pages!Listed(last) /\ pageRow[last].at \in Times
    BY <1>0 DEF Pages!TypeOK, Pages!Rows
  <2>4. cursor'.at = pageRow[last].at /\ cursor'.id = last /\ ~cursor'.none
    BY <2>2 DEF Pages!Cursor
  <2>5. CursorNames'
    BY <2>3, <2>4 DEF CursorNames, Pages!Listed
  <2>6. cursor' \in [at : Times \cup {0}, id : Ids \cup {0}, none : BOOLEAN]
    BY <2>2, <2>3 DEF Pages!Cursor
  <2>7. ASSUME NEW r \in kept
        PROVE  Pages!After(cursor, r)' <=> Pages!Before(last, r)
    <3>1. Pages!TypeOK => (Pages!After(cursor', r) <=> cursor'.none \/ Beyond(cursor', r))
      BY <1>0, <2>4, PagesAfter
    <3>2. Beyond(cursor', r) <=> Pages!Before(last, r)
      BY <1>0, <2>2, <2>3, PagesOrder
    <3>3. Pages!After(cursor, r)' <=> Pages!After(cursor', r)
      BY DEF Pages!After, Pages!MessageAfter, Pages!ThreadAfter, Pages!RequestAfter,
             Pages!FlatAfter, Pages!FlatmateAfter, Pages!ReportAfter, Pages!ReviewAfter
    <3> QED
      BY <2>4, <3>1, <3>2, <3>3
  <2>8. ASSUME NEW r \in kept
        PROVE  Pages!After(cursor, r)' <=> r \notin shown \cup slice
    <3>1. CASE r \in shown
      <4>1. ~Pages!After(cursor, r) /\ Pages!After(cursor, last)
        BY <1>0, <3>1
      <4>2. ~cursor.none /\ ~Beyond(cursor, r) /\ Beyond(cursor, last)
        BY <1>0, <2>3, <4>1, PagesCursor
      <4>3. cursor \in [at : Times, id : Ids, none : BOOLEAN]
        BY <4>2 DEF CursorNames, Pages!TypeOK
      <4>4. ~Pages!Before(last, r)
        BY <1>0, <2>3, <4>2, <4>3, PagesOrder
      <4> QED
        BY <2>7, <3>1, <4>4
    <3>2. CASE r \in slice
      <4>1. r = last \/ Pages!Before(r, last)
        BY <2>2, <3>2 DEF Pages!LastOf
      <4> QED
        BY <1>0, <2>3, <2>7, <3>2, <4>1, PagesOrder
    <3>3. CASE r \notin shown \cup slice
      BY <1>0, <2>7, <3>3 DEF Pages!Sliced
    <3> QED
      BY <3>1, <3>2, <3>3
  <2> QED
    BY <1>0, <2>1, <2>5, <2>6, <2>8
<1> QED
  BY <1>1, <1>2

LEMMA PagesInit == Pages!PagingAssumption /\ Pages!Init => PagesInv
<1> SUFFICES ASSUME Pages!PagingAssumption, Pages!Init PROVE PagesInv
  OBVIOUS
<1>1. Pages!TypeOK
  BY DEF Pages!Init, Pages!TypeOK, Pages!Rows, Pages!NoCursor
<1> QED
  BY <1>1 DEF Pages!Init, PagesInv, CursorNames, KeptListed, Unbegun, Pages!NoCursor,
              Pages!NoRepeats

LEMMA PagesStart == PagesInv /\ Pages!Start => PagesInv'
<1> SUFFICES ASSUME PagesInv, Pages!Start PROVE PagesInv'
  OBVIOUS
<1> USE DEF PagesInv, Pages!Start
<1>1. Pages!TypeOK' /\ Unbegun'
  BY DEF Pages!TypeOK, Unbegun
<1>2. CursorNames' /\ KeptListed'
  BY DEF CursorNames, KeptListed, Pages!Listed
<1>3. \A r \in kept' : KeptPlaced(r)'
  BY DEF KeptPlaced, Unbegun, Pages!After
<1>4. Pages!NoRepeats'
  BY DEF Pages!NoRepeats, Pages!TypeOK, Unbegun
<1> QED
  BY <1>1, <1>2, <1>3, <1>4


\* A page that is returned as it is found.
LEMMA PagesPage ==
    ASSUME PagesInv, Pages!PagingAssumption, NEW limit \in Limits, Pages!PageOf(limit)
    PROVE  PagesInv'
<1> USE DEF PagesInv
<1>1. PICK slice \in SUBSET Pages!Matching :
         Pages!Sliced(slice, limit) /\ Pages!Advance(slice) /\ Pages!Return(slice)
  BY DEF Pages!PageOf
<1>2. /\ walk = "ready" /\ walk' = (IF more' THEN "ready" ELSE "done")
      /\ UNCHANGED <<list, pageRow, todo, kept>>
  BY DEF Pages!PageOf
<1>3. /\ CursorNames' /\ cursor' \in [at : Times \cup {0}, id : Ids \cup {0}, none : BOOLEAN]
      /\ more' \in BOOLEAN
      /\ slice \subseteq Ids
      /\ kept \cap slice \cap shown = {}
      /\ \A r \in kept : IF more' THEN Pages!After(cursor, r)' <=> r \notin shown \cup slice
                         ELSE r \in shown \cup slice
  BY <1>1, <1>2, PagesSlice
<1>4. shown' = shown \cup slice /\ repeated' = repeated \cup (slice \cap shown \cap kept)
  BY <1>1 DEF Pages!Return
<1>5. Pages!TypeOK' /\ Unbegun'
  BY <1>2, <1>3, <1>4 DEF Pages!TypeOK, Unbegun
<1>6. KeptListed'
  BY <1>2 DEF KeptListed, Pages!Listed
<1>7. \A r \in kept' : KeptPlaced(r)'
  BY <1>2, <1>3, <1>4 DEF KeptPlaced
<1>8. Pages!NoRepeats'
  BY <1>2, <1>3, <1>4 DEF Pages!NoRepeats
<1> QED
  BY <1>3, <1>5, <1>6, <1>7, <1>8

\* A page whose summaries are built next.
LEMMA PagesFetch ==
    ASSUME PagesInv, Pages!PagingAssumption, NEW limit \in Limits, Pages!FetchOf(limit)
    PROVE  PagesInv'
<1> USE DEF PagesInv
<1>1. PICK slice \in SUBSET Pages!Matching :
         Pages!Sliced(slice, limit) /\ Pages!Advance(slice) /\ todo' = slice
  BY DEF Pages!FetchOf
<1>2. /\ walk = "ready" /\ walk' = "building"
      /\ UNCHANGED <<list, pageRow, shown, kept, repeated>>
  BY DEF Pages!FetchOf
<1>3. /\ CursorNames' /\ cursor' \in [at : Times \cup {0}, id : Ids \cup {0}, none : BOOLEAN]
      /\ more' \in BOOLEAN
      /\ slice \subseteq Ids
      /\ kept \cap slice \cap shown = {}
      /\ \A r \in kept : IF more' THEN Pages!After(cursor, r)' <=> r \notin shown \cup slice
                         ELSE r \in shown \cup slice
  BY <1>1, <1>2, PagesSlice
<1>4. Pages!TypeOK' /\ Unbegun'
  BY <1>1, <1>2, <1>3 DEF Pages!TypeOK, Unbegun
<1>5. KeptListed' /\ Pages!NoRepeats'
  BY <1>2 DEF KeptListed, Pages!Listed, Pages!NoRepeats
<1>6. \A r \in kept' : KeptPlaced(r)'
  BY <1>1, <1>2, <1>3 DEF KeptPlaced
<1> QED
  BY <1>3, <1>4, <1>5, <1>6

\* A summary joins the page, unless it is null.
LEMMA PagesSummary ==
    ASSUME PagesInv, NEW r \in Ids, Pages!Summarise(r)
    PROVE  PagesInv'
<1> USE DEF PagesInv
<1>1. /\ walk = "building" /\ r \in todo /\ todo' = todo \ {r}
      /\ UNCHANGED <<list, pageRow, walk, cursor, more, kept>>
      /\ shown' = shown \cup ({r} \ {s \in Ids : pageRow[s].hidden})
      /\ repeated' = repeated \cup (({r} \ {s \in Ids : pageRow[s].hidden}) \cap shown \cap kept)
  BY DEF Pages!Summarise, Pages!Return
<1>2. Pages!TypeOK' /\ Unbegun'
  BY <1>1 DEF Pages!TypeOK, Unbegun
<1>3. CursorNames' /\ KeptListed'
  BY <1>1 DEF CursorNames, KeptListed, Pages!Listed
<1>4. \A q \in kept : Pages!After(cursor, q)' <=> Pages!After(cursor, q)
  BY <1>1 DEF Pages!After, Pages!MessageAfter, Pages!ThreadAfter, Pages!RequestAfter,
              Pages!FlatAfter, Pages!FlatmateAfter, Pages!ReportAfter, Pages!ReviewAfter
<1>5. r \in kept => r \notin shown /\ r \in shown'
  BY <1>1 DEF KeptPlaced, KeptListed
<1>6. \A q \in kept' : KeptPlaced(q)'
  BY <1>1, <1>4, <1>5 DEF KeptPlaced
<1>7. Pages!NoRepeats'
  BY <1>1, <1>5 DEF Pages!NoRepeats
<1> QED
  BY <1>2, <1>3, <1>6, <1>7

\* The row of a change is kept no more, and a message that is there does not move.
LEMMA PagesChange ==
    ASSUME PagesInv, NEW r \in Ids, NEW x \in Pages!Rows, Pages!Change(r, x),
           list = "messages" => ~pageRow[r].exists \/ x = pageRow[r]
    PROVE  PagesInv'
<1> USE DEF PagesInv
<1>1. /\ pageRow' = [pageRow EXCEPT ![r] = x]
      /\ kept' = kept \ {r}
      /\ UNCHANGED <<list, walk, cursor, more, todo, shown, repeated>>
  BY DEF Pages!Change
<1>2. Pages!TypeOK' /\ Unbegun'
  BY <1>1 DEF Pages!TypeOK, Unbegun
<1>3. CursorNames'
  BY <1>1 DEF CursorNames, Pages!TypeOK
<1>4. \A q \in kept' : q \in kept /\ q \in Ids /\ pageRow'[q] = pageRow[q]
  BY <1>1 DEF Pages!TypeOK
<1>5. KeptListed'
  BY <1>4 DEF KeptListed, Pages!Listed
<1>6. Pages!NoRepeats'
  BY <1>1 DEF Pages!NoRepeats
<1>7. ASSUME NEW q \in kept' PROVE Pages!After(cursor, q)' <=> Pages!After(cursor, q)
  <2>1. CASE cursor.none
    BY <1>1, <2>1 DEF Pages!After
  <2>2. CASE ~cursor.none
    <3>1. list = "messages" => pageRow'[cursor.id].at = pageRow[cursor.id].at
      BY <1>1, <2>2 DEF CursorNames, Pages!TypeOK
    <3> QED
      BY <1>1, <1>4, <3>1
      DEF Pages!After, Pages!MessageAfter, Pages!ThreadAfter, Pages!RequestAfter,
          Pages!FlatAfter, Pages!FlatmateAfter, Pages!ReportAfter, Pages!ReviewAfter
  <2> QED
    BY <2>1, <2>2
<1>8. \A q \in kept' : KeptPlaced(q)'
  BY <1>1, <1>4, <1>7 DEF KeptPlaced
<1> QED
  BY <1>2, <1>3, <1>5, <1>6, <1>8

LEMMA PagesStep ==
    ASSUME Pages!PagingAssumption, PagesInv, [Pages!Next]_pages
    PROVE  PagesInv'
<1> USE DEF PagesInv
<1>0. \A r \in Ids : pageRow[r] \in Pages!Rows
  BY DEF Pages!TypeOK
<1>1. CASE Pages!Start
  BY <1>1, PagesStart
<1>2. CASE Pages!AnswerPage
  <2>1. Pages!TypeOK' /\ Unbegun'
    BY <1>2 DEF Pages!AnswerPage, Pages!TypeOK, Unbegun
  <2>2. CursorNames' /\ KeptListed' /\ Pages!NoRepeats'
    BY <1>2 DEF Pages!AnswerPage, CursorNames, KeptListed, Pages!Listed, Pages!NoRepeats
  <2>3. \A q \in kept : Pages!After(cursor, q)' <=> Pages!After(cursor, q)
    BY <1>2 DEF Pages!AnswerPage, Pages!After, Pages!MessageAfter, Pages!ThreadAfter,
                Pages!RequestAfter, Pages!FlatAfter, Pages!FlatmateAfter, Pages!ReportAfter,
                Pages!ReviewAfter
  <2>4. \A q \in kept' : KeptPlaced(q)'
    BY <1>2, <2>3 DEF Pages!AnswerPage, KeptPlaced
  <2> QED
    BY <2>1, <2>2, <2>4
<1>3. ASSUME NEW limit \in Limits,
             \/ Pages!MessagePage(limit) \/ Pages!FlatPage(limit) \/ Pages!FlatmatePage(limit)
             \/ Pages!ReportPage(limit) \/ Pages!ReviewPage(limit)
             \/ Pages!ThreadPage(limit) \/ Pages!RequestPage(limit)
      PROVE  PagesInv'
  BY <1>3, PagesPage, PagesFetch
  DEF Pages!MessagePage, Pages!FlatPage, Pages!FlatmatePage, Pages!ReportPage,
      Pages!ReviewPage, Pages!ThreadPage, Pages!RequestPage
<1>4. ASSUME NEW r \in Ids, Pages!Summarise(r) PROVE PagesInv'
  BY <1>4, PagesSummary
<1>5. ASSUME NEW r \in Ids, Pages!Refile(r) PROVE PagesInv'
  <2>1. [pageRow[r] EXCEPT !.fits = ~@] \in Pages!Rows
    BY <1>0 DEF Pages!Rows
  <2> QED
    BY <1>5, <2>1, PagesChange DEF Pages!Refile, Pages!Leaves
<1>6. ASSUME NEW r \in Ids, Pages!Hide(r) PROVE PagesInv'
  <2>1. [pageRow[r] EXCEPT !.hidden = ~@] \in Pages!Rows
    BY <1>0 DEF Pages!Rows
  <2> QED
    BY <1>6, <2>1, PagesChange DEF Pages!Hide, Pages!Summarised
<1>7. ASSUME NEW r \in Ids, NEW t \in Times, Pages!Arrive(r, t) PROVE PagesInv'
  <2>1. [exists |-> TRUE, at |-> t, fits |-> TRUE, hidden |-> FALSE] \in Pages!Rows
    BY DEF Pages!Rows
  <2> QED
    BY <1>7, <2>1, PagesChange DEF Pages!Arrive
<1>8. ASSUME NEW r \in Ids, NEW t \in Times, Pages!Move(r, t) PROVE PagesInv'
  <2>1. [pageRow[r] EXCEPT !.at = t] \in Pages!Rows
    BY <1>0 DEF Pages!Rows
  <2> QED
    BY <1>8, <2>1, PagesChange DEF Pages!Move, Pages!KeyMoves
<1>9. CASE UNCHANGED pages
  <2>1. \A q \in kept : Pages!After(cursor, q)' <=> Pages!After(cursor, q)
    BY <1>9 DEF pages, Pages!After, Pages!MessageAfter, Pages!ThreadAfter,
                Pages!RequestAfter, Pages!FlatAfter, Pages!FlatmateAfter, Pages!ReportAfter,
                Pages!ReviewAfter
  <2> QED
    BY <1>9, <2>1 DEF pages, Pages!TypeOK, CursorNames, KeptListed, Pages!Listed, Unbegun,
                      KeptPlaced, Pages!NoRepeats
<1> QED
  BY <1>1, <1>2, <1>3, <1>4, <1>5, <1>6, <1>7, <1>8, <1>9 DEF Pages!Next

\* A walk returns every row that keeps its place, and none of them twice, for any rows,
\* times and sizes of pages, in each of the eight lists.
THEOREM PagesAreExact == Pages!Spec => []PagesExact
<1>1. PagesInv => PagesExact
  BY DEF PagesInv, PagesExact, KeptPlaced, Pages!NothingSkipped, Pages!TypeOK
<1>2. Pages!PagingAssumption
  BY PartsAssumption
<1>3. Pages!Init => PagesInv
  BY <1>2, PagesInit
<1>4. PagesInv /\ [Pages!Next]_pages => PagesInv'
  BY <1>2, PagesStep
<1> QED
  BY <1>1, <1>3, <1>4, PTL DEF Pages!Spec, Pages!vars, pages


-----------------------------------------------------------------------------
(* The run of MCSharedRows.                                                *)

\* In a behaviour of the run every component keeps to its own specification: the part
\* that was chosen takes its steps, the others stutter.
THEOREM PartsKeepTheirSpecs ==
    PartsSpec => Spec /\ Pages!Spec /\ View!Spec /\ Filing!Spec /\ Sse!Spec
<1>1. PartsInit => Init /\ Pages!Init /\ View!Init /\ Filing!Init /\ Sse!Init
  BY DEF PartsInit
<1>2. [PartsNext]_<<part, vars, pages, view, filing, sse>> =>
         /\ [Next]_vars /\ [Pages!Next]_pages /\ [View!Next]_view
         /\ [Filing!Next]_filing /\ [Sse!Next]_sse
  <2> SUFFICES ASSUME [PartsNext]_<<part, vars, pages, view, filing, sse>>
               PROVE  /\ [Next]_vars /\ [Pages!Next]_pages /\ [View!Next]_view
                      /\ [Filing!Next]_filing /\ [Sse!Next]_sse
    OBVIOUS
  <2> QED
    BY DEF PartsNext
<1> QED
  BY <1>1, <1>2, PTL
  DEF PartsSpec, Spec, Pages!Spec, View!Spec, Filing!Spec, Sse!Spec,
      Pages!vars, View!vars, Filing!vars, Sse!vars, pages, view, filing, sse

=============================================================================
