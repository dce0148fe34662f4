---------------------------- MODULE ReportMail ----------------------------
(***************************************************************************)
(* The mail to the admin that follows the commit of a report               *)
(* (sendAdminReportNotification in safety.service.ts).  At most one mail   *)
(* per five minutes is meant to go out; reports in between are counted in  *)
(* Redis, and the next mail tells how many there are.  Any number of       *)
(* reports are filed at once; a duplicate, or the retry of a request whose *)
(* report is filed, sends nothing (ReportFiling.tla).                      *)
(* Time ticks in steps of 2.5 minutes; the hour of EMAIL_TTL_SEC is cut to *)
(* CountTtl ticks, which keeps it longer than the window.                  *)
(***************************************************************************)
EXTENDS Integers, FiniteSets

CONSTANTS
    Handlers,   \* requests in flight whose report is filed
    Ids         \* report ids, 1 to the number ever filed

Window == 2     \* five minutes
CountTtl == 3   \* EMAIL_TTL_SEC
NoTtl == -1     \* a key that never expires

VARIABLES
    filed,      \* the reports whose transaction is committed
    req,        \* per handler: step, report, and what it read
    lastAge,    \* age of the time in admin:last-report-email, Window when over
    count,      \* admin:pending-report-count, 0 when absent
    countAge,   \* age of that key, CountTtl when absent, or NoTtl
    counted,    \* history: the reports in count
    told,       \* history: the reports some mail has covered
    silent,     \* history: the reports no mail will cover, for a known reason
    mailAge     \* history: age of the latest mail, at most Window

vars == <<filed, req, lastAge, count, countAge, counted, told, silent, mailAge>>

redis == <<lastAge, count, countAge, counted>>
mails == <<told, silent, mailAge>>

\* The request of h: the age of the time it read, whether the time of the latest
\* mail was written by then and no mail went out since, and the reports counted.
NoReq == [pc |-> "idle", id |-> 0, age |-> 0, knew |-> FALSE, batch |-> {}]

Init ==
    /\ filed = {}
    /\ req = [h \in Handlers |-> NoReq]
    /\ lastAge = Window
    /\ count = 0
    /\ countAge = CountTtl
    /\ counted = {} /\ told = {} /\ silent = {}
    /\ mailAge = Window

Goto(h, step) == req' = [req EXCEPT ![h].pc = step]
End(h) == req' = [req EXCEPT ![h] = NoReq]

-----------------------------------------------------------------------------

\* createReport calls for the mail once its transaction is committed; reports are
\* numbered in that order.
File(h) ==
    /\ req[h].pc = "idle"
    /\ LET i == Cardinality(filed) + 1 IN
          /\ i \in Ids
          /\ filed' = filed \cup {i}
          /\ req' = [req EXCEPT ![h] = [NoReq EXCEPT !.pc = "last", !.id = i]]
    /\ UNCHANGED <<redis, mails>>

\* GET of the time of the last mail, and the time now.
GetLast(h) ==
    /\ req[h].pc = "last"
    /\ req' = [req EXCEPT ![h].pc = IF lastAge < Window THEN "count" ELSE "batch",
                          ![h].age = 0, ![h].knew = lastAge <= mailAge]
    /\ UNCHANGED <<filed, redis, mails>>

\* Inside the window: INCR, which keeps the TTL of the key.
CountReport(h) ==
    /\ req[h].pc = "count"
    /\ count' = count + 1
    /\ counted' = counted \cup {req[h].id}
    /\ countAge' = IF countAge = CountTtl THEN NoTtl ELSE countAge
    /\ End(h)
    /\ UNCHANGED <<filed, lastAge, mails>>

\* GET of the count.
GetCount(h) ==
    /\ req[h].pc = "batch"
    /\ req' = [req EXCEPT ![h].pc = "mail", ![h].batch = counted]
    /\ UNCHANGED <<filed, redis, mails>>

\* What the others read is older than the mail of h.
Mailed(h) ==
    req' = [g \in Handlers |->
              IF g = h THEN [req[h] EXCEPT !.pc = "setLast"]
              ELSE [req[g] EXCEPT !.knew = FALSE]]

\* Mutant of SendMail: the subject ignores the count.
SendMailAlone(h) ==
    /\ req[h].pc = "mail"
    /\ told' = told \cup {req[h].id}
    /\ mailAge' = 0
    /\ Mailed(h)
    /\ UNCHANGED <<filed, redis, silent>>

\* The mail: this report and the number that was read.
SendMail(h) ==
    /\ req[h].pc = "mail"
    /\ told' = told \cup {req[h].id} \cup req[h].batch
    /\ mailAge' = 0
    /\ Mailed(h)
    /\ UNCHANGED <<filed, redis, silent>>

\* SET of the time that was read with the last one, before the mail.
SetLast(h) ==
    /\ req[h].pc = "setLast"
    /\ lastAge' = req[h].age
    /\ Goto(h, "reset")
    /\ UNCHANGED <<filed, count, countAge, counted, mails>>

\* SET of the count to 0: reports counted since it was read are forgotten.
ResetCount(h) ==
    /\ req[h].pc = "reset"
    /\ count' = 0
    /\ countAge' = 0
    /\ counted' = {}
    /\ silent' = silent \cup (counted \ req[h].batch)
    /\ End(h)
    /\ UNCHANGED <<filed, lastAge, told, mailAge>>

\* The mail or Redis fails (500, though the report is filed), or the process dies.
Fail(h) ==
    /\ req[h].pc # "idle"
    /\ silent' = IF req[h].pc \in {"last", "count", "batch", "mail"}
                   THEN silent \cup {req[h].id} ELSE silent
    /\ End(h)
    /\ UNCHANGED <<filed, redis, told, mailAge>>

Older(age, limit) == IF age \in 0 .. limit - 1 THEN age + 1 ELSE age

\* 2.5 minutes pass; the count goes with its key.
Tick ==
    LET over == countAge = CountTtl - 1 IN
    /\ lastAge' = Older(lastAge, Window)
    /\ mailAge' = Older(mailAge, Window)
    /\ countAge' = Older(countAge, CountTtl)
    /\ count' = IF over THEN 0 ELSE count
    /\ counted' = IF over THEN {} ELSE counted
    /\ silent' = IF over THEN silent \cup counted ELSE silent
    /\ req' = [h \in Handlers |->
                 IF req[h].pc \in {"batch", "mail", "setLast"}
                   THEN [req[h] EXCEPT !.age = Older(@, Window)] ELSE req[h]]
    /\ UNCHANGED <<filed, told>>

Next ==
    \/ \E h \in Handlers :
          \/ File(h) \/ GetLast(h) \/ CountReport(h) \/ GetCount(h) \/ SendMail(h)
          \/ SetLast(h) \/ ResetCount(h) \/ Fail(h)
    \/ Tick

Spec == Init /\ [][Next]_vars

-----------------------------------------------------------------------------
(* Properties.                                                             *)

Steps == {"idle", "last", "count", "batch", "mail", "setLast", "reset"}

\* Every variable has its type, and the count is that of the reports in it.
TypeOK ==
    /\ filed \subseteq Ids
    /\ req \in [Handlers -> [pc : Steps, id : Ids \cup {0},
                             age : 0 .. Window, knew : BOOLEAN, batch : SUBSET filed]]
    /\ lastAge \in 0 .. Window /\ mailAge \in 0 .. Window
    /\ count = Cardinality(counted)
    /\ countAge \in 0 .. CountTtl \cup {NoTtl}
    /\ counted \subseteq filed /\ told \subseteq filed /\ silent \subseteq filed

\* A report nobody is notifying about any more is counted for the next mail, was
\* covered by one, or is silent for a known reason: its request failed, it was
\* counted while a mail was on its way, or no other report came within the hour.
EveryReportHeard ==
    \A i \in Ids :
        \/ i \notin filed
        \/ i \in counted \cup told \cup silent
        \/ \E h \in Handlers : req[h].id = i

\* A second mail within five minutes is on its way only while the time of the
\* first was not written when it looked, or went out after it looked, or took so
\* long that the time written for it is older than the mail.
WindowKept ==
    \A h \in Handlers :
        req[h].pc \in {"batch", "mail"} /\ req[h].knew => mailAge = Window

=============================================================================
