------------------------------ MODULE Records ------------------------------
(***************************************************************************)
(* One document of a client, packages/vault and packages/retention: how it *)
(* is stored, scanned, read and destroyed, the legal holds that preserve   *)
(* it, the retention schedule of its kind, and the client's own request    *)
(* that everything be deleted.                                             *)
(***************************************************************************)
EXTENDS Desk, Sequences

CONSTANTS Holds,          \* legal holds
          StaleAfter      \* VERIFICATION_STALE_AFTER_DAYS

ASSUME RecordsAssumption == StaleAfter \in Nat

VARIABLES blob,      \* the ciphertext is in the blob store
          document,  \* the VaultDocument row
          hold,      \* hold[h]: its scope while it is in force, else a status
          schedule,  \* the live rows for this kind, oldest first
          asked,     \* status of the client's deletion request
          copies     \* exports that left

recordsRows == <<blob, document, hold, schedule, asked, copies>>
recordsVars == <<recordsRows, deskVars>>

RecordsInit ==
    /\ blob = FALSE
    /\ document = [stored |-> FALSE, scan |-> "pending", hold |-> FALSE, until |-> {},
                   deleted |-> FALSE]
    /\ hold = [h \in Holds |-> "none"]
    /\ schedule = <<>> /\ asked = "none" /\ copies = 0

There == document.stored /\ ~document.deleted

\* holdsCovering, for this document and for its client.
InForce == {h \in Holds : hold[h] \in {"tenant", "client", "this kind", "other kind"}}
Covering == {h \in InForce : hold[h] # "other kind"}

-----------------------------------------------------------------------------
\* Mutant: the row, and then what it is about.
StoreRowFirst(c) ==
    \/ /\ ~document.stored /\ Begins(c, [op |-> "store"]) /\ UNCHANGED recordsRows
    \/ /\ Doing(c, "store") /\ document' = [document EXCEPT !.stored = TRUE]
       /\ GoesOn(c, [op |-> "put"]) /\ UNCHANGED <<blob, hold, schedule, asked, copies>>
    \/ /\ Doing(c, "put") /\ blob' = TRUE /\ Finishes(c)
       /\ UNCHANGED <<document, hold, schedule, asked, copies>>

\* store and storeForClient: a blob under a new key, then the row.
Store(c) ==
    \/ /\ ~document.stored /\ ~blob /\ Begins(c, [op |-> "put"]) /\ UNCHANGED recordsRows
    \/ /\ Doing(c, "put") /\ blob' = TRUE /\ GoesOn(c, [op |-> "store"])
       /\ UNCHANGED <<document, hold, schedule, asked, copies>>
    \/ /\ Doing(c, "store") /\ document' = [document EXCEPT !.stored = TRUE] /\ Finishes(c)
       /\ UNCHANGED <<blob, hold, schedule, asked, copies>>

\* A scanner's answer, which may come twice and differ.
RecordScanResult(c) ==
    \E answer \in {"clean", "infected"} :
        /\ document.stored /\ Begins(c, AtRest)
        /\ document' = [document EXCEPT !.scan = answer]
        /\ UNCHANGED <<blob, hold, schedule, asked, copies>>

\* setLegalHold and releaseLegalHold on the document itself.
SetLegalHold(c) ==
    \E on \in BOOLEAN :
        /\ document.stored /\ document.hold # on /\ Begins(c, AtRest)
        /\ document' = [document EXCEPT !.hold = on]
        /\ UNCHANGED <<blob, hold, schedule, asked, copies>>

SetRetention(c) ==
    \E day \in 0..LastDay :
        /\ document.stored /\ Begins(c, AtRest)
        /\ document' = [document EXCEPT !.until = {day}]
        /\ UNCHANGED <<blob, hold, schedule, asked, copies>>

-----------------------------------------------------------------------------
(***************************************************************************)
(* Holds and schedules.                                                    *)
(***************************************************************************)
PlaceHold(c) ==
    \E h \in Holds, scope \in {"tenant", "client", "this kind", "other kind"} :
        /\ hold[h] = "none" /\ Begins(c, AtRest)
        /\ hold' = [hold EXCEPT ![h] = scope]
        /\ UNCHANGED <<blob, document, schedule, asked, copies>>

ReleaseHold(c) ==
    \/ \E h \in InForce : Begins(c, [op |-> "release", on |-> h]) /\ UNCHANGED recordsRows
    \/ /\ Doing(c, "release") /\ hold' = [hold EXCEPT ![request[c].on] = "released"]
       /\ Finishes(c) /\ UNCHANGED <<blob, document, schedule, asked, copies>>

\* recordSchedule supersedes what is live and then creates the new row.  A
\* statute was verified on some day; an unresearched default never.
RecordSchedule(c) ==
    \/ \E days \in 1..LastDay, verified \in {{}} \union {{day} : day \in 0..today} :
          /\ Begins(c, [op |-> "schedule", row |-> [days |-> days, verified |-> verified]])
          /\ schedule' = <<>> /\ UNCHANGED <<blob, document, hold, asked, copies>>
    \/ /\ Doing(c, "schedule") /\ schedule' = Append(schedule, request[c].row)
       /\ Finishes(c) /\ UNCHANGED <<blob, document, hold, asked, copies>>

Unverified(row) == \A day \in row.verified : today - day > StaleAfter

-----------------------------------------------------------------------------
(***************************************************************************)
(* Reading and destroying.  The row is read first, the holds after it.     *)
(***************************************************************************)
\* What holds this document when a request about it comes in.
KnownHolds == [matters |-> Covering, own |-> document.hold]

Export(c) ==
    \/ /\ There /\ document.scan = "clean"
       /\ Begins(c, [op |-> "export", row |-> document, known |-> KnownHolds])
       /\ UNCHANGED recordsRows
    \/ /\ Doing(c, "export") /\ Finishes(c)
       /\ copies' = IF request[c].row.hold \/ Covering # {} THEN copies ELSE copies + 1
       /\ UNCHANGED <<blob, document, hold, schedule, asked>>

\* readForClient asks the row only.
ExportToClient(c) ==
    \/ /\ There /\ document.scan = "clean" /\ ~document.hold
       /\ Begins(c, [op |-> "hand out", known |-> KnownHolds]) /\ UNCHANGED recordsRows
    \/ /\ Doing(c, "hand out") /\ copies' = copies + 1 /\ Finishes(c)
       /\ UNCHANGED <<blob, document, hold, schedule, asked>>

\* Mutant: only the hold on the row is looked at.
RemoveAskingTheRow(c) ==
    \/ /\ There /\ ~document.hold
       /\ Begins(c, [op |-> "remove", until |-> document.until, known |-> KnownHolds])
       /\ UNCHANGED recordsRows
    \/ /\ Doing(c, "remove") /\ UNCHANGED recordsRows
       /\ GoesOn(c, [request[c] EXCEPT !.op = "resolve"])

\* remove: the row, the holds, then the date: its own or its schedule's.
RemoveAsking(c) ==
    \/ /\ There
       /\ Begins(c, [op |-> IF document.hold THEN "refuse" ELSE "remove",
                     until |-> document.until, known |-> KnownHolds])
       /\ UNCHANGED recordsRows
    \/ /\ Doing(c, "remove") /\ UNCHANGED recordsRows
       /\ IF Covering # {} THEN Finishes(c) ELSE GoesOn(c, [request[c] EXCEPT !.op = "resolve"])
    \/ Doing(c, "refuse") /\ Finishes(c) /\ UNCHANGED recordsRows

\* The newest live row of a verified schedule, counted from the day it was
\* stored, which is day 0.
Resolved(row) ==
    IF row.until # {} THEN row.until
    ELSE IF schedule = <<>> \/ Unverified(schedule[Len(schedule)]) THEN {}
    ELSE {schedule[Len(schedule)].days}

RemoveDocument(c) ==
    \/ RemoveAsking(c)
    \/ /\ Doing(c, "resolve") /\ UNCHANGED recordsRows
       /\ IF \E day \in Resolved(request[c]) : day <= today
          THEN GoesOn(c, [request[c] EXCEPT !.op = "delete"]) ELSE Finishes(c)
    \/ /\ Doing(c, "delete") /\ document' = [document EXCEPT !.deleted = TRUE] /\ Finishes(c)
       /\ UNCHANGED <<blob, hold, schedule, asked, copies>>

-----------------------------------------------------------------------------
(***************************************************************************)
(* The client asks for deletion.  A hold, even one of another kind of      *)
(* document, refuses it.  Deleting is the vault's, document by document.   *)
(***************************************************************************)
RequestDeletion(c) == /\ asked = "none" /\ Begins(c, AtRest) /\ asked' = "received"
                      /\ UNCHANGED <<blob, document, hold, schedule, copies>>

DecideRequest(c) ==
    \/ /\ asked = "received"
       /\ \E as \in {"eligible", "refused"} :
             Begins(c, [op |-> "decide", as |-> as, matters |-> InForce])
       /\ UNCHANGED recordsRows
    \/ /\ Doing(c, "decide") /\ request[c].as = "eligible" /\ UNCHANGED recordsRows
       /\ IF InForce # {} THEN Finishes(c)
          ELSE GoesOn(c, [request[c] EXCEPT !.as = "approved"])
    \/ /\ Doing(c, "decide") /\ request[c].as # "eligible"
       /\ asked' = request[c].as /\ Finishes(c)
       /\ UNCHANGED <<blob, document, hold, schedule, copies>>

CompleteDeletion(c) ==
    \/ asked = "approved" /\ Begins(c, [op |-> "complete"]) /\ UNCHANGED recordsRows
    \/ /\ Doing(c, "complete") /\ asked' = "completed" /\ Finishes(c)
       /\ UNCHANGED <<blob, document, hold, schedule, copies>>

RecordsNext ==
    \/ DayPasses /\ UNCHANGED recordsRows
    \/ \E c \in Clerks :
         \/ Store(c) \/ RecordScanResult(c) \/ SetLegalHold(c) \/ SetRetention(c)
         \/ PlaceHold(c) \/ ReleaseHold(c) \/ RecordSchedule(c)
         \/ Export(c) \/ ExportToClient(c) \/ RemoveDocument(c)
         \/ RequestDeletion(c) \/ DecideRequest(c) \/ CompleteDeletion(c)
         \/ ClerkDies(c) /\ UNCHANGED recordsRows

RecordsSpec == RecordsInit /\ DeskInit /\ [][RecordsNext]_recordsVars

-----------------------------------------------------------------------------
RecordsTypeOK ==
    /\ document.scan \in {"pending", "clean", "infected"} /\ Cardinality(document.until) <= 1
    /\ asked \in {"none", "received", "approved", "refused", "completed"}
    /\ copies \in Nat /\ Len(schedule) <= Cardinality(Clerks)

\* A document on file can be opened: its row never points at a blob that was
\* not put, though the process that stores it may die (store, storeForClient).
StoredIsReadable == document.stored => blob

\* What was preserved before somebody asked to destroy or export a document,
\* and still is, stops them, whoever places and releases holds meanwhile; and
\* nobody approves a deletion over it (remove, read, decideRequest).
HoldsPreserve ==
    [][\A c \in Clerks : request'[c] = AtRest =>
         /\ Doing(c, "delete") /\ document' # document =>
               request[c].known.matters \intersect Covering = {} /\ ~request[c].known.own
         /\ Doing(c, "export") /\ copies' # copies =>
               request[c].known.matters \intersect Covering = {} /\ ~request[c].known.own
         /\ Doing(c, "decide") /\ asked' = "approved" /\ asked # asked' =>
               request[c].matters \intersect InForce = {}]_recordsVars

\* clientAccess.ts: a client's download is refused under "the same legal-hold
\* rule" as a member of staff's.
HoldsStopExports ==
    [][\A c \in Clerks : copies' # copies /\ request[c] # AtRest /\ request'[c] = AtRest =>
          request[c].known.matters \intersect Covering = {}]_recordsVars
=============================================================================
