-------------------------------- MODULE Calls --------------------------------
(***************************************************************************)
(* One call with a client, packages/calls: whether it may be recorded, the *)
(* transcript that arrives from outside, the promises found in it, and the *)
(* correction each of them obliges somebody to make.  An obligation and    *)
(* the task that brings it to its owner are two writes.                    *)
(***************************************************************************)
EXTENDS Desk, Sequences

CONSTANTS Sentences,     \* what can be said
          Fires,         \* Fires[s]: the detectors whose pattern s matches
          Transcripts    \* sets of turns [side, says]

\* The severity of each detector of detect.ts.
PromiseDetectors ==
    [amount_capability |-> "critical", approval_prediction |-> "critical",
     guarantee |-> "critical", timeline_commitment |-> "serious",
     rate_or_term_quote |-> "serious"]

ASSUME CallsAssumption ==
    /\ Fires \in [Sentences -> SUBSET DOMAIN PromiseDetectors]
    /\ \A t \in Transcripts : t # {} /\ \A turn \in t : turn.says \in Sentences

VARIABLES regime,        \* recording rule of the state the client is in
          consents,      \* the client's call_recording rows
          call,          \* the CallRecord row
          owed,          \* CorrectionObligation rows in the order of their creation
          queued,        \* positions in owed whose task is in the owner's queue
          heard,         \* history: the transcripts that were analysed to the end
          lostTask       \* history: a process died between an obligation and its task

callsRows == <<regime, consents, call, owed, queued, heard, lostTask>>
callsVars == <<callsRows, deskVars>>

\* basis is consentBasis: whether a recording was allowed that day.
NoCall == [status |-> "none", basis |-> "none", transcript |-> {}]

CallsInit ==
    /\ regime \in {"all_party", "one_party", "unclassified"}
    /\ consents \in SUBSET {[revoked |-> FALSE, expires |-> e] : e \in {{}, {LastDay}}}
    /\ call = NoCall /\ owed = <<>> /\ queued = {} /\ heard = {} /\ lostTask = FALSE

ClientConsentRequired == regime # "one_party"

\* As of the moment the call is said to have started.
Authorizes(consent, startedAt) ==
    ~consent.revoked /\ \A day \in consent.expires : day > startedAt

MayRecord(startedAt) ==
    ClientConsentRequired => \E consent \in consents : Authorizes(consent, startedAt)

RevokeRecordingConsent ==
    \E consent \in consents :
        /\ ~consent.revoked
        /\ consents' = (consents \ {consent}) \union {[consent EXCEPT !.revoked = TRUE]}
        /\ UNCHANGED <<regime, call, owed, queued, heard, lostTask, deskVars>>

\* There is a record either way: that a recording was refused is evidence.
BeginCall(c) ==
    \/ /\ call = NoCall /\ \A d \in Clerks : ~Doing(d, "open") /\ UNCHANGED callsRows
       /\ \E startedAt \in 0..today :
             Begins(c, [op |-> "open", permitted |-> MayRecord(startedAt)])
    \/ /\ Doing(c, "open") /\ Finishes(c)
       /\ call' = IF request[c].permitted
                  THEN [call EXCEPT !.status = "recording", !.basis = "allowed"]
                  ELSE [call EXCEPT !.status = "consent_refused", !.basis = "refused"]
       /\ UNCHANGED <<regime, consents, owed, queued, heard, lostTask>>

\* Replaces the transcript there was, analysed or not.
AttachTranscript(c) ==
    \/ /\ call.status \notin {"none", "consent_refused"} /\ UNCHANGED callsRows
       /\ \E t \in Transcripts : Begins(c, [op |-> "attach", transcript |-> t])
    \/ /\ Doing(c, "attach") /\ Finishes(c)
       /\ call' = [call EXCEPT !.status = "captured", !.transcript = request[c].transcript]
       /\ UNCHANGED <<regime, consents, owed, queued, heard, lostTask>>

\* Of the detectors that fire on one sentence the worst counts.
SeverityOf(sentence) ==
    IF \E kind \in Fires[sentence] : PromiseDetectors[kind] = "critical"
    THEN "critical" ELSE "serious"

\* Only what our side said, each sentence once.
DetectPromises(transcript) ==
    {s \in {turn.says : turn \in {u \in transcript : u.side = "internal"}} : Fires[s] # {}}

\* CORRECTION_WINDOW_HOURS in days.
CorrectionWindow == [critical |-> 1, serious |-> 3, notable |-> 7]

Obligation(sentence, on) ==
    [excerpt |-> sentence, raised |-> on, status |-> "open",
     due |-> on + CorrectionWindow[SeverityOf(sentence)]]

Owed == {owed[i].excerpt : i \in DOMAIN owed}

\* Mutant: analysing again raises every promise again.
EveryPromise(transcript) == DetectPromises(transcript)

Unseen(transcript) == DetectPromises(transcript) \ Owed

\* The findings are taken in the order they were spoken; any order here.
AnalyseCall(c) ==
    \/ /\ call.transcript # {} /\ UNCHANGED callsRows
       /\ Begins(c, [op |-> "detect", transcript |-> call.transcript, now |-> today])
    \/ /\ Doing(c, "detect") /\ UNCHANGED callsRows
       /\ GoesOn(c, [op |-> "raise", transcript |-> request[c].transcript, now |-> request[c].now,
                     todo |-> Unseen(request[c].transcript)])
    \/ /\ Doing(c, "raise")
       /\ \E s \in request[c].todo :
             /\ owed' = Append(owed, Obligation(s, request[c].now))
             /\ GoesOn(c, [op |-> "assign", transcript |-> request[c].transcript,
                           now |-> request[c].now, todo |-> request[c].todo \ {s},
                           row |-> Len(owed) + 1])
       /\ UNCHANGED <<regime, consents, call, queued, heard, lostTask>>
    \/ /\ Doing(c, "assign") /\ queued' = queued \union {request[c].row}
       /\ GoesOn(c, [op |-> "raise", transcript |-> request[c].transcript,
                     now |-> request[c].now, todo |-> request[c].todo])
       /\ UNCHANGED <<regime, consents, call, owed, heard, lostTask>>
    \/ /\ Doing(c, "raise") /\ request[c].todo = {} /\ Finishes(c)
       /\ call' = [call EXCEPT !.status = "analysed"]
       /\ heard' = heard \union {request[c].transcript}
       /\ UNCHANGED <<regime, consents, owed, queued, lostTask>>

\* recordCorrection and dismissObligation (by a human at level 3).
CloseObligation(c) ==
    \/ /\ UNCHANGED callsRows
       /\ \E i \in DOMAIN owed, how \in {"corrected", "dismissed"} :
             owed[i].status = "open" /\ Begins(c, [op |-> "close", row |-> i, how |-> how])
    \/ /\ Doing(c, "close") /\ Finishes(c)
       /\ owed' = [owed EXCEPT ![request[c].row].status = request[c].how]
       /\ UNCHANGED <<regime, consents, call, queued, heard, lostTask>>

AnalystDies(c) == /\ ClerkDies(c) /\ lostTask' = (lostTask \/ Doing(c, "assign"))
                  /\ UNCHANGED <<regime, consents, call, owed, queued, heard>>

CallsNext ==
    \/ DayPasses /\ UNCHANGED callsRows
    \/ RevokeRecordingConsent
    \/ \E c \in Clerks : \/ BeginCall(c) \/ AttachTranscript(c) \/ AnalyseCall(c)
                         \/ CloseObligation(c) \/ AnalystDies(c)

-----------------------------------------------------------------------------
CallsTypeOK ==
    /\ call.status \in {"none", "consent_refused", "recording", "captured", "analysed"}
    /\ call.transcript \in Transcripts \union {{}}
    /\ queued \subseteq DOMAIN owed

\* What was not allowed to be recorded leaves no trace of what was said, though
\* revocation, transcript and analysis may come in any order (beginCall,
\* attachTranscript, analyseCall).
RefusedLeavesNoTrace ==
    \/ call.basis = "allowed"
    \/ call.status \in {"none", "consent_refused"} /\ call.transcript = {} /\ owed = <<>>

\* Every promise heard has somebody who owes its correction, whoever analysed
\* the call, died in it, or closed some of it meanwhile; and that person's
\* queue has it unless a process died, or is, between the two writes
\* (analyseCall, raiseObligations).
PromisesAreOwed ==
    /\ \A t \in heard : DetectPromises(t) \subseteq Owed
    /\ \/ lostTask
       \/ \A i \in DOMAIN owed \ queued : \E c \in Clerks : Doing(c, "assign") /\ request[c].row = i

\* Analysing again does not owe a sentence again: it is owed at most once for
\* every analysis that was under way at once (raiseObligations: idempotent per
\* call and excerpt).
OwedOncePerAnalysis ==
    \A s \in Sentences :
        Cardinality({i \in DOMAIN owed : owed[i].excerpt = s}) <= Cardinality(Clerks)

\* A misstated amount is corrected within a day, whichever detectors fired on
\* the same sentence (CORRECTION_WINDOW_HOURS, detectPromises).
WorstSetsTheDate ==
    \A i \in DOMAIN owed :
        \A kind \in Fires[owed[i].excerpt] :
            owed[i].due <= owed[i].raised + CorrectionWindow[PromiseDetectors[kind]]
=============================================================================
