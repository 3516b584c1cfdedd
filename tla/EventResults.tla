---------------------------- MODULE EventResults ----------------------------
(***************************************************************************)
(* What becomes of the events a model extracts: every pass's answer is     *)
(* parsed (events.py), the passes are merged (event_passes.py), the result *)
(* is written as a document (event_workload.py) and later read again by    *)
(* the command line (event_cli.py), where a person decides on every        *)
(* candidate and the confirmed ones go to a new calendar file              *)
(* (event_confirmation.py, event_calendar.py).                             *)
(*                                                                         *)
(* A candidate id is a sequence, so that a suffix can be appended to it;   *)
(* dates and times are numbers, and 0 is one the source does not state.    *)
(***************************************************************************)
EXTENDS Integers, Sequences, SequencesExt, FiniteSets, FiniteSetsExt, Folds

CONSTANTS
    RawEvents,      \* the event documents a model may write
    PassCount,      \* passes of the extraction
    MaxEvents,      \* bound: events in one answer
    MaxId,          \* the longest candidate id the schema admits
    Paths,          \* calendar files a person may name
    Taken,          \* the ones that exist already
    MaxExports      \* bound: export commands

VARIABLES
    extraction, \* "running", "failed", "done"
    parsed,     \* the parsed passes
    merged,     \* the result merge returned
    document,   \* the result document on disk
    calendar,   \* by path: what the file holds
    exports     \* export commands so far

eventVars == <<extraction, parsed, merged, document, calendar, exports>>

NoResult == [outcome |-> "none", events |-> <<>>]
\* A file holds entries; kept and refused are a history: the ids the person
\* confirmed and rejected in the command that wrote it.
File(by, entries, kept, refused) ==
    [by |-> by, entries |-> entries, kept |-> kept, refused |-> refused]
Absent == File("nobody", {}, {}, {})
Foreign == File("person", {}, {}, {})

Init ==
    /\ extraction = "running"
    /\ parsed = <<>> /\ merged = NoResult /\ document = NoResult
    /\ calendar = [p \in Paths |-> IF p \in Taken THEN Foreign ELSE Absent]
    /\ exports = 0

-----------------------------------------------------------------------------
(* Parsing one event document.                                               *)

\* A document leaves out what the source does not state; these are the values
\* an event then has.
Unstated ==
    [time |-> 0, endDate |-> 0, endTime |-> 0, allDay |-> FALSE, zone |-> "none",
     offset |-> FALSE, place |-> [kind |-> "unstated", venue |-> "none", url |-> FALSE],
     repeats |-> {}]

\* _parse_event: every field the document states, the others unstated; what
\* the source was read as is not kept, whatever the evidence says.
ParsedEvent(d) ==
    [f \in DOMAIN d \cup DOMAIN Unstated |->
        IF f = "readAs" THEN "text" ELSE IF f \in DOMAIN d THEN d[f] ELSE Unstated[f]]

\* EventWhen.needs: what the person must still supply.
Needs(e) ==
    {n \in {"date", "time", "timezone"} :
        CASE n = "date" -> e.date = 0
          [] n = "time" -> e.time = 0 /\ ~e.allDay
          [] n = "timezone" -> e.zone = "none" /\ e.time # 0}

Placeable(e) == e.date # 0

\* _check_when.
WhenValid(e) ==
    /\ e.allDay => e.time = 0
    /\ e.endDate # 0 /\ e.date # 0 => e.endDate >= e.date
    /\ e.endTime # 0 /\ e.time # 0 /\ e.endDate \in {0, e.date} => e.endTime > e.time
    /\ e.zone # "unheard-of"
    /\ e.offset => Placeable(e)

\* _parse_place.
PlaceValid(place) ==
    CASE place.kind = "online" -> place.url
      [] place.kind = "physical" -> place.venue # "none"
      [] place.kind = "unknown" -> ~place.url /\ place.venue = "none"
      [] place.kind = "unstated" -> TRUE

\* _parse_recurrence: COUNT or UNTIL, never both.
RecurrenceValid(rule) == ~("count" \in rule /\ "until" \in rule)

\* _parse_evidence.
EvidenceValid(e) == e.spanEnd > e.spanStart

\* The event is one the schema and the parser admit.
EventValid(e) ==
    /\ WhenValid(e) /\ PlaceValid(e.place) /\ RecurrenceValid(e.repeats) /\ EvidenceValid(e)
    /\ Len(e.id) <= MaxId

\* Mutant: the place is not part of the identity of an event.
DuplicateKeyPlaceless(e) == <<e.label, e.date, e.time, "anywhere">>

\* duplicate_key: label, date, time and place.
DuplicateKey(e) ==
    <<e.label, e.date, e.time, IF e.place.kind = "unstated" THEN "none" ELSE e.place.venue>>

\* Keep the first of each key.
KeepFirst(events) ==
    FoldLeft(LAMBDA kept, e :
                IF \E i \in DOMAIN kept : DuplicateKey(kept[i]) = DuplicateKey(e)
                THEN kept ELSE Append(kept, e),
             <<>>, events)

\* _result_state: a refusal holds no event, anything else holds some, pending.
StateValid(doc) ==
    IF doc.outcome = "refused" THEN doc.events = <<>> /\ doc.state = "refused"
    ELSE doc.events # <<>> /\ doc.state = "pending"

\* parse_grounded_event_result accepts the document ...
Parses(doc) ==
    /\ StateValid(doc)
    /\ \A i \in DOMAIN doc.events :
          /\ doc.events[i].confirmation = "pending"
          /\ EventValid(ParsedEvent(doc.events[i]))
          /\ \A k \in DOMAIN doc.events : doc.events[k].id = doc.events[i].id => k = i

\* ... and returns this.
ParsedResult(doc) ==
    [outcome |-> doc.outcome,
     events |-> KeepFirst([i \in DOMAIN doc.events |-> ParsedEvent(doc.events[i])])]

-----------------------------------------------------------------------------
(* Merging the passes.                                                       *)

\* _with_unique_id: the first free suffix.
WithUniqueId(e, taken) ==
    IF e.id \notin taken THEN e
    ELSE LET suffixed(n) == Append(e.id, n)
         IN  [e EXCEPT !.id = suffixed(Min({n \in 2..(Cardinality(taken) + 2) :
                                              suffixed(n) \notin taken}))]

Ids(events) == {events[i].id : i \in DOMAIN events}

\* merge: the events of every pass in order, keep-first across passes.
Merge(results) ==
    LET all == FlattenSeq([i \in DOMAIN results |-> results[i].events])
        events == FoldLeft(LAMBDA kept, e : Append(kept, WithUniqueId(e, Ids(kept))),
                           <<>>, KeepFirst(all))
    IN  [outcome |-> IF events = <<>> THEN "refused"
                     ELSE IF \E i \in DOMAIN results : results[i].outcome = "partial"
                     THEN "partial" ELSE "succeeded",
         events |-> events]

-----------------------------------------------------------------------------
(* The document.                                                             *)

\* GroundedEventResult.confirmation_state.
ConfirmationState(result) ==
    LET states == {result.events[i].confirmation : i \in DOMAIN result.events}
    IN  IF result.outcome = "refused" THEN "refused"
        ELSE IF states \subseteq {"pending"} THEN "pending"
        ELSE IF states = {"confirmed"} THEN "confirmed" ELSE "mixed"

\* _when_document, _place_document, _recurrence_document and the others write
\* a field only when it has a value.
StatedFields(e) == {f \in DOMAIN e : f \notin DOMAIN Unstated \/ e[f] # Unstated[f]}

\* _event_document; what is needed is worked out again, not copied.
EventDocument(e) ==
    [f \in StatedFields(e) |-> IF f = "needs" THEN Needs(e) ELSE e[f]]

\* grounded_event_document.
Document(result) ==
    [outcome |-> result.outcome, state |-> ConfirmationState(result),
     events |-> [i \in DOMAIN result.events |-> EventDocument(result.events[i])]]

\* The schema bounds every candidate id.
DocumentValid(doc) == \A i \in DOMAIN doc.events : Len(doc.events[i].id) <= MaxId

-----------------------------------------------------------------------------
(* The extraction.                                                           *)

Answers ==
    [outcome : {"succeeded", "partial", "refused"}, state : {"pending", "refused"},
     events : BoundedSeq(RawEvents, MaxEvents)]

\* One pass: generate, then parse_grounded_event_result.
PassAnswers(answer) ==
    /\ extraction = "running" /\ Len(parsed) < PassCount
    /\ IF Parses(answer)
       THEN parsed' = Append(parsed, ParsedResult(answer)) /\ UNCHANGED extraction
       ELSE extraction' = "failed" /\ UNCHANGED parsed
    /\ UNCHANGED <<merged, document, calendar, exports>>

\* The rest of _extract_events.
Finish ==
    /\ extraction = "running" /\ Len(parsed) = PassCount
    /\ LET result == Merge(parsed)
       IN  IF DocumentValid(Document(result))
           THEN extraction' = "done" /\ merged' = result /\ document' = Document(result)
           ELSE extraction' = "failed" /\ UNCHANGED <<merged, document>>
    /\ UNCHANGED <<parsed, calendar, exports>>

-----------------------------------------------------------------------------
(* The person decides.                                                       *)

\* confirm_event_candidates, _decision_ids: exactly one decision each.
Confirmable(result, confirmed, rejected) ==
    /\ result.outcome # "refused"
    /\ confirmed \cap rejected = {}
    /\ confirmed \cup rejected = Ids(result.events)

Decided(result, rejected) ==
    [i \in DOMAIN result.events |->
        [result.events[i] EXCEPT !.confirmation = IF result.events[i].id \in rejected
                                                  THEN "rejected" ELSE "confirmed"]]

\* Mutant: a rejected candidate is rendered with the others.
ConfirmedEventsAll(events) == events

\* _confirmed_events.
ConfirmedEvents(events) == SelectSeq(events, LAMBDA e : e.confirmation = "confirmed")

\* _ics_moment.
Moment(date, time, zone) ==
    IF time = 0 THEN <<"date", date, 0, "none">>
    ELSE IF zone \in {"none", "floating"} THEN <<"local", date, time, "none">>
    ELSE <<"zoned", date, time, zone>>

\* calendar_component: an event without a date is a task.
CalendarComponent(e) ==
    LET endDate == IF e.endDate # 0 THEN e.endDate ELSE IF e.endTime # 0 THEN e.date ELSE 0
    IN  IF ~Placeable(e)
        THEN [kind |-> "VTODO", uid |-> <<e.id, e.date, e.time>>, summary |-> e.label,
              start |-> Moment(0, 0, "none"), end |-> Moment(0, 0, "none"), rule |-> {}]
        ELSE [kind |-> "VEVENT", uid |-> <<e.id, e.date, e.time>>, summary |-> e.label,
              start |-> Moment(e.date, e.time, e.zone),
              end |-> IF endDate = 0 THEN Moment(0, 0, "none")
                      ELSE Moment(endDate, e.endTime, e.zone),
              rule |-> e.repeats]

\* render_confirmed_ics.
Rendered(events) == {CalendarComponent(events[i]) : i \in DOMAIN events}

\* Mutant: an existing file is replaced.
WriteNewReplacing(p) == TRUE

\* _write_new: an existing file is never replaced.
WriteNew(p) == calendar[p] = Absent

\* The export command: read the document again, confirm, render, write.
Export(confirmed, rejected, p) ==
    LET result == ParsedResult(document)
        chosen == ConfirmedEvents(Decided(result, rejected))
    IN  /\ extraction = "done" /\ exports < MaxExports
        /\ exports' = exports + 1
        /\ IF /\ Parses(document)
              /\ Confirmable(result, confirmed, rejected)
              /\ chosen # <<>>
              /\ WriteNew(p)
           THEN calendar' = [calendar EXCEPT
                                  ![p] = File("export", Rendered(chosen), confirmed, rejected)]
           ELSE UNCHANGED calendar
        /\ UNCHANGED <<extraction, parsed, merged, document>>

Next ==
    \/ \E answer \in Answers : PassAnswers(answer)
    \/ Finish
    \/ \E confirmed \in SUBSET Ids(document.events), p \in Paths :
          \E rejected \in {Ids(document.events) \ confirmed, Ids(document.events), {}} :
             Export(confirmed, rejected, p)

-----------------------------------------------------------------------------
\* Merging loses and invents nothing (merge, _with_unique_id): the result holds,
\* in order, exactly the events of the passes that no earlier event repeats,
\* under ids that are all different, and only the id of a later event changed.
MergeIsKeepFirst ==
    extraction = "done" =>
        LET all == FlattenSeq([i \in DOMAIN parsed |-> parsed[i].events])
            same(e, f) == e.label = f.label /\ e.date = f.date /\ e.time = f.time
                          /\ e.place.venue = f.place.venue
            firsts == {i \in DOMAIN all : \A k \in 1..(i - 1) : ~same(all[k], all[i])}
            order == SetToSortSeq(firsts, LAMBDA a, b : a < b)
        IN  /\ Len(merged.events) = Len(order)
            /\ Cardinality(Ids(merged.events)) = Len(merged.events)
            /\ \A i \in DOMAIN order :
                  LET e == merged.events[i] f == all[order[i]]
                  IN  e = [f EXCEPT !.id = e.id] /\ IsPrefix(f.id, e.id)

\* What is exported is what was extracted and decided (event_cli.main): the
\* document the command line reads back is the merged result, nothing dropped
\* or refused on the way; a calendar file it wrote holds the components of
\* exactly the events the person confirmed and of none that was rejected,
\* every candidate having been decided one way; a file that was there before
\* is untouched.
ExportIsDecided ==
    /\ extraction = "done" =>
          /\ Parses(document)
          /\ LET again == ParsedResult(document)
             IN  /\ Len(again.events) = Len(merged.events)
                 /\ \A i \in DOMAIN again.events :
                       again.events[i] = [merged.events[i] EXCEPT !.needs = Needs(merged.events[i])]
    /\ \A p \in Taken : calendar[p] = Foreign
    /\ \A p \in Paths :
          calendar[p].by = "export" =>
              LET kept == calendar[p].kept
                  event(id) == CHOOSE e \in Range(merged.events) : e.id = id
              IN  /\ kept \cap calendar[p].refused = {}
                  /\ kept \cup calendar[p].refused = Ids(merged.events)
                  /\ calendar[p].entries = {CalendarComponent(event(id)) : id \in kept}

\* Events reach a calendar once and as decided: merging passes keeps the first of each duplicate,
\* and a calendar file holds exactly the confirmed candidates and replaces no other (merge,
\* event_cli.main).
EventsSound == MergeIsKeepFirst /\ ExportIsDecided

=============================================================================
