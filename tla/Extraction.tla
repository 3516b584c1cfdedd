----------------------------- MODULE Extraction -----------------------------
(***************************************************************************)
(* Reading a selected document in bounded passes (plugins/extraction.py):  *)
(* an adapter yields pages (ocr_extraction.py), a pass keeps as many pages *)
(* and characters as it may and says where the next one resumes, and the   *)
(* passes are merged into one result the workload takes or refuses.        *)
(***************************************************************************)
EXTENDS Integers, Sequences, SequencesExt, TLC

CONSTANTS
    Documents,      \* sequences of pages: characters, whether they are a page
                    \* at all, layout regions that are impossible, scanned or not
    MaxPages,       \* ExtractionLimits.max_pages
    MaxCharacters   \* ExtractionLimits.max_characters

VARIABLES
    document,   \* the selected document
    reading,    \* where extract_all is
    collector,  \* the pass under way
    from,       \* where it resumes, <<1, 0>> at first
    merged,     \* the passes so far
    engine,     \* the recogniser of the adapter: "none", "loaded"
    answer      \* what the workload has

extractionVars == <<document, reading, collector, from, merged, engine, answer>>

\* A resume point: a page and how many of its characters are already read. A
\* piece is a page and its text, the places of the characters taken.
Start == <<1, 0>>
EmptyCollector == [next |-> 1, pieces |-> <<>>, characters |-> 0, lost |-> 0, resume |-> <<>>]
NothingMerged == [pieces |-> <<>>, lost |-> 0, passes |-> 0, outcome |-> "none"]

Init ==
    /\ document \in Documents
    /\ reading = "idle" /\ collector = EmptyCollector /\ from = Start
    /\ merged = NothingMerged /\ engine = "none" /\ answer = "none"

-----------------------------------------------------------------------------
(* One pass.                                                                 *)

\* extract: nothing is read of a file that declares too large an expansion.
Refuse ==
    /\ reading = "idle"
    /\ reading' = "answered" /\ answer' = "extraction-failed"
    /\ UNCHANGED <<document, collector, from, merged, engine>>

BeginPass ==
    /\ reading \in {"idle", "between"}
    /\ reading' = "pass" /\ collector' = EmptyCollector
    /\ UNCHANGED <<document, from, merged, engine, answer>>

\* _offset_for: pages before the resume point are skipped, and its page is
\* entered where the last pass left it.
OffsetFor(i) == IF i < from[1] THEN -1 ELSE IF i = from[1] THEN from[2] ELSE 0

\* _regions, _block, _image_ok: regions come with the beginning of a page, and
\* the impossible ones are dropped and counted.
LostRegions(page, start) == IF start > 0 THEN 0 ELSE page.spoilt

\* _add.
Added(i, start, n) ==
    [collector EXCEPT !.next = i + 1,
                      !.pieces = Append(@, [page |-> i, text |-> [k \in 1..n |-> start + k]]),
                      !.characters = @ + n,
                      !.lost = @ + LostRegions(document[i], start)]

\* Mutant: the resume point forgets where the page was entered.
StopsAtForgetful(i, start, n) == <<i, n>>

\* Where the next pass resumes when a page does not fit.
StopsAt(i, start, n) == <<i, start + n>>

\* _Collector.accept.
Accepted(i) ==
    LET page == document[i]
        start == OffsetFor(i)
        length == page.characters - start
        room == MaxCharacters - collector.characters
    IN  CASE start < 0 -> [collector EXCEPT !.next = i + 1]
          [] start >= 0 /\ ~page.valid -> [collector EXCEPT !.next = i + 1, !.lost = @ + 1]
          [] start >= 0 /\ page.valid /\ Len(collector.pieces) >= MaxPages ->
                [collector EXCEPT !.next = i + 1, !.resume = <<i, start>>]
          [] start >= 0 /\ page.valid /\ Len(collector.pieces) < MaxPages /\ length > room ->
                LET read == IF room > 0 THEN Added(i, start, room) ELSE [collector EXCEPT !.next = i + 1]
                IN  [read EXCEPT !.resume = StopsAt(i, start, room)]
          [] OTHER ->
                IF Added(i, start, length).characters >= MaxCharacters
                THEN [Added(i, start, length) EXCEPT !.resume = <<i + 1, 0>>]
                ELSE Added(i, start, length)

\* VulkanOcrExtractionAdapter.pages: a page without text is rendered and read by
\* the engine, which is built at the first such page.
AcceptPage ==
    LET i == collector.next
    IN  /\ reading = "pass" /\ collector.resume = <<>> /\ i <= Len(document)
        /\ collector' = Accepted(i)
        /\ engine' = IF document[i].scanned THEN "loaded" ELSE engine
        /\ UNCHANGED <<document, reading, from, merged, answer>>

-----------------------------------------------------------------------------
(* The passes.                                                               *)

\* extract: what a pass that read to its end says of itself.
Outcome(c) == IF c.resume # <<>> \/ c.lost > 0 THEN "truncated" ELSE "succeeded"

\* _merge_passes: a page that was split is joined, and what was lost is summed.
Joined(first, second) ==
    IF /\ from[2] > 0 /\ first # <<>> /\ second # <<>>
       /\ Last(first).page = Head(second).page
    THEN Append(Front(first), [Last(first) EXCEPT !.text = @ \o Head(second).text]) \o Tail(second)
    ELSE first \o second
MergePasses(c, outcome) ==
    [pieces |-> Joined(merged.pieces, c.pieces), lost |-> merged.lost + c.lost,
     passes |-> merged.passes + 1, outcome |-> outcome]

\* extract_all: another pass, unless this one ended the document, or did not
\* move.
PassEnds ==
    /\ reading = "pass" /\ (collector.resume # <<>> \/ collector.next > Len(document))
    /\ LET stuck == collector.resume = from
       IN  /\ merged' = MergePasses(collector, IF stuck THEN "truncated" ELSE Outcome(collector))
           /\ IF collector.resume = <<>> \/ stuck
              THEN reading' = "read" /\ UNCHANGED from
              ELSE reading' = "between" /\ from' = collector.resume
    /\ collector' = EmptyCollector
    /\ UNCHANGED <<document, engine, answer>>

\* The deadline of a pass, or its adapter, ends it: what it has is kept.
PassBreaks(outcome) ==
    /\ reading = "pass"
    /\ merged' = MergePasses(collector, outcome)
    /\ reading' = "read" /\ collector' = EmptyCollector
    /\ UNCHANGED <<document, from, engine, answer>>

\* The job is cancelled: nothing is answered.
Cancel ==
    /\ reading = "pass"
    /\ reading' = "answered" /\ answer' = "cancelled" /\ collector' = EmptyCollector
    /\ UNCHANGED <<document, from, merged, engine>>

\* SelectedDocumentReader.read: the workload's refusal, or the text.
Answer ==
    /\ reading = "read"
    /\ reading' = "answered"
    /\ answer' = CASE merged.outcome = "succeeded" -> "text"
                   [] merged.outcome = "truncated" -> "source-truncated"
                   [] OTHER -> "extraction-failed"
    /\ UNCHANGED <<document, collector, from, merged, engine>>

\* The adapter is closed, and another document is selected.
Another ==
    /\ reading = "answered"
    /\ document' \in Documents
    /\ reading' = "idle" /\ collector' = EmptyCollector /\ from' = Start
    /\ merged' = NothingMerged /\ engine' = "none" /\ answer' = "none"

Next ==
    \/ Refuse \/ BeginPass \/ AcceptPage \/ PassEnds \/ Cancel \/ Answer \/ Another
    \/ \E outcome \in {"timed-out", "crashed"} : PassBreaks(outcome)

-----------------------------------------------------------------------------
\* The text a reader who took the whole document at once would have.
ValidPages == SelectSeq([i \in DOMAIN document |-> i], LAMBDA i : document[i].valid)
WholeText == [k \in DOMAIN ValidPages |->
                [page |-> ValidPages[k], text |-> [c \in 1..document[ValidPages[k]].characters |-> c]]]

\* The passes lose and repeat nothing (accept, _merge_passes): wherever the
\* bounds of a pass cut the document, what is merged is its pages in order, each
\* once and from its beginning, all but the last to its end; and the text given
\* to a workload has all of them.
PassesJoin ==
    /\ \A k \in DOMAIN merged.pieces :
          /\ k <= Len(WholeText)
          /\ merged.pieces[k].page = WholeText[k].page
          /\ IsPrefix(merged.pieces[k].text, WholeText[k].text)
          /\ k < Len(merged.pieces) => merged.pieces[k] = WholeText[k]
    /\ answer = "text" => merged.pieces = WholeText

\* Stated by SelectedDocumentReader, "Read one selected document in full, or
\* raise the workload's refusal": what a workload takes as the document lost
\* neither a page nor a region. The outcome of the last pass stands for all of
\* them, so a page that an earlier pass could not use goes unsaid.
ReadInFull == answer = "text" => merged.lost = 0

=============================================================================
