----------------------------- MODULE Collection -----------------------------
(***************************************************************************)
(* Host metadata: the trigger queue of one plugin (plugins/triggers.py)    *)
(* and the bounded collector it drives (plugins/collection.py and the      *)
(* collectors derived from it).  A collection awaits its source, and for   *)
(* resources a kernel aggregate after it; grants are withdrawn, sessions   *)
(* change and events arrive meanwhile.  What a source answers is           *)
(* arbitrary.                                                              *)
(***************************************************************************)
EXTENDS Integers, Sequences, SequencesExt, FiniteSets, TLC

CONSTANTS
    Families,   \* the collectors: "storage", "hardware", "resource", "desktop", ...
    Ids,        \* stable identities
    Allowlist,    \* the allowlist
    Samples,    \* what a source may say: [present, value, second]
    Events,     \* ids of manual and event triggers
    MaxPending, \* DEFAULT_MAX_PENDING_TRIGGERS
    MaxItems,   \* MAX_COLLECTED_ITEMS
    MaxTriggers,\* bound: triggers submitted, periods ticked
    MaxChanges  \* bound: grants and sessions changed

\* A sample says whether the item is there.
SamplesAssumption == \A s \in Samples : s.there \in BOOLEAN

VARIABLES
    family,     \* which collector it is
    queue,      \* TriggerCoordinator._pending
    keys,       \* _pending_keys
    period,     \* sequence of the periodic registration
    collecting, \* the collection under way
    previous,   \* BoundedCollector._previous
    granted,    \* what the permission gate allows
    told,       \* the output before the last, as the churn of the last one amends it
    shown,      \* the last output: its items, the ids it could speak of, and those
                \* of them whose churn an output refused before it had taken
    unsaid,     \* ids whose churn only refused outputs told, since the last output
    owed,       \* triggers accepted whose collection has not begun
    triggers, withdrawals

collectionVars == <<family, queue, keys, period, collecting, previous, granted, told, shown, unsaid,
                    owed, triggers, withdrawals>>

Unread == -1
NoSample == [present |-> FALSE, value |-> Unread, second |-> 0, there |-> FALSE]
Nothing == [i \in Ids |-> NoSample]
Idle == [stage |-> "idle", items |-> Nothing, scope |-> {}, churn |-> {}]
NotShown == [items |-> Nothing, scope |-> {}, unsaid |-> {}]
MaxValue == 1   \* the largest reading a family accepts

Init ==
    /\ family \in Families
    /\ queue = <<>> /\ keys = {} /\ period = 0
    /\ collecting = Idle /\ previous = Nothing
    /\ granted = {"metadata", "consent"} \cup Ids
    /\ told = Nothing /\ shown = NotShown /\ unsaid = {}
    /\ owed = {} /\ triggers = 0 /\ withdrawals = 0

-----------------------------------------------------------------------------
(* TriggerCoordinator.                                                       *)

\* submit: what is already pending is coalesced, and a full queue refuses.
Submit(key) ==
    /\ triggers < MaxTriggers /\ triggers' = triggers + 1
    /\ IF key \in keys
       THEN owed' = owed \cup {key} /\ UNCHANGED <<queue, keys>>
       ELSE IF Len(queue) >= MaxPending
       THEN UNCHANGED <<owed, queue, keys>>
       ELSE owed' = owed \cup {key} /\ queue' = Append(queue, key) /\ keys' = keys \cup {key}
    /\ UNCHANGED <<family, collecting, previous, granted, told, shown, unsaid, withdrawals>>

\* submit_manual, submit_event.
SubmitEvent(e) == Submit(<<"event", e>>) /\ UNCHANGED period

\* tick: the sequence moves on whether or not the queue takes the trigger.
Tick == Submit(<<"periodic", ToString(period + 1)>>) /\ period' = period + 1

\* Mutant: the key is held until the collection is over.
KeysAfterHeld(key) == keys

\* collect_next forgets the key before it collects.
KeysAfter(key) == keys \ {key}

\* _ungranted: the metadata permission, and the consent of the desktop.
Ungranted == "metadata" \notin granted \/ (family = "desktop" /\ "consent" \notin granted)

\* collect_next, and collect up to its first await.
CollectNext ==
    /\ collecting.stage = "idle" /\ queue # <<>>
    /\ queue' = Tail(queue) /\ keys' = KeysAfter(Head(queue))
    /\ owed' = owed \ {Head(queue)}
    /\ collecting' = IF Ungranted THEN Idle ELSE [Idle EXCEPT !.stage = "reading"]
    /\ UNCHANGED <<family, period, previous, granted, told, shown, unsaid, triggers, withdrawals>>

-----------------------------------------------------------------------------
(* The samples of each family.                                               *)

InRange(v) == v \in 0..MaxValue

\* An absent device carries no reading; others are bounded.
StorageOK(s) == IF s.present THEN s.value = Unread \/ InRange(s.value) ELSE s.value = Unread
\* A missing sensor carries no value, and a present one does.
HardwareOK(s) == IF s.present THEN InRange(s.value) ELSE s.value = Unread
\* "full" pressure does not exceed "some" pressure.
ResourceOK(s) == (s.value = Unread \/ InRange(s.value)) /\ s.second <= s.value
\* Geometry in range, and nothing of what a window shows.
DesktopOK(s) == InRange(s.value) /\ s.second = 0
\* Counters in range, and nothing observed after the snapshot was taken.
NetworkOK(s) == InRange(s.value) /\ s.second = 0
PeripheralOK(s) == (s.value = Unread \/ InRange(s.value)) /\ s.second = 0

SampleOK(s) ==
    CASE family = "storage" -> StorageOK(s)
      [] family = "hardware" -> HardwareOK(s)
      [] family = "resource" -> ResourceOK(s)
      [] family = "desktop" -> DesktopOK(s)
      [] family = "network" -> NetworkOK(s)
      [] OTHER -> PeripheralOK(s)

\* changed_fields: every field of a sample but the time it was taken.
Changed(old, new) ==
    \/ old.present # new.present \/ old.value # new.value
    \/ family = "resource" /\ old.second # new.second

\* What two outputs would say of an item is not the same.
Differs(old, new) == old.there # new.there \/ (new.there /\ Changed(old, new))

\* item_permission: every family but the desktop has a grant for each item.
ItemAllowed(i) == family = "desktop" \/ i \in granted

\* require_allowlist: of links and peripherals nothing is emitted unasked.
AllowlistRequired == family \in {"network", "peripheral"}

\* _may_emit.
MayEmit(i) == ((AllowlistRequired \/ Allowlist # {}) => i \in Allowlist) /\ ItemAllowed(i)

\* _churn, over what was and is eligible.
Churn(before, now) ==
    [added   |-> {i \in Ids : now[i].there /\ ~before[i].there},
     removed |-> {i \in Ids : before[i].there /\ ~now[i].there},
     changed |-> {i \in Ids : before[i].there /\ now[i].there /\ Changed(before[i], now[i])}]

-----------------------------------------------------------------------------
(* BoundedCollector.collect, from await to await.                            *)

\* Mutant: what was read is remembered before it is emitted.
RememberedOnceRead(items) == items

\* _previous is replaced only by what was emitted.
Remembered(items) == previous

\* The snapshot is validated, narrowed to what may be emitted, and compared.
ReadSnapshot(seen) ==
    LET valid == \A i \in Ids : seen[i].there => SampleOK(seen[i])
        may == {i \in Ids : MayEmit(i)}
        items == [i \in Ids |-> IF i \in may THEN seen[i] ELSE NoSample]
        before == [i \in Ids |-> IF i \in may THEN previous[i] ELSE NoSample]
    IN  /\ collecting.stage = "reading"
        /\ IF valid /\ Cardinality({i \in Ids : items[i].there}) <= MaxItems
           THEN /\ collecting' = [stage |-> "writing", items |-> items, scope |-> may,
                                  churn |-> Churn(before, items)]
                /\ previous' = Remembered(items)
           ELSE collecting' = Idle /\ UNCHANGED previous
        /\ UNCHANGED <<family, queue, keys, period, granted, told, shown, unsaid, owed, triggers,
                       withdrawals>>

\* The document is extended, validated against its schema and returned; only
\* then is the state it was compared with replaced.
Emit ==
    /\ collecting.stage = "writing"
    /\ previous' = collecting.items
    /\ told' = [i \in Ids |->
                   IF i \in collecting.churn.added \cup collecting.churn.changed
                   THEN collecting.items[i]
                   ELSE IF i \in collecting.churn.removed THEN NoSample ELSE shown.items[i]]
    /\ shown' = [items |-> collecting.items, scope |-> collecting.scope, unsaid |-> unsaid]
    /\ unsaid' = {}
    /\ collecting' = Idle
    /\ UNCHANGED <<family, queue, keys, period, granted, owed, triggers, withdrawals>>

\* collect_next measures what collect returned, and refuses an output over
\* max_trigger_bytes: nobody is given it, and its churn is not told again.
EmitTooLarge ==
    /\ collecting.stage = "writing"
    /\ previous' = collecting.items
    /\ unsaid' = unsaid \cup {i \in Ids : Differs(previous[i], collecting.items[i])}
    /\ collecting' = Idle
    /\ UNCHANGED <<family, queue, keys, period, granted, told, shown, owed, triggers, withdrawals>>

\* The source or its kernel aggregate raises, the document does not fit its
\* schema, or the coordinator's time is up.
CollectFails ==
    /\ collecting.stage \in {"reading", "writing"}
    /\ collecting' = Idle
    /\ UNCHANGED <<family, queue, keys, period, previous, granted, told, shown, unsaid,
                   owed, triggers, withdrawals>>

-----------------------------------------------------------------------------
(* The person.                                                               *)

\* A grant is given or withdrawn.
Regrant(p) ==
    /\ withdrawals < MaxChanges /\ withdrawals' = withdrawals + 1
    /\ granted' = IF p \in granted THEN granted \ {p} ELSE granted \cup {p}
    /\ UNCHANGED <<family, queue, keys, period, collecting, previous, told, shown, unsaid, owed,
                   triggers>>

\* DesktopContextCollector.session_changed; nothing of before is compared with.
SessionChanged ==
    /\ family = "desktop" /\ withdrawals < MaxChanges /\ withdrawals' = withdrawals + 1
    /\ collecting.stage # "writing"     \* no await lies between a snapshot and its output
    /\ previous' = Nothing /\ told' = Nothing /\ shown' = NotShown /\ unsaid' = {}
    /\ UNCHANGED <<family, queue, keys, period, collecting, granted, owed, triggers>>

Next ==
    \/ \E e \in Events : SubmitEvent(e)
    \/ Tick \/ CollectNext
    \/ \E seen \in [Ids -> Samples \cup {NoSample}] : ReadSnapshot(seen)
    \/ Emit \/ EmitTooLarge \/ CollectFails \/ SessionChanged
    \/ \E p \in {"metadata", "consent"} \cup Ids : Regrant(p)

Spec == Init /\ [][Next]_collectionVars

-----------------------------------------------------------------------------
\* Coalescing loses nothing (submit, collect_next): a trigger that was accepted
\* or coalesced is still queued until a collection begins, so what an event
\* announced is read after it, however collections and events interleave.
NoEventMissed == \A key \in owed : Contains(queue, key)

\* "Churn is transactional: invalid snapshots or output construction failures
\* must not replace the last successfully emitted state" (collect): whatever
\* failed, was withdrawn or granted again between outputs, one output amended by
\* the churn of the next is the next, for every item it could speak of.  One
\* failure does replace that state: an output collect made and collect_next then
\* refused for its size takes its churn with it, and of nothing else is any lost.
ChurnIsTransactional ==
    \A i \in shown.scope \ shown.unsaid : ~Differs(told[i], shown.items[i])

\* A collector misses nothing and repeats nothing: every event leads to a collection after it, and
\* churn is told exactly once or kept, but for that of an output refused for its size (the trigger
\* coordinator and the collectors).
CollectionSound == NoEventMissed /\ ChurnIsTransactional

=============================================================================
