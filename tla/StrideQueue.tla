----------------------------- MODULE StrideQueue -----------------------------
(***************************************************************************)
(* stride.StrideQueue: per-key FIFO queues served in stride order.  The    *)
(* pending key with the smallest pass is served and its pass advances by   *)
(* 1/weight.  Shared by the plugin admission pool and the accelerator      *)
(* lanes of the scheduler.                                                 *)
(*                                                                         *)
(* A queue is a record of the class's three tables.  Every operation       *)
(* prunes a key it drains, so the tables always hold the same keys: an     *)
(* absent key is one whose items are <<>> and whose pass is 0.             *)
(*                                                                         *)
(* Passes are counted in sixtieths (60 = lcm of the weights 1..5), so the  *)
(* model's arithmetic is exact where the code's is floating point.         *)
(***************************************************************************)
EXTENDS Integers, FiniteSets, Sequences, SequencesExt

MaxStrideWeight == 5
FullStride == 60

\* _stride_weight, for the integers policy can supply
StrideWeight(w) ==
    IF w < 1 THEN 1 ELSE IF w > MaxStrideWeight THEN MaxStrideWeight ELSE w

Stride(w) == FullStride \div StrideWeight(w)

EmptyQueue(keys) ==
    [items |-> [k \in keys |-> <<>>], order |-> <<>>, passes |-> [k \in keys |-> 0]]

Queues(keys, values) ==
    [items : [keys -> Seq(values)], order : Seq(keys), passes : [keys -> Nat]]

\* The keys of `items`.
Present(q) == {k \in DOMAIN q.items : q.items[k] # <<>>}

\* One cell per queued item; depth() is their number.
Cells(q) == UNION {{k} \X DOMAIN q.items[k] : k \in DOMAIN q.items}

Depth(q) == Cardinality(Cells(q))

\* The smallest pass of some keys, 0 when there are none.
VirtualTime(q, keys) ==
    IF keys = {} THEN 0 ELSE Min({q.passes[k] : k \in keys})

\* Sequence s with its one occurrence of x, if any, removed.
Without(s, x) ==
    IF \E i \in DOMAIN s : s[i] = x
    THEN RemoveAt(s, CHOOSE i \in DOMAIN s : s[i] = x)
    ELSE s

\* A newcomer joins at virtual time.
Push(q, k, x) ==
    IF k \in Present(q)
    THEN [q EXCEPT !.items[k] = Append(@, x)]
    ELSE [items  |-> [q.items EXCEPT ![k] = <<x>>],
          order  |-> Append(q.order, k),
          passes |-> [q.passes EXCEPT ![k] = VirtualTime(q, Present(q))]]

Prune(q, k) ==
    [items  |-> [q.items EXCEPT ![k] = <<>>],
     order  |-> Without(q.order, k),
     passes |-> [q.passes EXCEPT ![k] = 0]]

\* The queue with items s left under k, pruned when that is none.
Leaving(q, k, s) ==
    IF s = <<>> THEN Prune(q, k) ELSE [q EXCEPT !.items[k] = s]

\* Mutant: the whole profile leaves with one waiter.
DiscardWholeKey(q, k, x) == IF k \in Present(q) THEN Prune(q, k) ELSE q

Discard(q, k, x) ==
    IF k \in Present(q) THEN Leaving(q, k, Without(q.items[k], x)) ELSE q

\* k comes before l in the order keys first queued.
Precedes(q, k, l) ==
    \E m, n \in DOMAIN q.order : q.order[m] = k /\ q.order[n] = l /\ m < n

\* choose(): k is the pending key with the smallest (pass, order index).
IsNext(q, admitted, k) ==
    /\ k \in Present(q) \cap admitted
    /\ \A l \in (Present(q) \cap admitted) \ {k} :
        \/ q.passes[k] < q.passes[l]
        \/ q.passes[k] = q.passes[l] /\ Precedes(q, k, l)

\* Mutant: the pass moves the wrong way.
ChargedBackwards(q, k, w) == [q EXCEPT !.passes[k] = @ - Stride(w)]

\* Mutant: a serve costs the weight instead of its inverse.
ChargedByWeight(q, k, w) == [q EXCEPT !.passes[k] = @ + w * FullStride]

Charged(q, k, w) == [q EXCEPT !.passes[k] = @ + Stride(w)]

\* clamp_held_out(): a refused key is lifted to virtual time, never lowered.
ClampHeldOut(q, admitted) ==
    LET pending == Present(q) \cap admitted
        now == VirtualTime(q, pending)
        Held(k) == pending # {} /\ k \in Present(q) \ admitted /\ q.passes[k] < now
    IN  [q EXCEPT !.passes = [k \in DOMAIN @ |-> IF Held(k) THEN now ELSE @[k]]]

\* pop(), once choose() has settled on k: the queue it leaves.
Popped(q, admitted, k, w) ==
    Leaving(ClampHeldOut(Charged(q, k, w), admitted), k, Tail(q.items[k]))

\* No two waiting keys are more than one full stride apart.
Level(q) ==
    \A k, l \in Present(q) : q.passes[k] <= q.passes[l] + FullStride
=============================================================================
