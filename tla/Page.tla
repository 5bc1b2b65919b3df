-------------------------------- MODULE Page --------------------------------
(***************************************************************************)
(* What the dashboards take from the browser and from React: a page is a   *)
(* sequence of cards, each saying something and offering some controls,    *)
(* and setTimeout runs a callback later.  The callback `sees` the state of *)
(* the render in which it was made, not the one in which it fires.         *)
(***************************************************************************)
EXTENDS Naturals, Sequences

VARIABLE timers     \* pending setTimeout calls, in the order they were made

Card(says, offers) == [says |-> says, offers |-> offers]
Button(name)        == {<<name, 0>>}
Buttons(name, args) == {<<name, a>> : a \in args}
OfferedBy(cards)    == UNION {cards[i].offers : i \in DOMAIN cards}

\* What a card says of a subject follows the state the card is rendered from,
\* unless it is scripted: text that is there whatever becomes of its subject.
Says(subject, value)     == {[about |-> subject, is |-> value, scripted |-> FALSE]}
Scripted(subject, value) == {[about |-> subject, is |-> value, scripted |-> TRUE]}
SaidBy(cards)            == UNION {cards[i].says : i \in DOMAIN cards}

Timer(delay, run, sees) == [delay |-> delay, run |-> run, sees |-> sees]
SetTimeout(delay, run, sees) == timers' = Append(timers, Timer(delay, run, sees))

\* A timer may be the next to fire unless one made before it is due by then.
MayFire(i) == \A j \in 1..(i - 1) : timers[j].delay > timers[i].delay
Without(i) == SubSeq(timers, 1, i - 1) \o SubSeq(timers, i + 1, Len(timers))
=============================================================================
