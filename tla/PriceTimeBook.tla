----------------------------- MODULE PriceTimeBook -----------------------------
(***************************************************************************)
(* What the order book promises: a taker is matched in one step, and the   *)
(* lots each maker gives are those price-time priority assigns, computed   *)
(* from the volume that stands before it and not by a loop.  This is the   *)
(* naive reference book of crates/hl-replay/tests/proptest_book.rs         *)
(* (RefBook) in closed form; OrderBook implements it.                      *)
(***************************************************************************)
EXTENDS OrderBook, FiniteSetsExt

\* The makers a taker tk can execute against on the book bk.
Eligible(bk, tk) ==
    {o \in DOMAIN bk : /\ bk[o].side = Opposite(tk.side)
                       /\ Key(bk[o].side, bk[o].tick) >= Key(bk[o].side, tk.limit)}

\* Price first, then time: p trades before o.
Precedes(bk, queue, p, o) ==
    \/ Key(bk[p].side, bk[p].tick) > Key(bk[o].side, bk[o].tick)
    \/ <<p, o>> \in queue

Own(bk, tk, o) == tk.stp = "ExpireMaker" /\ bk[o].user = tk.user

\* What is left of tk when its turn comes to o: orders of its own wallet give
\* nothing.
LeftAt(bk, queue, tk, o) ==
    LET before == {p \in Eligible(bk, tk) :
                      Precedes(bk, queue, p, o) /\ ~Own(bk, tk, p)}
    IN  tk.left - MapThenSumSet(LAMBDA p : bk[p].lots, before)

Met(bk, queue, tk) == {o \in Eligible(bk, tk) : LeftAt(bk, queue, tk, o) > 0}

Given(bk, queue, tk, o) ==
    IF Own(bk, tk, o) THEN bk[o].lots
    ELSE Min({bk[o].lots, LeftAt(bk, queue, tk, o)})

\* The orders of S, each at the place that those before it leave it.
InTurn(bk, queue, S) ==
    [i \in 1 .. Cardinality(S) |->
        CHOOSE o \in S : Cardinality({p \in S : Precedes(bk, queue, p, o)}) = i - 1]

\* The book, the queue and the report a taker leaves behind.
BookAfter(bk, queue, tk) ==
    LET met == Met(bk, queue, tk)
        out == {o \in met : Given(bk, queue, tk, o) = bk[o].lots}
    IN  [o \in DOMAIN bk \ out |->
            IF o \in met
            THEN [bk[o] EXCEPT !.lots = @ - Given(bk, queue, tk, o)]
            ELSE bk[o]]

QueueAfter(bk, queue, tk) ==
    LET live == DOMAIN BookAfter(bk, queue, tk)
    IN  {pair \in queue : pair[1] \in live /\ pair[2] \in live}

FillsFor(bk, queue, tk) ==
    LET traded == {o \in Met(bk, queue, tk) : ~Own(bk, tk, o)}
        turn == InTurn(bk, queue, traded)
    IN  [i \in DOMAIN turn |->
            [maker |-> turn[i], taker |-> tk.oid, tick |-> bk[turn[i]].tick,
             lots |-> Given(bk, queue, tk, turn[i])]]

ExpiredFor(bk, queue, tk) ==
    InTurn(bk, queue, {o \in Met(bk, queue, tk) : Own(bk, tk, o)})

\* The whole call; nothing of tk is left to match when it is over.
TakeAtOnce(tk) ==
    /\ taker = Idle
    /\ taker' = [tk EXCEPT !.left = 0]
    /\ resting' = BookAfter(resting, ahead, tk)
    /\ ahead' = QueueAfter(resting, ahead, tk)
    /\ fills' = FillsFor(resting, ahead, tk)
    /\ expired' = ExpiredFor(resting, ahead, tk)

HandBack ==
    /\ taker # Idle
    /\ taker' = Idle
    /\ fills' = <<>>
    /\ expired' = <<>>
    /\ UNCHANGED book

PromisedNext ==
    \/ \E oid \in Oid, order \in Order : Add(oid, order)
    \/ \E oid \in Oid : Cancel(oid)
    \/ \E oid \in Oid, lots \in 0 .. MaxLots : Reduce(oid, lots)
    \/ \E tk \in Taker : TakeAtOnce(tk)
    \/ HandBack

PromisedSpec == Init /\ [][PromisedNext]_vars
=============================================================================
