---------------------------- MODULE OrderBookPromise ----------------------------
(***************************************************************************)
(* The order book and what it promises.  A take in progress is mapped to   *)
(* its result: starting it is the step of PriceTimeBook, and every turn of *)
(* the loop must then leave the promised result alone.                     *)
(***************************************************************************)
EXTENDS OrderBook

Settled == INSTANCE PriceTimeBook

PromisedBook ==
    IF taker = Idle THEN resting ELSE Settled!BookAfter(resting, ahead, taker)
PromisedQueue ==
    IF taker = Idle THEN ahead ELSE Settled!QueueAfter(resting, ahead, taker)
PromisedFills ==
    IF taker = Idle THEN fills ELSE fills \o Settled!FillsFor(resting, ahead, taker)
PromisedExpired ==
    IF taker = Idle THEN expired ELSE expired \o Settled!ExpiredFor(resting, ahead, taker)
PromisedTaker ==
    IF taker = Idle THEN Idle ELSE [taker EXCEPT !.left = 0]

Promise == INSTANCE PriceTimeBook WITH
    resting <- PromisedBook, ahead <- PromisedQueue, taker <- PromisedTaker,
    fills <- PromisedFills, expired <- PromisedExpired

\* Whatever the loop does turn by turn, a taker trades the lots, with the
\* makers and in the order that price-time priority assigns (book.rs:231,
\* "in price-time priority, up to `limit`"), and a cancel or a reduction in
\* between never changes what the others are owed.
PriceTimePriority == Promise!PromisedSpec
=============================================================================
