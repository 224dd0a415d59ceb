------------------------------ MODULE MarketMaker ------------------------------
(***************************************************************************)
(* engine.py's MarketMaker, the maker with a risk layer, and what mm.py's  *)
(* Portfolio and Engine.risk decide for it: exits by a taker order that    *)
(* lands a latency later while the maker's own quotes may still fill, the  *)
(* kill switch and the cool-off after a stop, and the dead man's switch    *)
(* when a feed falls silent.                                               *)
(*                                                                         *)
(* Prices and equity decide when a stop or the kill switch trips; both may *)
(* at any evaluation or tick.  The net limit and the bursts of targets()   *)
(* only take quotes away, which the quoter may do here anyway.             *)
(***************************************************************************)
EXTENDS PaperMaker

CONSTANTS
    Stale,      \* MMParams.stale: silence of a feed that cancels the quotes
    Pause,      \* MMParams.pause: no quotes after the kill switch
    Cool,       \* MMParams.cool: no quotes in the coin after its stop
    Hold,       \* MMParams.hold: how long a position may stay open; 0: off
    NoExit      \* MarketMaker.pending is None

Venue == {"hl", "cb"}
Reason == {"kill", "stop", "hold"}
Exit == [side : Side, due : Nat, why : Reason]

ASSUME RiskAssumption ==
    /\ {Stale, Pause, Cool, Hold} \subseteq Nat
    /\ NoExit \notin Exit

VARIABLES
    pending,        \* the taker exit on its way
    opened,         \* opened_ms: block time the open position began
    coolUntil,      \* cool_until
    pausedUntil,    \* Portfolio.paused_until
    heard           \* Engine.seen: last receive time of each venue

risk == <<pending, opened, coolUntil, pausedUntil, heard>>
mmVars == <<vars, risk>>

Paused == now < pausedUntil

\* Portfolio.fresh: both feeds spoke in the last Stale ms.
Fresh(seen) == \A v \in Venue : seen[v] # None /\ now - seen[v] <= Stale

Hears(venue) == heard' = [heard EXCEPT ![venue] = now]

\* Not the code: a fill that closes the position restarts its timer.
OpenedAnyway(before, after, t) ==
    IF before * after <= 0 THEN t ELSE opened

\* entry_after(): a position opens from flat or through zero.
OpenedAfter(before, after, t) ==
    IF after = 0 THEN None
    ELSE IF before * after <= 0 THEN t
    ELSE opened

-----------------------------------------------------------------------------
(* Decisions. *)

\* Why a position "held" since "since" is closed now, if it is; the first
\* reason wins.
ExitReason(held, since, exit, stopped) ==
    IF exit # NoExit \/ held = 0 THEN None
    ELSE IF Paused THEN "kill"
    ELSE IF stopped THEN "stop"
    ELSE IF Hold > 0 /\ now - since >= Hold THEN "hold"
    ELSE None

\* Not the code: quoting goes on while an exit is on its way; after a stop.
BlockedByTimers(exit, cool, seen) == Paused \/ now < cool \/ ~Fresh(seen)
BlockedUncooled(exit, cool, seen) == exit # NoExit \/ Paused \/ ~Fresh(seen)

\* blocked()
Blocked(exit, cool, seen) ==
    exit # NoExit \/ Paused \/ now < cool \/ ~Fresh(seen)

\* decide(): exit if there is a reason, then quote unless blocked.
Decide(before, exit) ==
    \E stopped \in BOOLEAN :
        LET why == ExitReason(position', opened', exit, stopped)
            closing == [side |-> IF position' > 0 THEN -1 ELSE 1,
                        due |-> now + Latency, why |-> why]
        IN  /\ pending' = IF why = None THEN exit ELSE closing
            /\ coolUntil' = IF why = "stop" THEN now + Cool ELSE coolUntil
            /\ \E want \in Wants(position'), room \in Rooms :
                LET quotes == IF Blocked(pending', coolUntil', heard')
                              THEN [s \in Side |-> None]
                              ELSE Quoted(want, position', room)
                IN  /\ orders' = OrdersPlaced(before, current, quotes, now)
                    /\ current' = CurrentPlaced(before, current, quotes, now)

\* evaluate(): "exit" is what the message has left of the pending one.
EvaluateRisk(before, exit) ==
    \/ /\ now - lastEval < EvalMs
       /\ orders' = before
       /\ pending' = exit
       /\ UNCHANGED <<lastEval, current, coolUntil>>
    \/ /\ now - lastEval >= EvalMs
       /\ lastEval' = now
       /\ Decide(before, exit)

-----------------------------------------------------------------------------
(* Messages. *)

Lands(t) == pending # NoExit /\ t >= pending.due

\* The exit closes the position, unless maker fills have or have turned it.
Closes(t) == Lands(t) /\ pending.side * position < 0

\* on_top(): the queues, then the exit if it has reached the book.
MMHearTop ==
    \E t \in BlockTimes, top \in Tops :
        /\ position' = IF Closes(t) THEN 0 ELSE position
        /\ opened' = IF Closes(t) THEN None ELSE opened
        /\ fills' = IF Closes(t)
                    THEN {[order |-> <<pending.side, None>>,
                           qty |-> -pending.side * position, at |-> t]}
                    ELSE {}
        /\ Hears("hl")
        /\ EvaluateRisk(AfterTop(orders, t, top), IF Lands(t) THEN NoExit ELSE pending)
        /\ UNCHANGED <<now, pausedUntil>>

MMHearRef ==
    /\ Hears("cb")
    /\ fills' = {}
    /\ UNCHANGED <<now, position, opened, pausedUntil>>
    /\ EvaluateRisk(orders, pending)

MMHearDepth ==
    /\ HearDepth
    /\ Hears("hl")
    /\ UNCHANGED <<pending, opened, coolUntil, pausedUntil>>

MMHearTrade ==
    \E t \in BlockTimes, trade \in Trades, seen \in SeenSizes :
        /\ fills' = FillsOf(orders, t, trade, seen)
        /\ orders' = AfterTrade(orders, t, trade, seen)
        /\ position' = position + Bought(fills')
        /\ opened' = OpenedAfter(position, position', t)
        /\ Hears("hl")
        /\ UNCHANGED <<now, lastEval, current, pending, coolUntil, pausedUntil>>

-----------------------------------------------------------------------------
(* Engine.tick. *)

\* Not the code: the maker forgets its quotes without cancelling them.
OrdersForgotten == orders

\* pull(): the venue cancels the live orders at once.
OrdersPulled ==
    [n \in DOMAIN orders |->
        IF current[n[1]] = n[2] THEN CancelBy(orders[n], now) ELSE orders[n]]

\* mark() may trip the kill switch; a silent feed pulls the quotes.
Tick100 ==
    /\ pausedUntil' \in {pausedUntil} \cup IF Paused THEN {} ELSE {now + Pause}
    /\ IF Fresh(heard)
       THEN UNCHANGED <<orders, current>>
       ELSE /\ orders' = OrdersPulled
            /\ current' = [s \in Side |-> None]
    /\ fills' = {}
    /\ UNCHANGED <<now, lastEval, position, pending, opened, coolUntil, heard>>

MMWait == Wait /\ UNCHANGED risk

MMInit ==
    /\ Init
    /\ pending = NoExit
    /\ opened = None
    /\ coolUntil = 0
    /\ pausedUntil = 0
    /\ heard = [hl |-> 0, cb |-> None]

MMNext ==
    MMHearTop \/ MMHearRef \/ MMHearDepth \/ MMHearTrade \/ Tick100 \/ MMWait

MMSpec == MMInit /\ [][MMNext]_mmVars

-----------------------------------------------------------------------------
\* While an exit is on its way the maker steers no quote, and those still on
\* the book are gone by the time it lands: an exit never meets its own side's
\* quotes, so closing cannot overshoot.
QuotesGoBeforeExit ==
    pending # NoExit =>
        \A n \in DOMAIN orders :
            current[n[1]] # n[2] /\ orders[n].cancel <= pending.due

\* When an exit lands the coin is flat, unless maker fills had turned the
\* position over meanwhile, which the exit must not add to; and no order
\* from before it is left.
ExitEndsFlat ==
    [][pending # NoExit /\ pending' = NoExit =>
        /\ position' = 0 \/ (position' = position /\ pending.side * position > 0)
        /\ \A n \in DOMAIN orders' : n[2] = now]_mmVars

\* The hold timer runs exactly while a position is open: the fills of makers
\* and exits, through zero or not, are folded into it before anyone reads it.
HeldSinceOpened == (opened # None) <=> (position # 0)

\* Nothing is sent during a pause or a cool-off, by any path.
QuietPeriods ==
    \A n \in DOMAIN orders :
        /\ ~(pausedUntil - Pause < n[2] /\ n[2] < pausedUntil)
        /\ ~(coolUntil - Cool <= n[2] /\ n[2] < coolUntil)

\* No order is lost, pulled ones included: one the maker does not steer left
\* at the latest a latency after the last decision, or at a pull in the past.
NoStrayWithPulls ==
    \A n \in DOMAIN orders :
        IF current[n[1]] = n[2] THEN orders[n].cancel = Never
        ELSE orders[n].cancel <= lastEval + Latency \/ orders[n].cancel <= now

\* mm.py: "when either feed has been silent stale s the quotes are cancelled
\* at once"; pull(): "Cancel every live order by deadline_ms".
PulledAtOnce ==
    [][Tick100 /\ ~Fresh(heard) =>
        \A n \in DOMAIN orders' : orders'[n].cancel <= now]_mmVars
=============================================================================
