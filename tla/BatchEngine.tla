------------------------------ MODULE BatchEngine ------------------------------
(***************************************************************************)
(* crates/hl-replay/src/engine.rs: one consensus batch applied to the book *)
(* in three passes over the proposer's order, post-only adds, then         *)
(* cancels, then takers.  The book is OrderBook's; a taker's matching loop *)
(* is stepped maker by maker with OrderBook's Meet.                        *)
(***************************************************************************)
EXTENDS OrderBook, FiniteSetsExt

CONSTANTS
    Menu,       \* the actions a block may hold
    MaxBatch,   \* the most actions of one batch
    StpRule     \* EngineConfig.stp

Tif == {"Alo", "Gtc", "Ioc"}
Action ==
    [op : {"Order"}, user : User, oid : Oid, side : Side, tick : Tick,
     lots : 0 .. MaxLots, tif : Tif]
    \cup [op : {"Cancel"}, user : User, oid : Oid]

Kind == {"Resting", "Filled", "IocCanceled", "AloRejected", "Canceled",
         "CancelMissing", "DuplicateOid", "ZeroSize"}
Status == [kind : Kind, lots : 0 .. MaxLots]

ASSUME EngineAssumption ==
    /\ Menu \subseteq Action
    /\ MaxBatch \in Nat \ {0}
    /\ StpRule \in Stp

VARIABLES
    batch,      \* the actions, in proposer order
    statuses,   \* BatchOut.statuses, one per action
    pass,       \* the class being applied, "Done" between batches
    pos,        \* the next action of the pass
    opening     \* history: the book when the batch arrived

engine == <<batch, statuses, pass, pos, opening>>
allVars == <<vars, engine>>

Cls(a) ==
    IF a.op = "Cancel" THEN "Cancel"
    ELSE IF a.tif = "Alo" THEN "PostOnly" ELSE "Taker"

\* Not the code: takers before cancels.
TakersFirst ==
    [PostOnly |-> "Taker", Taker |-> "Cancel", Cancel |-> "Done"]

PassAfter ==
    [PostOnly |-> "Cancel", Cancel |-> "Taker", Taker |-> "Done"]

-----------------------------------------------------------------------------

\* The caller hands over a batch with its output buffers, which are reset.
NewBatch(b) ==
    /\ pass = "Done"
    /\ batch = <<>>
    /\ batch' = b
    /\ statuses' = [i \in DOMAIN b |-> [kind |-> "CancelMissing", lots |-> 0]]
    /\ pass' = "PostOnly"
    /\ pos' = 1
    /\ opening' = resting
    /\ UNCHANGED vars

\* apply_batch has returned: the caller reads its report and forgets it.
ReadReport ==
    /\ pass = "Done"
    /\ batch # <<>>
    /\ batch' = <<>>
    /\ statuses' = <<>>
    /\ fills' = <<>>
    /\ expired' = <<>>
    /\ opening' = resting
    /\ UNCHANGED <<book, taker, pass, pos>>

\* Action i is the next one of the current pass.
Turn(i) ==
    /\ i \in pos .. Len(batch)
    /\ Cls(batch[i]) = pass
    /\ \A j \in pos .. (i - 1) : Cls(batch[j]) # pass

Report(i, kind, lots) ==
    /\ statuses' = [statuses EXCEPT ![i] = [kind |-> kind, lots |-> lots]]
    /\ pos' = i + 1
    /\ UNCHANGED <<batch, pass, opening>>

NextPass ==
    /\ pass # "Done"
    /\ \A i \in pos .. Len(batch) : Cls(batch[i]) # pass
    /\ pass' = PassAfter[pass]
    /\ pos' = 1
    /\ UNCHANGED <<vars, batch, statuses, opening>>

CancelOrder(i) ==
    /\ Turn(i)
    /\ batch[i].op = "Cancel"
    /\ \/ /\ Cancel(batch[i].oid)
          /\ Report(i, "Canceled", resting[batch[i].oid].lots)
       \/ /\ batch[i].oid \notin Live
          /\ Report(i, "CancelMissing", 0)
          /\ UNCHANGED vars

\* Not the code: no check of the size.
RefusalOfLive(a) ==
    IF a.oid \in Live THEN "DuplicateOid"
    ELSE IF a.tif = "Alo" /\ Crosses(a.side, a.tick) THEN "AloRejected"
    ELSE "None"

\* Not the code: an order is not refused for its id, and the book panics when it rests.
RefusalUnseen(a) ==
    IF a.lots = 0 THEN "ZeroSize"
    ELSE IF a.tif = "Alo" /\ Crosses(a.side, a.tick) THEN "AloRejected"
    ELSE "None"

\* The checks every order passes before it touches the book, in their order.
Refusal(a) ==
    IF a.lots = 0 THEN "ZeroSize"
    ELSE IF a.oid \in Live THEN "DuplicateOid"
    ELSE IF a.tif = "Alo" /\ Crosses(a.side, a.tick) THEN "AloRejected"
    ELSE "None"

RefuseOrder(i) ==
    /\ Turn(i)
    /\ taker = Idle
    /\ batch[i].op = "Order"
    /\ Refusal(batch[i]) # "None"
    /\ Report(i, Refusal(batch[i]), 0)
    /\ UNCHANGED vars

Placed(a, lots) == [user |-> a.user, side |-> a.side, tick |-> a.tick, lots |-> lots]

RestPostOnly(i) ==
    /\ Turn(i)
    /\ pass = "PostOnly"
    /\ Refusal(batch[i]) = "None"
    /\ Add(batch[i].oid, Placed(batch[i], batch[i].lots))
    /\ Report(i, "Resting", 0)

StartTaker(i) ==
    /\ Turn(i)
    /\ pass = "Taker"
    /\ Refusal(batch[i]) = "None"
    /\ StartTake(batch[i].oid, batch[i].user, batch[i].side, batch[i].tick,
                 batch[i].lots, StpRule)
    /\ UNCHANGED <<fills, expired, engine>>

MeetMaker(o) == Meet(o) /\ UNCHANGED engine

Filled(i) == batch[i].lots - taker.left

FinishFilled(i) ==
    /\ Turn(i)
    /\ Exhausted
    /\ taker.left = 0
    /\ taker' = Idle
    /\ Report(i, "Filled", Filled(i))
    /\ UNCHANGED <<book, fills, expired>>

RestRemainder(i) ==
    /\ Turn(i)
    /\ Exhausted
    /\ taker.left > 0
    /\ batch[i].tif = "Gtc"
    /\ taker' = Idle
    /\ Insert(batch[i].oid, Placed(batch[i], taker.left))
    /\ Report(i, "Resting", Filled(i))
    /\ UNCHANGED <<fills, expired>>

\* Not the code: what was left is reported, not what was filled.
DropLeft(i) ==
    /\ Turn(i)
    /\ Exhausted
    /\ taker.left > 0
    /\ batch[i].tif # "Gtc"
    /\ taker' = Idle
    /\ Report(i, "IocCanceled", taker.left)
    /\ UNCHANGED <<book, fills, expired>>

DropRemainder(i) ==
    /\ Turn(i)
    /\ Exhausted
    /\ taker.left > 0
    /\ batch[i].tif # "Gtc"
    /\ taker' = Idle
    /\ Report(i, "IocCanceled", Filled(i))
    /\ UNCHANGED <<book, fills, expired>>

Apply(i) ==
    \/ CancelOrder(i)
    \/ RefuseOrder(i)
    \/ RestPostOnly(i)
    \/ StartTaker(i)
    \/ FinishFilled(i)
    \/ RestRemainder(i)
    \/ DropRemainder(i)

-----------------------------------------------------------------------------

EngineInit ==
    /\ Init
    /\ batch = <<>>
    /\ statuses = <<>>
    /\ pass = "Done"
    /\ pos = 1
    /\ opening = resting

\* apply_batch once it is called.
Run ==
    \/ \E i \in DOMAIN batch : Apply(i)
    \/ \E o \in Live : MeetMaker(o)
    \/ NextPass

EngineNext ==
    \/ \E n \in 1 .. MaxBatch : \E b \in [1 .. n -> Menu] : NewBatch(b)
    \/ Run
    \/ ReadReport

EngineSpec == EngineInit /\ [][EngineNext]_allVars

\* apply_batch is one synchronous call: nothing can keep it from going on.
FairEngineSpec == EngineSpec /\ WF_allVars(Run)

-----------------------------------------------------------------------------

EngineType ==
    /\ TypeOK
    /\ batch \in Seq(Menu)
    /\ statuses \in [DOMAIN batch -> Status]
    /\ pass \in {"PostOnly", "Cancel", "Taker", "Done"}
    /\ pos \in 1 .. Len(batch) + 1

\* The book is never crossed, not even between two fills of one taker
\* (is_crossed, book.rs:302, asserted by the property tests only after batches).
NeverCrossed ==
    \A b \in OnSide("Bid"), a \in OnSide("Ask") : resting[b].tick < resting[a].tick

\* "So a cancel always beats a taker in the same batch" (engine.rs:10): an order
\* a cancel of the batch names is never filled by the batch, unless a taker of
\* the batch put it there after the cancels had been applied.
RestedByTaker(oid) ==
    \E j \in DOMAIN batch : /\ Cls(batch[j]) = "Taker"
                            /\ batch[j].oid = oid
                            /\ statuses[j].kind = "Resting"

CancelBeatsTaker ==
    \A k \in DOMAIN fills : \A i \in DOMAIN batch :
        batch[i].op = "Cancel" /\ batch[i].oid = fills[k].maker
            => RestedByTaker(batch[i].oid)

\* The report is complete.  For an order as maker: the statuses and fills of the
\* batch, replayed on the book it found, give its lots now (one that self-trade
\* prevention expired is reported without its size).  For an order as taker: the
\* lots its statuses say it executed are those of the fills that name it, none
\* lost or counted twice, and it is said to be filled if they are all it asked
\* for, to rest or to be cut if they are fewer (BatchOut, engine.rs:130).
LotsOf(bk, o) == IF o \in DOMAIN bk THEN bk[o].lots ELSE 0

Reported(o, kind) ==
    {i \in DOMAIN batch : batch[i].oid = o /\ statuses[i].kind = kind}

FillsAgainst(o) == {k \in DOMAIN fills : fills[k].maker = o}

MakersAccounted ==
    \A o \in Oid \ {expired[k] : k \in DOMAIN expired} :
        LotsOf(resting, o)
            = LotsOf(opening, o)
              + SumFunction([i \in Reported(o, "Resting") |-> batch[i].lots - statuses[i].lots])
              - SumFunction([i \in Reported(o, "Canceled") |-> statuses[i].lots])
              - SumFunction([k \in FillsAgainst(o) |-> fills[k].lots])

Executing(o) ==
    {i \in DOMAIN batch : /\ batch[i].oid = o
                          /\ statuses[i].kind \in {"Resting", "Filled", "IocCanceled"}}

FillsTaken(o) == {k \in DOMAIN fills : fills[k].taker = o}

TakersAccounted ==
    /\ taker = Idle =>
        \A o \in Oid : SumFunction([k \in FillsTaken(o) |-> fills[k].lots])
                          = SumFunction([i \in Executing(o) |-> statuses[i].lots])
    /\ \A i \in DOMAIN batch :
        /\ statuses[i].kind = "Filled" => statuses[i].lots = batch[i].lots
        /\ statuses[i].kind \in {"Resting", "IocCanceled"} => statuses[i].lots < batch[i].lots

ReportAccounts == MakersAccounted /\ TakersAccounted

\* Every batch comes to an end: the loops of the passes and of the matching
\* terminate whatever the batch and the book.
BatchEnds == pass # "Done" ~> pass = "Done"
=============================================================================
