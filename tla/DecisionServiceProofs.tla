------------------------- MODULE DecisionServiceProofs -------------------------
(***************************************************************************)
(* For any runs, coins and requests, however many there are at once: the   *)
(* recorded hours tell what is there, and a decision's key which model     *)
(* made it.                                                                *)
(*                                                                         *)
(* The argument for the first: a run that is still alone has written all   *)
(* it no longer has left, and found its own hours recorded unless it was   *)
(* told to replace them (Alone).  It records its hours last, so they cover *)
(* what it has written; until then what it puts in the place of recorded   *)
(* hours is noted in begun, and an overlap or a torn file in disturbed.    *)
(***************************************************************************)
EXTENDS DecisionService, TLAPS

RunRecord ==
    [state : {"idle", "running", "written", "over"}, left : SUBSET Artifacts,
     open : BOOLEAN, alone : BOOLEAN]

LakeType ==
    /\ runs \in [Run -> RunRecord]
    /\ lake = [path \in Paths |-> lake[path]]
    /\ disturbed \in [Coin -> BOOLEAN] /\ begun \in [Coin -> SUBSET Request]

\* A run has its hours to record as long as it runs.
Working ==
    \A r \in Run : Active(r) => runs[r].left \subseteq Yields[RequestOf[r]] /\ "coverage" \in runs[r].left

\* A run that is alone is the only one of its coin, has written the rest, and was
\* told to replace the recorded hours if they are others.
Alone ==
    \A r \in Run : Active(r) /\ runs[r].alone =>
        /\ \A o \in Run : Active(o) /\ CoinOf[o] = CoinOf[r] => o = r
        /\ \A a \in Yields[RequestOf[r]] \ runs[r].left :
              lake[Path(CoinOf[r], a)] = Holds(RequestOf[r], a)
        /\ r \notin Replacing => Recorded(CoinOf[r]) \in {None, RequestOf[r]}

LakeInv == LakeType /\ Working /\ Alone /\ CoverageTells

-----------------------------------------------------------------------------
(* Files and what is left to write. *)

\* Only the contexts of a date are a file of two coins.
LEMMA PathsTell ==
    ASSUME NEW c \in Coin, NEW d \in Coin, NEW a \in Artifacts, NEW b \in Artifacts,
           Path(c, a) = Path(d, b)
    PROVE  a = b /\ (c = d \/ a = "asset_ctxs")
BY DEF Path, Artifacts

\* A coin's files are files of the lake.
LEMMA PathIsFile ==
    ASSUME NEW c \in Coin, NEW a \in Artifacts
    PROVE  Path(c, a) \in Paths /\ Path(c, a) \in Files(c)
BY DEF Paths, Files

\* A run that has the coverage left writes it last (run_backfill).
LEMMA NextUpType ==
    ASSUME NEW r \in Run, runs[r].left \subseteq Artifacts, "coverage" \in runs[r].left
    PROVE  /\ NextUp(r) \in runs[r].left
           /\ NextUp(r) = "coverage" => runs[r].left = {"coverage"}
<1> DEFINE L == runs[r].left
           First(a) == \A b \in L : Place[a] <= Place[b]
<1>1. \A a \in Artifacts : Place[a] \in Nat
  BY DEF Place, Artifacts
<1>2. \E a \in L : First(a)
  <2>1. CASE "l2_book" \in L
    BY <2>1 DEF Place, Artifacts
  <2>2. CASE "l2_book" \notin L /\ "asset_ctxs" \in L
    BY <2>2 DEF Place, Artifacts
  <2>3. CASE L \cap {"l2_book", "asset_ctxs"} = {} /\ "fills" \in L
    BY <2>3 DEF Place, Artifacts
  <2>4. CASE L \cap {"l2_book", "asset_ctxs", "fills"} = {} /\ "training" \in L
    BY <2>4 DEF Place, Artifacts
  <2>5. CASE L \cap {"l2_book", "asset_ctxs", "fills", "training"} = {}
    BY <2>5 DEF Place, Artifacts
  <2>6. QED  BY <2>1, <2>2, <2>3, <2>4, <2>5
<1>3. NextUp(r) \in L /\ First(NextUp(r))
  BY <1>2 DEF NextUp
<1>4. ASSUME NextUp(r) = "coverage" PROVE L = {"coverage"}
  BY <1>3, <1>4 DEF Place, Artifacts
<1>5. QED  BY <1>3, <1>4

-----------------------------------------------------------------------------
(* The steps of a run. *)

\* It all depends on the files, the runs and what disturbed the coins.
LEMMA LakeStutters ==
    ASSUME LakeInv, UNCHANGED <<lake, runs, noted>>
    PROVE  LakeInv'
<1>1. lake' = lake /\ runs' = runs /\ disturbed' = disturbed /\ begun' = begun
  BY DEF noted
<1>2. LakeType' /\ Working'
  BY <1>1 DEF LakeInv, LakeType, Working, Active
<1>3. Alone'
  BY <1>1 DEF LakeInv, Alone, Active, Recorded
<1>4. CoverageTells'
  BY <1>1 DEF LakeInv, CoverageTells, Recorded
<1>5. QED  BY <1>2, <1>3, <1>4 DEF LakeInv

\* A run that ends leaves the others as they were.
LEMMA EndingKeeps ==
    ASSUME LakeInv, NEW r \in Run, runs' = Ended(r), UNCHANGED <<lake, noted>>
    PROVE  LakeInv'
<1>1. \A o \in Run : Active(o)' => o # r /\ Active(o) /\ runs'[o] = runs[o]
  BY DEF LakeInv, LakeType, RunRecord, Active, Ended, Idle
<1>2. LakeType'
  BY DEF LakeInv, LakeType, RunRecord, Ended, Idle, noted
<1>3. Working'
  BY <1>1 DEF LakeInv, Working
<1>4. Alone'
  BY <1>1 DEF LakeInv, Alone, Recorded
<1>5. CoverageTells'
  BY DEF LakeInv, CoverageTells, Recorded, noted
<1>6. QED  BY <1>2, <1>3, <1>4, <1>5 DEF LakeInv

\* A run that starts has everything left; if it is not refused and not the
\* only one of its coin, neither it nor the others are alone.
LEMMA StartingKeeps ==
    ASSUME LakeInv, NEW r \in Run, Starts(r)
    PROVE  LakeInv'
<1>1. CASE Refused(r)
  BY <1>1, EndingKeeps DEF Starts
<1>2. CASE ~Refused(r)
  <2> DEFINE others == {o \in Run : Active(o) /\ CoinOf[o] = CoinOf[r]}
  <2>1. /\ runs[r].state = "idle"
        /\ runs' = [o \in Run |->
              CASE o = r -> [state |-> "running", left |-> Yields[RequestOf[r]],
                             open |-> FALSE, alone |-> others = {}]
                [] o \in others -> [runs[o] EXCEPT !.alone = FALSE]
                [] OTHER -> runs[o]]
        /\ UNCHANGED <<lake, disturbed, begun>>
    BY <1>2 DEF Starts, noted
  <2>2. Yields[RequestOf[r]] \subseteq Artifacts /\ "coverage" \in Yields[RequestOf[r]]
    BY LakeAssumption
  <2>3. r \notin others
    BY <2>1 DEF Active
  <2>4. /\ runs'[r] = [state |-> "running", left |-> Yields[RequestOf[r]],
                       open |-> FALSE, alone |-> others = {}]
        /\ \A o \in others : runs'[o] = [runs[o] EXCEPT !.alone = FALSE]
        /\ \A o \in Run \ (others \union {r}) : runs'[o] = runs[o]
    BY <2>1, <2>3
  <2>5. \A o \in others : /\ runs'[o].left = runs[o].left /\ ~runs'[o].alone
                          /\ runs'[o].state = runs[o].state
    <3> SUFFICES ASSUME NEW o \in others
                 PROVE  /\ runs'[o].left = runs[o].left /\ ~runs'[o].alone
                        /\ runs'[o].state = runs[o].state
      OBVIOUS
    <3>1. runs[o] \in RunRecord
      BY DEF LakeInv, LakeType
    <3>2. runs'[o] = [runs[o] EXCEPT !.alone = FALSE]
      BY <2>4
    <3>3. QED  BY <3>1, <3>2 DEF RunRecord
  <2>6. LakeType'
    <3>1. runs'[r] \in RunRecord
      BY <2>2, <2>4 DEF RunRecord
    <3>2. ASSUME NEW o \in others PROVE runs'[o] \in RunRecord
      <4>1. runs[o] \in RunRecord /\ runs'[o] = [runs[o] EXCEPT !.alone = FALSE]
        BY <2>4 DEF LakeInv, LakeType
      <4>2. QED  BY <4>1 DEF RunRecord
    <3>3. ASSUME NEW o \in Run \ (others \union {r}) PROVE runs'[o] \in RunRecord
      BY <2>4, <3>3 DEF LakeInv, LakeType
    <3>4. \A o \in Run : runs'[o] \in RunRecord
      BY <3>1, <3>2, <3>3
    <3>5. QED  BY <2>1, <3>4 DEF LakeInv, LakeType
  <2>7. Working'
    <3> SUFFICES ASSUME NEW o \in Run, Active(o)'
                 PROVE  runs'[o].left \subseteq Yields[RequestOf[o]] /\ "coverage" \in runs'[o].left
      BY DEF Working
    <3>1. CASE o = r
      BY <2>2, <2>4, <3>1
    <3>2. CASE o # r
      <4>1. Active(o) /\ runs'[o].left = runs[o].left
        BY <2>4, <2>5, <3>2 DEF Active
      <4>2. QED  BY <4>1 DEF LakeInv, Working
    <3>3. QED  BY <3>1, <3>2
  <2>8. Alone'
    <3> SUFFICES ASSUME NEW o \in Run, Active(o)', runs'[o].alone
                 PROVE  /\ \A p \in Run : Active(p)' /\ CoinOf[p] = CoinOf[o] => p = o
                        /\ \A a \in Yields[RequestOf[o]] \ runs'[o].left :
                              lake'[Path(CoinOf[o], a)] = Holds(RequestOf[o], a)
                        /\ o \notin Replacing => Recorded(CoinOf[o])' \in {None, RequestOf[o]}
      BY DEF Alone
    <3>1. ASSUME NEW p \in Run \ {r}, Active(p)' PROVE Active(p)
      BY <2>4, <2>5, <3>1 DEF Active
    <3>2. CASE o = r
      <4> DEFINE isAlone == others = {}
      <4>a. runs'[r] = [state |-> "running", left |-> Yields[RequestOf[r]],
                        open |-> FALSE, alone |-> isAlone]
        BY <2>4
      <4> HIDE DEF isAlone
      <4>b. runs'[r].alone = isAlone /\ runs'[r].left = Yields[RequestOf[r]]
        BY <4>a
      <4>1. runs'[r].left = Yields[RequestOf[r]] /\ others = {}
        BY <3>2, <4>b DEF isAlone
      <4>2. \A p \in Run : Active(p)' /\ CoinOf[p] = CoinOf[o] => p = o
        BY <3>1, <3>2, <4>1
      <4>3. o \notin Replacing => Recorded(CoinOf[o])' \in {None, RequestOf[o]}
        BY <1>2, <2>1, <3>2 DEF Refused, Recorded
      <4>4. QED  BY <3>2, <4>1, <4>2, <4>3
    <3>3. CASE o # r
      <4>1. o \notin others
        BY <2>5
      <4>2. runs'[o] = runs[o] /\ Active(o) /\ CoinOf[o] # CoinOf[r]
        BY <2>4, <3>1, <3>3, <4>1
      <4>3. QED  BY <2>1, <3>1, <4>2 DEF LakeInv, Alone, Recorded
    <3>4. QED  BY <3>2, <3>3
  <2>9. CoverageTells'
    BY <2>1 DEF LakeInv, CoverageTells, Recorded
  <2>10. QED  BY <2>6, <2>7, <2>8, <2>9 DEF LakeInv
<1>3. QED  BY <1>1, <1>2

\* Opening a temporary file changes no target.
LEMMA OpeningKeeps ==
    ASSUME LakeInv, NEW r \in Run, Opens(r)
    PROVE  LakeInv'
<1>1. /\ runs' = [runs EXCEPT ![r].open = TRUE]
      /\ UNCHANGED <<lake, disturbed, begun>>
  BY DEF Opens, OpensFile, noted
<1>2. \A o \in Run : /\ runs'[o].left = runs[o].left /\ runs'[o].alone = runs[o].alone
                     /\ runs'[o].state = runs[o].state
  BY <1>1 DEF LakeInv, LakeType, RunRecord
<1>3. \A o \in Run : Active(o)' <=> Active(o)
  BY <1>2 DEF Active
<1>4. LakeType'
  BY <1>1 DEF LakeInv, LakeType, RunRecord
<1>5. Working' /\ Alone'
  BY <1>1, <1>2, <1>3 DEF LakeInv, Working, Alone, Recorded
<1>6. CoverageTells'
  BY <1>1 DEF LakeInv, CoverageTells, Recorded
<1>7. QED  BY <1>4, <1>5, <1>6 DEF LakeInv

\* What a run publishes is what its request yields, or is noted.
LEMMA PublishingKeeps ==
    ASSUME LakeInv, NEW r \in Run, Publishes(r)
    PROVE  LakeInv'
<1> DEFINE a    == NextUp(r)
           path == Target(r)
           q    == RequestOf[r]
           x    == CoinOf[r]
           torn == temp[path] # r
           of   == {coin \in Coin : torn /\ path \in Files(coin)}
           rest == runs[r].left \ {a}
<1>1. /\ Active(r)
      /\ lake' = [lake EXCEPT ![path] = IF torn THEN Torn ELSE Holds(q, a)]
      /\ runs' = [o \in Run |->
                    LET alone == runs[o].alone /\ CoinOf[o] \notin of
                    IN  IF o # r THEN [runs[o] EXCEPT !.alone = alone]
                        ELSE [state |-> IF rest = {} THEN "written" ELSE "running",
                              left |-> rest, open |-> FALSE, alone |-> alone]]
      /\ disturbed' = [coin \in Coin |->
                         \/ coin \in of
                         \/ coin = x /\ ~runs[r].alone
                         \/ disturbed[coin] /\ ~(coin = x /\ a = "coverage")]
      /\ begun' = [begun EXCEPT ![x] =
                      IF a = "coverage" THEN {}
                      ELSE begun[x] \union (IF r \in Replacing THEN {q} ELSE {})]
  BY DEF Publishes
<1>2. /\ runs \in [Run -> RunRecord] /\ x \in Coin /\ q \in Request
      /\ runs[r].left \subseteq Artifacts /\ runs[r].left \subseteq Yields[q]
      /\ "coverage" \in runs[r].left
  BY <1>1, LakeAssumption DEF LakeInv, LakeType, Working, RunRecord
<1>3. a \in runs[r].left /\ (a = "coverage" => runs[r].left = {"coverage"})
  BY <1>2, NextUpType
<1>4. path = Path(x, a) /\ path \in Paths /\ path \in Files(x)
  BY <1>2, <1>3, PathIsFile DEF Target
<1>5. /\ runs'[r].left = rest
      /\ runs'[r].alone = (runs[r].alone /\ x \notin of)
      /\ Active(r)' => a # "coverage"
      /\ runs'[r] \in RunRecord
  <2>1. runs[r].alone \in BOOLEAN
    BY <1>2 DEF RunRecord
  <2>2. runs'[r] = [state |-> IF rest = {} THEN "written" ELSE "running", left |-> rest,
                    open |-> FALSE, alone |-> runs[r].alone /\ x \notin of]
    BY <1>1
  <2>3. QED  BY <1>2, <1>3, <2>1, <2>2 DEF Active, RunRecord
<1>6. ASSUME NEW o \in Run \ {r}
      PROVE  /\ runs'[o] \in RunRecord
             /\ runs'[o].left = runs[o].left /\ runs'[o].state = runs[o].state
             /\ runs'[o].alone = (runs[o].alone /\ CoinOf[o] \notin of)
  <2>1. runs[o] \in RunRecord /\ runs[o].alone \in BOOLEAN
    BY <1>2 DEF RunRecord
  <2>2. runs'[o] = [runs[o] EXCEPT !.alone = runs[o].alone /\ CoinOf[o] \notin of]
    BY <1>1
  <2>3. QED  BY <2>1, <2>2 DEF RunRecord
<1>7. \A o \in Run : Active(o)' => Active(o)
  BY <1>1, <1>6 DEF Active
<1>8. LakeType'
  <2>1. runs' \in [Run -> RunRecord]
    BY <1>1, <1>5, <1>6
  <2>2. lake' = [p \in Paths |-> lake'[p]]
    BY <1>1 DEF LakeInv, LakeType
  <2>3. disturbed' \in [Coin -> BOOLEAN]
    BY <1>1 DEF LakeInv, LakeType
  <2>4. begun' \in [Coin -> SUBSET Request]
    BY <1>1, <1>2 DEF LakeInv, LakeType
  <2>5. QED  BY <2>1, <2>2, <2>3, <2>4 DEF LakeType
<1>9. Working'
  <2> SUFFICES ASSUME NEW o \in Run, Active(o)'
               PROVE  runs'[o].left \subseteq Yields[RequestOf[o]] /\ "coverage" \in runs'[o].left
    BY DEF Working
  <2>1. CASE o = r
    BY <1>2, <1>5, <2>1
  <2>2. CASE o # r
    BY <1>6, <1>7, <2>2 DEF LakeInv, Working
  <2>3. QED  BY <2>1, <2>2
\* Of a coin that is not noted, the file holds what the request of any run yields there.
<1>10. ASSUME NEW coin \in Coin, coin \notin of, NEW b \in Artifacts, NEW p \in Request,
              coin = x => b # a \/ p = q,
              lake[Path(coin, b)] = Holds(p, b) \/ (coin = x /\ b = a)
       PROVE  lake'[Path(coin, b)] = Holds(p, b)
  <2>1. Path(coin, b) \in Paths /\ Path(coin, b) \in Files(coin)
    BY PathIsFile
  <2>2. CASE Path(coin, b) # path
    BY <1>1, <1>4, <1>10, <2>1, <2>2 DEF LakeInv, LakeType
  <2>3. CASE Path(coin, b) = path
    <3>1. b = a /\ (coin = x \/ a = "asset_ctxs")
      BY <1>2, <1>3, <1>4, <2>3, PathsTell
    <3>2. ~torn
      BY <1>10, <2>1, <2>3
    <3>3. lake'[path] = Holds(q, a)
      BY <1>1, <1>4, <3>2 DEF LakeInv, LakeType
    <3>4. Holds(q, a) = Holds(p, b)
      BY <1>10, <3>1 DEF Holds
    <3>5. QED  BY <2>3, <3>3, <3>4
  <2>4. QED  BY <2>2, <2>3
<1>11. Alone'
  <2> SUFFICES ASSUME NEW o \in Run, Active(o)', runs'[o].alone
               PROVE  /\ \A p \in Run : Active(p)' /\ CoinOf[p] = CoinOf[o] => p = o
                      /\ \A b \in Yields[RequestOf[o]] \ runs'[o].left :
                            lake'[Path(CoinOf[o], b)] = Holds(RequestOf[o], b)
                      /\ o \notin Replacing => Recorded(CoinOf[o])' \in {None, RequestOf[o]}
    BY DEF Alone
  <2>1. Active(o) /\ runs[o].alone /\ CoinOf[o] \notin of
    BY <1>5, <1>6, <1>7
  <2>2. \A p \in Run : Active(p) /\ CoinOf[p] = CoinOf[o] => p = o
    BY <2>1 DEF LakeInv, Alone
  <2>3. ASSUME NEW b \in Yields[RequestOf[o]] \ runs'[o].left
        PROVE  lake'[Path(CoinOf[o], b)] = Holds(RequestOf[o], b)
    <3>1. CoinOf[o] \in Coin /\ RequestOf[o] \in Request /\ b \in Artifacts
      BY LakeAssumption
    <3>2. CASE o = r
      <4>1. b = a \/ b \notin runs[r].left
        BY <1>5, <3>2
      <4>2. CASE b = a
        BY <1>10, <2>1, <3>1, <3>2, <4>2
      <4>3. CASE b \notin runs[r].left
        BY <1>10, <2>1, <3>1, <3>2, <4>3 DEF LakeInv, Alone
      <4>4. QED  BY <4>1, <4>2, <4>3
    <3>3. CASE o # r
      <4>1. CoinOf[o] # x
        BY <1>1, <2>2, <3>3
      <4>2. lake[Path(CoinOf[o], b)] = Holds(RequestOf[o], b)
        BY <1>6, <2>1, <3>3 DEF LakeInv, Alone
      <4>3. QED  BY <1>10, <2>1, <3>1, <4>1, <4>2
    <3>4. QED  BY <3>2, <3>3
  <2>4. Recorded(CoinOf[o])' = Recorded(CoinOf[o])
    <3>1. CoinOf[o] \in Coin /\ "coverage" \in Artifacts
      BY LakeAssumption DEF Artifacts
    <3>2. CASE o = r
      <4>1. a # "coverage"
        BY <1>5, <3>2
      <4>2. Path(CoinOf[o], "coverage") # path
        BY <1>2, <1>3, <1>4, <3>1, <4>1, PathsTell
      <4>3. QED  BY <1>1, <1>4, <3>1, <4>2, PathIsFile DEF LakeInv, LakeType, Recorded
    <3>3. CASE o # r
      <4>1. CoinOf[o] # x
        BY <1>1, <2>2, <3>3
      <4>2. Path(CoinOf[o], "coverage") # path
        BY <1>2, <1>3, <1>4, <3>1, <4>1, PathsTell
      <4>3. QED  BY <1>1, <1>4, <3>1, <4>2, PathIsFile DEF LakeInv, LakeType, Recorded
    <3>4. QED  BY <3>2, <3>3
  <2>5. o \notin Replacing => Recorded(CoinOf[o])' \in {None, RequestOf[o]}
    BY <2>1, <2>4 DEF LakeInv, Alone
  <2>6. QED  BY <1>7, <2>2, <2>3, <2>5
<1>12. CoverageTells'
  <2> SUFFICES ASSUME NEW coin \in Coin, NEW p \in Request, Recorded(coin)' = p,
                      ~disturbed'[coin], NEW b \in Yields[p]
               PROVE  \E s \in {p} \union begun'[coin] : lake'[Path(coin, b)] = Holds(s, b)
    BY DEF CoverageTells
  <2>1. coin \notin of /\ b \in Artifacts /\ "coverage" \in Artifacts
    BY <1>1, LakeAssumption DEF Artifacts
  <2>2. CASE coin # x
    <3>1. Path(coin, "coverage") # path
      BY <1>2, <1>3, <1>4, <2>1, <2>2, PathsTell
    <3>2. Recorded(coin) = p /\ ~disturbed[coin] /\ begun'[coin] = begun[coin]
      BY <1>1, <1>4, <2>1, <2>2, <3>1, PathIsFile DEF LakeInv, LakeType, Recorded
    <3>3. PICK s \in {p} \union begun[coin] : lake[Path(coin, b)] = Holds(s, b)
      BY <3>2 DEF LakeInv, CoverageTells
    <3>4. s \in Request
      BY <3>3 DEF LakeInv, LakeType
    <3>5. lake'[Path(coin, b)] = Holds(s, b)
      BY <1>10, <2>1, <2>2, <3>3, <3>4
    <3>6. QED  BY <3>2, <3>3, <3>5
  <2>3. CASE coin = x /\ a = "coverage"
    <3>1. ~torn /\ runs[r].alone
      BY <1>1, <1>4, <2>1, <2>3
    <3>2. p = q
      BY <1>1, <1>4, <2>3, <3>1 DEF LakeInv, LakeType, Recorded, Holds
    <3>3. b # a => lake[Path(coin, b)] = Holds(p, b)
      <4> SUFFICES ASSUME b # a PROVE lake[Path(coin, b)] = Holds(p, b)
        OBVIOUS
      <4>1. b \in Yields[RequestOf[r]] \ runs[r].left
        BY <1>3, <2>3, <3>2
      <4>2. lake[Path(CoinOf[r], b)] = Holds(RequestOf[r], b)
        BY <1>1, <3>1, <4>1 DEF LakeInv, Alone
      <4>3. QED  BY <2>3, <3>2, <4>2
    <3>4. lake'[Path(coin, b)] = Holds(p, b)
      BY <1>10, <2>1, <2>3, <3>2, <3>3
    <3>5. QED  BY <3>4
  <2>4. CASE coin = x /\ a # "coverage"
    <3>1. ~disturbed[coin] /\ runs[r].alone
      BY <1>1, <2>1, <2>4
    <3>2. Path(coin, "coverage") # path
      BY <1>2, <1>3, <1>4, <2>1, <2>4, PathsTell
    <3>3. Recorded(coin) = p
      BY <1>1, <1>4, <2>1, <3>2, PathIsFile DEF LakeInv, LakeType, Recorded
    <3>4. r \notin Replacing => p = q
      BY <1>1, <2>4, <3>1, <3>3, LakeAssumption DEF LakeInv, Alone
    <3>5. q \in {p} \union begun'[coin] /\ begun[coin] \subseteq begun'[coin]
      BY <1>1, <2>4, <3>4 DEF LakeInv, LakeType
    <3>6. PICK s \in {p} \union begun[coin] : lake[Path(coin, b)] = Holds(s, b)
      BY <3>1, <3>3 DEF LakeInv, CoverageTells
    <3>7. s \in Request
      BY <3>6 DEF LakeInv, LakeType
    <3>8. CASE b = a
      <4>1. lake'[Path(coin, b)] = Holds(q, b)
        BY <1>2, <1>10, <2>1, <2>4, <3>8
      <4>2. QED  BY <3>5, <4>1
    <3>9. CASE b # a
      <4>1. lake'[Path(coin, b)] = Holds(s, b)
        BY <1>10, <2>1, <3>6, <3>7, <3>9
      <4>2. QED  BY <3>5, <3>6, <4>1
    <3>10. QED  BY <3>8, <3>9
  <2>5. QED  BY <2>2, <2>3, <2>4
<1>13. QED  BY <1>8, <1>9, <1>11, <1>12 DEF LakeInv

\* A coin-day with recorded hours holds every artifact of these hours, or one of
\* a run that was told to replace them and has not recorded its own, for any
\* runs, whichever of them fail or are killed, of a coin whose runs did not
\* overlap (run_backfill).
THEOREM RecordedHoursTell == Spec => []CoverageTells
<1>1. Init => LakeInv
  <2> SUFFICES ASSUME Init PROVE LakeInv
    OBVIOUS
  <2>1. LakeType
    BY DEF Init, LakeInit, LakeType, RunRecord, Idle
  <2>2. Working /\ Alone
    BY DEF Init, LakeInit, Working, Alone, Active, Idle
  <2>3. CoverageTells
    <3>1. \A coin \in Coin : Path(coin, "coverage") \in Paths
      BY PathIsFile DEF Artifacts
    <3>2. \A coin \in Coin : Recorded(coin) = None
      BY <3>1 DEF Init, LakeInit, Recorded
    <3>3. QED  BY <3>2, LakeAssumption DEF CoverageTells
  <2>4. QED  BY <2>1, <2>2, <2>3 DEF LakeInv
<1>2. LakeInv /\ [Next]_vars => LakeInv'
  <2> SUFFICES ASSUME LakeInv, [Next]_vars PROVE LakeInv'
    OBVIOUS
  <2>1. ASSUME NEW r \in Run, JobRuns(r) PROVE LakeInv'
    <3>1. CASE FindsNoFile(r)
      BY <3>1, EndingKeeps DEF FindsNoFile
    <3>2. QED  BY <2>1, <3>1, StartingKeeps, OpeningKeeps, PublishingKeeps DEF JobRuns
  <2>2. ASSUME NEW r \in Run, RunStops(r) PROVE LakeInv'
    BY <2>2, EndingKeeps DEF RunStops, Stops
  <2>3. ASSUME NEW r \in Run, JobEnds(r) PROVE LakeInv'
    BY <2>3, EndingKeeps DEF JobEnds
  <2>4. ASSUME NEW x \in Caller, RefreshDies(x) PROVE LakeInv'
    <3>1. CASE x \in Run
      BY <2>4, <3>1, EndingKeeps DEF RefreshDies
    <3>2. CASE x \notin Run
      BY <2>4, <3>2, LakeStutters DEF RefreshDies
    <3>3. QED  BY <3>1, <3>2
  <2>5. CASE UNCHANGED lakeVars
    BY <2>5, LakeStutters DEF lakeVars
  <2>6. QED
    BY <2>1, <2>2, <2>3, <2>4, <2>5
       DEF Next, vars, JobRefreshes, Asks, Scores, Persists, RefreshFails, Promotes
<1>3. LakeInv => CoverageTells
  BY DEF LakeInv
<1>4. QED  BY <1>1, <1>2, <1>3, PTL DEF Spec

-----------------------------------------------------------------------------
(* Decisions. *)

\* Where every refresh is, and the model it has loaded.
RefreshType ==
    /\ model \in 1 .. Models
    /\ refresh = [x \in Caller |-> refresh[x]]
    /\ decisions = [k \in Alert \X (1 .. Models) |-> decisions[k]]
    /\ swapped \in BOOLEAN
    /\ \A x \in Caller : refresh[x] = [at |-> refresh[x].at, gold |-> refresh[x].gold,
                                      scorer |-> refresh[x].scorer, scores |-> refresh[x].scores]

\* A refresh has loaded a model and its decisions are to come.
Holding(x) == refresh[x].at = "loaded" \/ refresh[x].at = "scored"

\* As long as no model was promoted under a refresh, what a refresh has
\* loaded is the promoted model, and it scores with nothing else.
LoadedIsPromoted ==
    ~swapped => \A x \in Caller :
        /\ refresh[x].scorer = 0 \/ refresh[x].scorer = model
        /\ Holding(x) => refresh[x].scorer = model

DecisionInv == RefreshType /\ LoadedIsPromoted /\ DecisionsTell
-----------------------------------------------------------------------------
\* Of two keys of one fill, the one of a model is its own.
LEMMA KeysTell ==
    ASSUME NEW S, NEW m, NEW k \in {DecisionKey(alert, m) : alert \in S}
    PROVE  k[2] = m
BY DEF DecisionKey

\* A refresh that goes to an end, or has just begun, leaves the others where they are.
LEMMA RefreshMoves ==
    ASSUME DecisionInv, NEW x \in Caller, NEW at, NEW gold, NEW scorer, NEW scores,
           refresh' = [refresh EXCEPT ![x] = [at |-> at, gold |-> gold, scorer |-> scorer,
                                              scores |-> scores]],
           ~swapped => (scorer = 0 \/ scorer = model) /\ (at = "loaded" \/ at = "scored" => scorer = model),
           UNCHANGED <<model, swapped>>,
           decisions' = [k \in Alert \X (1 .. Models) |-> decisions'[k]],
           DecisionsTell'
    PROVE  DecisionInv'
<1> DEFINE new == [at |-> at, gold |-> gold, scorer |-> scorer, scores |-> scores]
<1>1. \A y \in Caller : refresh'[y] = IF y = x THEN new ELSE refresh[y]
  BY DEF DecisionInv, RefreshType
<1>2. new.at = at /\ new.scorer = scorer /\ new.gold = gold /\ new.scores = scores
  OBVIOUS
<1>3. refresh' = [y \in Caller |-> refresh'[y]]
  BY DEF DecisionInv, RefreshType
<1>4. RefreshType'
  BY <1>1, <1>2, <1>3 DEF DecisionInv, RefreshType
<1>5. LoadedIsPromoted'
  BY <1>1, <1>2 DEF DecisionInv, LoadedIsPromoted, Holding
<1>6. QED  BY <1>4, <1>5 DEF DecisionInv

\* A decision is recorded under the model that made it, as long as no model is
\* promoted under a refresh that has loaded the last, for any fills and models.
THEOREM KeysTellTheModel == Spec => []DecisionsTell
<1>1. Init => DecisionInv
  <2> SUFFICES ASSUME Init PROVE DecisionInv
    OBVIOUS
  <2>1. RefreshType
    <3>1. model \in 1 .. Models
      BY ServiceAssumption DEF Init
    <3>2. \A x \in Caller : refresh[x] = Unasked
      BY DEF Init
    <3>3. Unasked = [at |-> Unasked.at, gold |-> Unasked.gold, scorer |-> Unasked.scorer,
                     scores |-> Unasked.scores]
      BY DEF Unasked
    <3>4. refresh = [x \in Caller |-> refresh[x]]
      BY DEF Init
    <3>5. decisions = [k \in Alert \X (1 .. Models) |-> decisions[k]] /\ swapped \in BOOLEAN
      BY DEF Init
    <3>6. QED  BY <3>1, <3>2, <3>3, <3>4, <3>5 DEF RefreshType
  <2>2. LoadedIsPromoted
    BY DEF Init, LoadedIsPromoted, Holding, Unasked
  <2>3. DecisionsTell
    BY DEF Init, DecisionsTell
  <2>4. QED  BY <2>1, <2>2, <2>3 DEF DecisionInv
<1>2. DecisionInv /\ [Next]_vars => DecisionInv'
  <2> SUFFICES ASSUME DecisionInv, [Next]_vars PROVE DecisionInv'
    OBVIOUS
  <2>1. CASE UNCHANGED <<model, refresh, decisions, swapped>>
    BY <2>1 DEF DecisionInv, RefreshType, LoadedIsPromoted, Holding, DecisionsTell
  <2>2. ASSUME UNCHANGED <<decisions, swapped>>
        PROVE  /\ DecisionsTell'
               /\ decisions' = [k \in Alert \X (1 .. Models) |-> decisions'[k]]
    BY <2>2 DEF DecisionInv, RefreshType, DecisionsTell
  <2>3. ASSUME NEW x \in Caller, Begins(x), UNCHANGED <<model, decisions, swapped>>
        PROVE  DecisionInv'
    BY <2>2, <2>3, RefreshMoves DEF Begins
  <2>4. ASSUME NEW x \in Caller, Finished(x), UNCHANGED <<model, swapped>>,
               DecisionsTell', decisions' = [k \in Alert \X (1 .. Models) |-> decisions'[k]]
        PROVE  DecisionInv'
    <3> DEFINE at == IF x \in Run THEN "ended" ELSE "idle"
    <3>1. refresh' = [refresh EXCEPT ![x] = [at |-> at, gold |-> None, scorer |-> 0, scores |-> {}]]
      <4>1. [Unasked EXCEPT !.at = IF x \in Run THEN "ended" ELSE @]
                = [at |-> at, gold |-> None, scorer |-> 0, scores |-> {}]
        BY DEF Unasked
      <4>2. QED  BY <2>4, <4>1 DEF Finished
    <3>2. at # "loaded" /\ at # "scored"
      OBVIOUS
    <3> HIDE DEF at
    <3>3. QED  BY <2>4, <3>1, <3>2, RefreshMoves
  <2>5. ASSUME NEW x \in Caller, refresh' = [refresh EXCEPT ![x] = Unasked],
               UNCHANGED <<model, decisions, swapped>>
        PROVE  DecisionInv'
    BY <2>2, <2>5, RefreshMoves DEF Unasked
  <2>6. ASSUME NEW x \in Caller, Scores(x) PROVE DecisionInv'
    <3> DEFINE held == lake[Path(refresh[x].gold, "training")]
    <3>1. CASE held = Torn
      BY <2>2, <2>4, <2>6, <3>1 DEF Scores, records
    <3>2. CASE held # Torn
      <4>2. refresh' = [refresh EXCEPT ![x] = [at |-> "scored", gold |-> refresh[x].gold,
                                               scorer |-> refresh[x].scorer,
                                               scores |-> Alerts[held]]]
        BY <2>6, <3>2 DEF Scores
      <4>3. ~swapped => refresh[x].scorer = model
        <5>1. refresh[x].at = "loaded"
          BY <2>6 DEF Scores
        <5>2. QED  BY <5>1 DEF DecisionInv, LoadedIsPromoted, Holding
      <4>4. UNCHANGED <<model, decisions, swapped>>
        BY <2>6 DEF Scores, records
      <4>5. QED  BY <2>2, <4>2, <4>3, <4>4, RefreshMoves
    <3>3. QED  BY <3>1, <3>2
  <2>7. ASSUME NEW x \in Caller, Persists(x) PROVE DecisionInv'
    <3> DEFINE keys == {DecisionKey(alert, model) : alert \in refresh[x].scores}
    <3>1. /\ decisions' = [k \in DOMAIN decisions |->
                             IF k \in keys THEN refresh[x].scorer ELSE decisions[k]]
          /\ refresh[x].at = "scored" /\ Finished(x) /\ UNCHANGED <<model, swapped>>
      BY <2>7 DEF Persists
    <3>2. decisions' = [k \in Alert \X (1 .. Models) |-> decisions'[k]]
      BY <3>1 DEF DecisionInv, RefreshType
    <3>3. DecisionsTell'
      <4> SUFFICES ASSUME ~swapped, NEW k \in DOMAIN decisions PROVE decisions'[k] \in {0, k[2]}
        BY <3>1 DEF DecisionsTell
      <4>1. CASE k \in keys
        <5>1. k[2] = model
          BY <4>1, KeysTell
        <5>2. refresh[x].scorer = model
          BY <3>1 DEF DecisionInv, LoadedIsPromoted, Holding
        <5>3. QED  BY <3>1, <4>1, <5>1, <5>2
      <4>2. CASE k \notin keys
        BY <3>1, <4>2 DEF DecisionInv, DecisionsTell
      <4>3. QED  BY <4>1, <4>2
    <3>4. QED  BY <2>4, <3>1, <3>2, <3>3
  <2>8. CASE Promotes
    <3>1. RefreshType'
      BY <2>8, ServiceAssumption DEF Promotes, DecisionInv, RefreshType
    <3>2. LoadedIsPromoted'
      <4> SUFFICES ASSUME ~swapped', NEW x \in Caller
                   PROVE  /\ refresh'[x].scorer = 0 \/ refresh'[x].scorer = model'
                          /\ Holding(x)' => refresh'[x].scorer = model'
        BY DEF LoadedIsPromoted
      <4>1. ~swapped /\ refresh[x].scorer = 0 /\ refresh' = refresh
        BY <2>8 DEF Promotes
      <4>2. model # 0
        BY DEF DecisionInv, RefreshType
      <4>3. QED  BY <4>1, <4>2 DEF DecisionInv, LoadedIsPromoted, Holding
    <3>3. DecisionsTell'
      BY <2>8 DEF Promotes, DecisionInv, DecisionsTell
    <3>4. QED  BY <3>1, <3>2, <3>3 DEF DecisionInv
  <2>9. ASSUME NEW r \in Run,
               JobRuns(r) \/ RunStops(r) \/ JobRefreshes(r) \/ JobEnds(r)
        PROVE  DecisionInv'
    <3>1. r \in Caller
      BY DEF Caller
    <3>2. QED
      BY <2>1, <2>3, <2>5, <2>9, <3>1
         DEF JobRuns, RunStops, JobRefreshes, JobEnds, serviceVars, records
  <2>10. ASSUME NEW x \in Page, NEW old \in BOOLEAN, Asks(x, old) PROVE DecisionInv'
    BY <2>3, <2>10 DEF Asks, Caller, records
  <2>11. ASSUME NEW x \in Caller, RefreshFails(x) \/ RefreshDies(x) PROVE DecisionInv'
    BY <2>2, <2>4, <2>5, <2>11 DEF RefreshFails, RefreshDies, records
  <2>12. CASE UNCHANGED vars
    BY <2>1, <2>12 DEF vars, serviceVars, records
  <2>13. QED  BY <2>6, <2>7, <2>8, <2>9, <2>10, <2>11, <2>12 DEF Next
<1>3. DecisionInv => DecisionsTell
  BY DEF DecisionInv
<1>4. QED  BY <1>1, <1>2, <1>3, PTL DEF Spec
=============================================================================
