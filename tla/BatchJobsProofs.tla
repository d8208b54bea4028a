-------------------------- MODULE BatchJobsProofs --------------------------
(***************************************************************************)
(* Theorems about BatchJobs for every value of its constants.  The         *)
(* argument: the registry gives a job to one thread, so a step of a thread *)
(* touches only its own job, and what a worker relies on between two steps *)
(* (its place in the loop, the checkpoints behind it, the consent of the   *)
(* user) is changed by nobody else.  On that rest the checkpoints: what    *)
(* splitting makes of a text covers it, and what a run takes over, gathers *)
(* and assembles is of one plan unless it began stale.  On both rest the   *)
(* outputs: alone between opening and replacing the temporary file, a      *)
(* worker finds what it has written there.                                 *)
(***************************************************************************)
EXTENDS BatchJobs, WellFoundedInduction, TLAPS

InHand == {"running", "paused", "interrupted"}

\* A worker is registered for its job, which is in the store.
Kept(t) == Busy(t) => reg[w[t].job] = t /\ Exists(w[t].job)

\* A job in hand has its thread, and a thread that ends leaves none in hand.
Shown(j) == Status(j) \in InHand => faults > 0 \/ Alive(j)
Left(t) == At(t, "close") /\ Status(w[t].job) \in InHand => faults > 0

\* The worker's place in its loop, and the checkpoints behind it.
InLoop == {"poll", "work", "progress"}
Begun == Places \ {"begin", "prepare", "fail", "close"}

InPlace(t) ==
  Busy(t) =>
    /\ w[t].analysis => Kind(t) = "analysis"
    /\ w[t].pc \in Begun =>
         w[t].plan \in Versions /\ (w[t].analysis \/ Kind(t) \in Transforms)
    /\ w[t].pc \in InLoop => w[t].idx <= Len(Splits[Kind(t)][w[t].plan])
    /\ Kind(t) = "chunks" =>
         /\ w[t].pc \in InLoop \cup {"assemble"} =>
              \A i \in 1..MaxChunks : i < w[t].idx => cp[w[t].job][i] # None
         /\ w[t].pc = "progress" => cp[w[t].job][w[t].idx] # None
         /\ w[t].pc = "assemble" => w[t].idx > Len(Splits["chunks"][w[t].plan])

\* The consent of the user to the chunk in turn of a controlled job.
Consented(t) ==
  Busy(t) /\ Kind(t) = "chunks" /\ job[w[t].job].mode = "controlled" =>
    /\ w[t].pc \in {"begin", "prepare", "work"} => allowed[w[t].job]
    /\ w[t].pc = "poll" /\ Status(w[t].job) \notin {"paused", "cancelled"} =>
         allowed[w[t].job]

WorkerInv == \A t \in Threads : Kept(t) /\ Left(t) /\ InPlace(t) /\ Consented(t)
StoreInv == \A j \in Jobs : Shown(j)

IInv == TypeOK /\ WorkerInv /\ StoreInv

-----------------------------------------------------------------------------
(* Splitting: what pack_units and build_json_freetext_batches have packed    *)
(* after each unit covers the text read so far, chunk after chunk.           *)

\* What holds at the start and from one turn to the next holds of every turn.
LEMMA EveryTurn ==
  ASSUME NEW n \in Nat, NEW f, NEW S, f[0] \in S,
         \A i \in 1..n : f[i - 1] \in S => f[i] \in S
  PROVE  \A i \in 0..n : f[i] \in S
<1> DEFINE Out == {i \in 0..n : f[i] \notin S}
<1>1. SUFFICES ASSUME Out # {} PROVE FALSE
  OBVIOUS
<1>2. Out \subseteq Nat
  OBVIOUS
<1>3. PICK m \in Out : \A k \in Out : ~ (<<k, m>> \in OpToRel(<, Nat))
  BY <1>1, <1>2, WFMin, NatLessThanWellFounded
<1>4. \A k \in Out : ~ (k < m)
  BY <1>2, <1>3 DEF OpToRel
<1>5. m \in 1..n /\ f[m] \notin S
  OBVIOUS
<1>6. m - 1 \in 0..n /\ m - 1 < m
  BY <1>5
<1>7. f[m - 1] \in S
  BY <1>4, <1>6
<1> QED
  BY <1>5, <1>7

\* What a turn over a unit may be, and what the turns over all of them give
Turning(S) == [S \X Nat -> S]
Result(S, z, u, F, g) ==
  /\ g \in [0..Len(u) -> S]
  /\ g[0] = z
  /\ \A i \in 1..Len(u) : g[i] = F[<<g[i - 1], u[i]>>]

\* The function that a recursion over the units defines exists.
LEMMA TurnsExist ==
  ASSUME NEW S, NEW z \in S, NEW u \in Seq(Nat), NEW F \in Turning(S)
  PROVE  \E g : Result(S, z, u, F, g)
<1> DEFINE Turns(n) == {g \in [0..n -> S] :
                          g[0] = z /\ \A i \in 1..n : g[i] = F[<<g[i - 1], u[i]>>]}
           found == [n \in 0..Len(u) |-> IF Turns(n) = {} THEN 0 ELSE 1]
<1>1. Len(u) \in Nat
  OBVIOUS
<1>2. Turns(0) # {}
  <2>1. [i \in 0..0 |-> z] \in Turns(0)
    OBVIOUS
  <2> QED
    BY <2>1
<1>3. ASSUME NEW n \in 1..Len(u), Turns(n - 1) # {}
      PROVE  Turns(n) # {}
  <2>1. PICK g \in Turns(n - 1) : TRUE
    BY <1>3
  <2>2. u[n] \in Nat /\ n - 1 \in 0..(n - 1) /\ n \in Nat
    BY <1>3
  <2>3. g \in [0..(n - 1) -> S] /\ g[0] = z
        /\ \A i \in 1..(n - 1) : g[i] = F[<<g[i - 1], u[i]>>]
    OBVIOUS
  <2>4. PICK next \in S : next = F[<<g[n - 1], u[n]>>]
    BY <2>2, <2>3 DEF Turning
  <2> DEFINE h == [i \in 0..n |-> IF i = n THEN next ELSE g[i]]
  <2>5. h \in [0..n -> S]
    BY <2>2, <2>3
  <2>6. h[0] = z
    BY <2>2, <2>3, <1>3
  <2>7. ASSUME NEW i \in 1..n
        PROVE  h[i] = F[<<h[i - 1], u[i]>>]
    <3>1. h[i - 1] = g[i - 1]
      BY <2>2
    <3>2. i = n => h[i] = next
      BY <2>2
    <3>3. i # n => h[i] = g[i] /\ i \in 1..(n - 1)
      BY <2>2
    <3> HIDE DEF h
    <3> QED
      BY <2>3, <2>4, <3>1, <3>2, <3>3
  <2> HIDE DEF h
  <2>8. h \in Turns(n)
    BY <2>5, <2>6, <2>7
  <2> QED
    BY <2>8
<1> HIDE DEF Turns
<1>4. found[0] \in {1}
  BY <1>1, <1>2
<1>5. \A n \in 1..Len(u) : found[n - 1] \in {1} => found[n] \in {1}
  BY <1>1, <1>3
<1> HIDE DEF found
<1>6. \A n \in 0..Len(u) : found[n] \in {1}
  BY <1>1, <1>4, <1>5, EveryTurn
<1>7. Turns(Len(u)) # {}
  BY <1>1, <1>6 DEF found
<1> QED
  BY <1>7 DEF Turns, Result

\* The chunks c are not empty, adjoin, begin at lo and end at hi.
Tiles(c, lo, hi) ==
  /\ c \in Seq(Nat \X Nat)
  /\ \A i \in 1..Len(c) :
       c[i][1] = (IF i = 1 THEN lo ELSE c[i - 1][2] + 1) /\ c[i][1] <= c[i][2]
  /\ hi = IF Len(c) = 0 THEN lo - 1 ELSE c[Len(c)][2]

LEMMA TilesJoin ==
  ASSUME NEW lo \in Nat, NEW mid \in Int, NEW hi \in Int, NEW c, NEW d,
         Tiles(c, lo, mid), Tiles(d, mid + 1, hi)
  PROVE  Tiles(c \o d, lo, hi)
<1>1. c \in Seq(Nat \X Nat) /\ d \in Seq(Nat \X Nat)
  BY DEF Tiles
<1>2. PICK m \in Nat, n \in Nat : m = Len(c) /\ n = Len(d)
  BY <1>1
<1>3. PICK e : e = c \o d
  OBVIOUS
<1>4. /\ e \in Seq(Nat \X Nat) /\ Len(e) = m + n
      /\ \A i \in 1..m : e[i] = c[i]
      /\ \A i \in 1..(m + n) : i > m => e[i] = d[i - m]
  BY <1>1, <1>2, <1>3
<1>5. ASSUME NEW i \in 1..(m + n)
      PROVE  e[i][1] = (IF i = 1 THEN lo ELSE e[i - 1][2] + 1) /\ e[i][1] <= e[i][2]
  <2>1. CASE i <= m
    <3>1. i \in 1..m /\ (i # 1 => i - 1 \in 1..m)
      BY <2>1
    <3>2. e[i] = c[i] /\ (i # 1 => e[i - 1] = c[i - 1])
      BY <1>4, <3>1
    <3> QED
      BY <1>2, <3>1, <3>2 DEF Tiles
  <2>2. CASE i = m + 1
    <3>1. 1 \in 1..n /\ i > m /\ i - m = 1
      BY <2>2
    <3>2. e[i] = d[1]
      BY <1>4, <3>1
    <3>3. d[1][1] = mid + 1 /\ d[1][1] <= d[1][2]
      BY <1>2, <3>1 DEF Tiles
    <3>4. CASE m = 0
      <4>1. mid = lo - 1
        BY <1>2, <3>4 DEF Tiles
      <4> QED
        BY <2>2, <3>2, <3>3, <3>4, <4>1
    <3>5. CASE m # 0
      <4>1. i # 1 /\ i - 1 = m /\ m \in 1..m
        BY <2>2, <3>5
      <4>2. e[i - 1][2] = mid
        BY <1>2, <1>4, <3>5, <4>1 DEF Tiles
      <4> QED
        BY <3>2, <3>3, <4>1, <4>2
    <3> QED
      BY <3>4, <3>5
  <2>3. CASE i > m + 1
    <3>1. i # 1 /\ i - m \in 1..n /\ i - m # 1 /\ i - 1 \in 1..(m + n)
          /\ i > m /\ i - 1 > m /\ (i - 1) - m = (i - m) - 1
      BY <2>3
    <3>2. e[i] = d[i - m] /\ e[i - 1] = d[(i - m) - 1]
      BY <1>4, <3>1
    <3> QED
      BY <1>2, <3>1, <3>2 DEF Tiles
  <2> QED
    BY <2>1, <2>2, <2>3
<1>6. hi = IF m + n = 0 THEN lo - 1 ELSE e[m + n][2]
  <2>1. CASE n = 0
    <3>1. hi = mid
      BY <1>2, <2>1 DEF Tiles
    <3>2. m # 0 => e[m] = c[m]
      BY <1>4
    <3> QED
      BY <1>2, <2>1, <3>1, <3>2 DEF Tiles
  <2>2. CASE n # 0
    <3>1. m + n \in 1..(m + n) /\ m + n > m /\ (m + n) - m = n /\ m + n # 0
      BY <2>2
    <3>2. e[m + n] = d[n]
      BY <1>4, <3>1
    <3> QED
      BY <1>2, <2>2, <3>1, <3>2 DEF Tiles
  <2> QED
    BY <2>1, <2>2
<1>7. Tiles(e, lo, hi)
  BY <1>4, <1>5, <1>6 DEF Tiles
<1> QED
  BY <1>3, <1>7

\* A unit that is too large is cut into parts that cover it.
LEMMA HardPartsTile ==
  ASSUME NEW lo \in Nat, NEW hi \in Nat, lo <= hi
  PROVE  Tiles(HardParts(lo, hi), lo, hi)
<1>1. Limit \in Nat /\ Limit > 0
  BY BatchAssumption
<1>2. PICK q : q = (hi - lo) \div Limit
  OBVIOUS
<1>3. q \in Nat /\ q * Limit <= hi - lo
  BY <1>1, <1>2
<1> DEFINE p == HardParts(lo, hi)
<1>4. p = [i \in 1..(q + 1) |-> <<lo + (i - 1) * Limit,
                                   IF i = q + 1 THEN hi ELSE lo + i * Limit - 1>>]
  BY <1>2 DEF HardParts
<1>5. ASSUME NEW i \in 1..(q + 1)
      PROVE  /\ lo + (i - 1) * Limit \in Nat /\ lo + i * Limit - 1 \in Nat
             /\ lo + (i - 1) * Limit <= lo + i * Limit - 1
  <2>1. (i - 1) * Limit \in Nat
    BY <1>1, <1>3, <1>5
  <2>2. i * Limit = (i - 1) * Limit + Limit
    BY <1>1, <1>3, <1>5
  <2> QED
    BY <1>1, <2>1, <2>2
<1> HIDE DEF p
<1>6. p \in Seq(Nat \X Nat) /\ Len(p) = q + 1
  <2>1. p \in [1..(q + 1) -> Nat \X Nat]
    BY <1>3, <1>4, <1>5
  <2>2. q + 1 \in Nat
    BY <1>3
  <2> QED
    BY <2>1, <2>2
<1>7. ASSUME NEW i \in 1..(q + 1)
      PROVE  /\ p[i][1] = lo + (i - 1) * Limit
             /\ p[i][2] = IF i = q + 1 THEN hi ELSE lo + i * Limit - 1
  BY <1>4, <1>7
<1>8. ASSUME NEW i \in 1..(q + 1)
      PROVE  p[i][1] = (IF i = 1 THEN lo ELSE p[i - 1][2] + 1) /\ p[i][1] <= p[i][2]
  <2>1. p[i][1] <= p[i][2]
    <3>1. CASE i = q + 1
      BY <1>1, <1>3, <1>7, <3>1
    <3>2. CASE i # q + 1
      BY <1>5, <1>7, <1>8, <3>2
    <3> QED
      BY <3>1, <3>2
  <2>2. CASE i = 1
    BY <1>1, <1>3, <1>7, <2>1, <2>2
  <2>3. CASE i # 1
    <3>1. i - 1 \in 1..(q + 1) /\ i - 1 # q + 1
      BY <1>3, <1>8, <2>3
    <3>2. p[i - 1][2] = lo + (i - 1) * Limit - 1
      BY <1>7, <3>1
    <3>3. (i - 1) * Limit \in Nat
      BY <1>1, <1>3, <1>8
    <3> QED
      BY <1>7, <1>8, <2>1, <2>3, <3>2, <3>3
  <2> QED
    BY <2>2, <2>3
<1>9. p[q + 1][2] = hi
  BY <1>3, <1>7
<1> QED
  BY <1>3, <1>6, <1>8, <1>9 DEF Tiles, p

\* Cut or not, a unit above the limit is covered.
LEMMA OversizedTile ==
  ASSUME NEW cuts, NEW lo \in Nat, NEW hi \in Nat, lo <= hi
  PROVE  Tiles(Oversized(cuts, lo, hi), lo, hi)
<1>1. PICK c : c = <<<<lo, hi>>>>
  OBVIOUS
<1>2. c \in Seq(Nat \X Nat) /\ Len(c) = 1 /\ c[1][1] = lo /\ c[1][2] = hi
  BY <1>1
<1>3. Tiles(c, lo, hi)
  BY <1>2 DEF Tiles
<1> QED
  BY <1>1, <1>3, HardPartsTile DEF Oversized

\* What has been packed of the text up to its position pos
States == [done : Seq(Nat \X Nat), lo : Nat, pos : Nat, items : Nat]
Packed == {s \in States : s.lo >= 1 /\ s.lo <= s.pos + 1 /\ Tiles(s.done, 1, s.lo - 1)}

\* The chunks that are done with the one being filled cover the text so far.
LEMMA CurrentTiles ==
  ASSUME NEW s \in Packed
  PROVE  Tiles(s.done \o Current(s), 1, s.pos)
<1>1. /\ s.done \in Seq(Nat \X Nat) /\ s.lo \in Nat /\ s.pos \in Nat
      /\ s.lo >= 1 /\ s.lo <= s.pos + 1 /\ Tiles(s.done, 1, s.lo - 1)
  BY DEF Packed, States
<1>2. Tiles(Current(s), s.lo, s.pos)
  <2>1. CASE s.pos < s.lo
    <3>1. Current(s) = <<>> /\ s.pos = s.lo - 1
      BY <1>1, <2>1 DEF Current
    <3> QED
      BY <3>1 DEF Tiles
  <2>2. CASE ~ (s.pos < s.lo)
    <3>1. Current(s) = <<<<s.lo, s.pos>>>>
      BY <2>2 DEF Current
    <3>2. PICK c : c = <<<<s.lo, s.pos>>>>
      OBVIOUS
    <3>3. c \in Seq(Nat \X Nat) /\ Len(c) = 1 /\ c[1][1] = s.lo /\ c[1][2] = s.pos
      BY <1>1, <3>2
    <3>4. Tiles(c, s.lo, s.pos)
      BY <1>1, <2>2, <3>3 DEF Tiles
    <3> QED
      BY <3>1, <3>2, <3>4
  <2> QED
    BY <2>1, <2>2
<1>3. (s.lo - 1) + 1 = s.lo /\ s.lo - 1 \in Int /\ s.pos \in Int
  BY <1>1
<1>4. Tiles(Current(s), (s.lo - 1) + 1, s.pos)
  BY <1>2, <1>3
<1> QED
  BY <1>1, <1>3, <1>4, TilesJoin

\* A turn of pack_units keeps what has been packed and reads n tokens more.
LEMMA AddUnitPacks ==
  ASSUME NEW s \in Packed, NEW n \in Nat, NEW cuts
  PROVE  AddUnit(s, n, cuts) \in Packed /\ AddUnit(s, n, cuts).pos = s.pos + n
<1>1. /\ s \in States /\ s.done \in Seq(Nat \X Nat) /\ s.lo \in Nat /\ s.pos \in Nat
      /\ s.items \in Nat /\ s.lo >= 1 /\ s.lo <= s.pos + 1
  BY DEF Packed, States
<1>2. PICK done : done = s.done \o Current(s)
  OBVIOUS
<1>3. Tiles(done, 1, s.pos)
  BY <1>2, CurrentTiles
<1>4. PICK end \in Nat : end = s.pos + n
  BY <1>1
<1>5. CASE n > Limit
  <2>1. s.pos + 1 \in Nat /\ s.pos + 1 <= end /\ s.pos \in Int /\ end \in Int /\ 1 \in Nat
    BY SMTT(30), <1>1, <1>4, <1>5, BatchAssumption
  <2>2. Tiles(Oversized(cuts, s.pos + 1, end), s.pos + 1, end)
    BY <1>4, <2>1, OversizedTile
  <2>3. PICK all : all = done \o Oversized(cuts, s.pos + 1, end)
    OBVIOUS
  <2>4. Tiles(all, 1, end)
    BY <1>3, <2>1, <2>2, <2>3, TilesJoin
  <2>5. AddUnit(s, n, cuts) = [done |-> all, lo |-> end + 1, pos |-> end, items |-> 0]
    BY <1>2, <1>4, <1>5, <2>3 DEF AddUnit
  <2>6. all \in Seq(Nat \X Nat) /\ (end + 1) - 1 = end
    BY <1>4, <2>4 DEF Tiles
  <2>7. PICK r : r = AddUnit(s, n, cuts)
    OBVIOUS
  <2>8. r \in States /\ r.done = all /\ r.lo = end + 1 /\ r.pos = end
    BY <1>4, <2>5, <2>6, <2>7 DEF States
  <2> QED
    BY <1>4, <2>4, <2>6, <2>7, <2>8 DEF Packed
<1>6. CASE ~ (n > Limit) /\ Current(s) # <<>> /\ end - s.lo + 1 > Limit
  <2>1. AddUnit(s, n, cuts) = [done |-> done, lo |-> s.pos + 1, pos |-> end, items |-> 1]
    BY <1>2, <1>4, <1>6 DEF AddUnit
  <2>2. done \in Seq(Nat \X Nat) /\ (s.pos + 1) - 1 = s.pos /\ s.pos + 1 <= end + 1
    BY <1>1, <1>3, <1>4 DEF Tiles
  <2>3. PICK r : r = AddUnit(s, n, cuts)
    OBVIOUS
  <2>4. r \in States /\ r.done = done /\ r.lo = s.pos + 1 /\ r.pos = end
    BY <1>1, <1>4, <2>1, <2>2, <2>3 DEF States
  <2> QED
    BY <1>1, <1>3, <1>4, <2>2, <2>3, <2>4 DEF Packed
<1>7. CASE ~ (n > Limit) /\ ~ (Current(s) # <<>> /\ end - s.lo + 1 > Limit)
  <2>1. AddUnit(s, n, cuts) = [s EXCEPT !.pos = end, !.items = s.items + 1]
    BY <1>4, <1>7 DEF AddUnit
  <2>2. PICK items \in Nat : items = s.items + 1
    BY <1>1
  <2>3. PICK C : C = Seq(Nat \X Nat)
    OBVIOUS
  <2>4. s \in [done : C, lo : Nat, pos : Nat, items : Nat]
    BY <1>1, <2>3 DEF States
  <2>5. PICK r : r = [s EXCEPT !.pos = end, !.items = items]
    OBVIOUS
  <2>6. /\ r \in [done : C, lo : Nat, pos : Nat, items : Nat]
        /\ r.done = s.done /\ r.lo = s.lo /\ r.pos = end
    BY <2>2, <2>4, <2>5
  <2>7. r \in States /\ r = AddUnit(s, n, cuts) /\ s.lo <= end + 1 /\ Tiles(s.done, 1, s.lo - 1)
    BY SMTT(30), <1>1, <1>4, <2>1, <2>2, <2>3, <2>5, <2>6 DEF States, Packed
  <2> QED
    BY <1>1, <1>4, <2>6, <2>7 DEF Packed
<1> QED
  BY <1>5, <1>6, <1>7

\* The same of a turn of build_json_freetext_batches.
LEMMA AddTargetPacks ==
  ASSUME NEW s \in Packed, NEW n \in Nat
  PROVE  AddTarget(s, n) \in Packed /\ AddTarget(s, n).pos = s.pos + n
<1>1. /\ s \in States /\ s.done \in Seq(Nat \X Nat) /\ s.lo \in Nat /\ s.pos \in Nat
      /\ s.items \in Nat /\ s.lo >= 1 /\ s.lo <= s.pos + 1
  BY DEF Packed, States
<1>2. PICK done : done = s.done \o Current(s)
  OBVIOUS
<1>3. Tiles(done, 1, s.pos)
  BY <1>2, CurrentTiles
<1>4. PICK end \in Nat : end = s.pos + n
  BY <1>1
<1> DEFINE Full == Current(s) # <<>> /\ (s.items >= MaxItems \/ end - s.lo + 1 > Limit)
<1>5. CASE Full
  <2>1. AddTarget(s, n) = [done |-> done, lo |-> s.pos + 1, pos |-> end, items |-> 1]
    BY <1>2, <1>4, <1>5 DEF AddTarget
  <2>2. done \in Seq(Nat \X Nat) /\ (s.pos + 1) - 1 = s.pos /\ s.pos + 1 <= end + 1
    BY <1>1, <1>3, <1>4 DEF Tiles
  <2>3. PICK r : r = AddTarget(s, n)
    OBVIOUS
  <2>4. r \in States /\ r.done = done /\ r.lo = s.pos + 1 /\ r.pos = end
    BY <1>1, <1>4, <2>1, <2>2, <2>3 DEF States
  <2> QED
    BY <1>1, <1>3, <1>4, <2>2, <2>3, <2>4 DEF Packed
<1>6. CASE ~Full
  <2>1. AddTarget(s, n) = [s EXCEPT !.pos = end, !.items = s.items + 1]
    BY <1>4, <1>6 DEF AddTarget
  <2>2. PICK items \in Nat : items = s.items + 1
    BY <1>1
  <2>3. PICK C : C = Seq(Nat \X Nat)
    OBVIOUS
  <2>4. s \in [done : C, lo : Nat, pos : Nat, items : Nat]
    BY <1>1, <2>3 DEF States
  <2>5. PICK r : r = [s EXCEPT !.pos = end, !.items = items]
    OBVIOUS
  <2>6. /\ r \in [done : C, lo : Nat, pos : Nat, items : Nat]
        /\ r.done = s.done /\ r.lo = s.lo /\ r.pos = end
    BY <2>2, <2>4, <2>5
  <2>7. r \in States /\ r = AddTarget(s, n) /\ s.lo <= end + 1 /\ Tiles(s.done, 1, s.lo - 1)
    BY SMTT(30), <1>1, <1>4, <2>1, <2>2, <2>3, <2>5, <2>6 DEF States, Packed
  <2> QED
    BY <1>1, <1>4, <2>6, <2>7 DEF Packed
<1> QED
  BY <1>5, <1>6

\* Nothing is packed at first.
LEMMA NothingPacked == Nothing \in Packed /\ Nothing.pos = 0
<1>1. Nothing \in States /\ Nothing.done = <<>> /\ Nothing.lo = 1 /\ Nothing.pos = 0
  BY DEF Nothing, States
<1>2. Tiles(<<>>, 1, 0)
  BY DEF Tiles
<1> QED
  BY <1>1, <1>2 DEF Packed

\* One turn of the loop that splits a text of this kind
Turned(kind, cuts, s, n) ==
  IF kind = "freetext" THEN AddTarget(s, n) ELSE AddUnit(s, n, cuts)

\* The turns over the units of version v, as Splits has them
Turns(kind, v) ==
  CHOOSE g : g = [i \in 0..Len(Units[v]) |->
                    IF i = 0 THEN Nothing
                    ELSE IF kind = "freetext" THEN AddTarget(g[i - 1], Units[v][i])
                    ELSE AddUnit(g[i - 1], Units[v][i], v \notin Uncut)]

\* The size of the first units of version v, as Size has it
Sums(v) ==
  CHOOSE g : g = [i \in 0..Len(Units[v]) |-> IF i = 0 THEN 0 ELSE g[i - 1] + Units[v][i]]

LEMMA TurnsDefined ==
  ASSUME NEW kind, NEW v \in Versions
  PROVE  /\ Turns(kind, v)[0] = Nothing
         /\ \A i \in 1..Len(Units[v]) :
              Turns(kind, v)[i] =
                Turned(kind, v \notin Uncut, Turns(kind, v)[i - 1], Units[v][i])
<1> DEFINE cuts == v \notin Uncut
<1>1. PICK u \in Seq(Nat) : u = Units[v]
  BY BatchAssumption
<1>2. PICK n \in Nat : n = Len(u)
  BY <1>1
<1> DEFINE F == [p \in Packed \X Nat |-> Turned(kind, cuts, p[1], p[2])]
<1>3. \A s \in Packed, k \in Nat : Turned(kind, cuts, s, k) \in Packed
  BY AddUnitPacks, AddTargetPacks DEF Turned
<1>4. F \in Turning(Packed)
  BY <1>3 DEF Turning
<1>5. \A s \in Packed, k \in Nat : F[<<s, k>>] = Turned(kind, cuts, s, k)
  OBVIOUS
<1> HIDE DEF F
<1>6. PICK g \in [0..n -> Packed] :
        g[0] = Nothing /\ \A i \in 1..n : g[i] = F[<<g[i - 1], u[i]>>]
  <2>1. \E g : Result(Packed, Nothing, u, F, g)
    BY <1>4, NothingPacked, TurnsExist
  <2> QED
    BY <1>2, <2>1 DEF Result
<1>7. \A i \in 1..n : g[i] = Turned(kind, cuts, g[i - 1], u[i])
  <2>1. SUFFICES ASSUME NEW i \in 1..n PROVE g[i] = Turned(kind, cuts, g[i - 1], u[i])
    OBVIOUS
  <2>2. i - 1 \in 0..n /\ u[i] \in Nat
    BY <1>1, <1>2
  <2>3. g[i - 1] \in Packed
    BY <2>2
  <2> QED
    BY <1>5, <1>6, <2>2, <2>3
<1> DEFINE Eq(f) == f = [i \in 0..Len(Units[v]) |->
                    IF i = 0 THEN Nothing
                    ELSE IF kind = "freetext" THEN AddTarget(f[i - 1], Units[v][i])
                    ELSE AddUnit(f[i - 1], Units[v][i], v \notin Uncut)]
<1>8. Eq(g)
  <2>1. \A i \in 0..n : g[i] = IF i = 0 THEN Nothing
                    ELSE IF kind = "freetext" THEN AddTarget(g[i - 1], u[i])
                    ELSE AddUnit(g[i - 1], u[i], cuts)
    BY <1>6, <1>7 DEF Turned
  <2> QED
    BY <1>1, <1>2, <2>1
<1>9. Eq(Turns(kind, v))
  <2>1. \E f : Eq(f)
    BY <1>8
  <2>2. Turns(kind, v) = CHOOSE f : Eq(f)
    BY DEF Turns
  <2> HIDE DEF Eq
  <2> QED
    BY <2>1, <2>2
<1>10. PICK f : f = Turns(kind, v)
  OBVIOUS
<1>11. \A i \in 0..n : f[i] = IF i = 0 THEN Nothing ELSE Turned(kind, cuts, f[i - 1], u[i])
  <2>1. Eq(f)
    BY <1>9, <1>10
  <2> QED
    BY <1>1, <1>2, <2>1 DEF Turned
<1>12. f[0] = Nothing /\ \A i \in 1..n : f[i] = Turned(kind, cuts, f[i - 1], u[i])
  BY <1>11
<1> QED
  BY <1>1, <1>2, <1>10, <1>12

LEMMA SumsDefined ==
  ASSUME NEW v \in Versions
  PROVE  /\ Sums(v)[0] = 0
         /\ \A i \in 1..Len(Units[v]) : Sums(v)[i] = Sums(v)[i - 1] + Units[v][i]
<1>1. PICK u \in Seq(Nat) : u = Units[v]
  BY BatchAssumption
<1>2. PICK n \in Nat : n = Len(u)
  BY <1>1
<1> DEFINE F == [p \in Nat \X Nat |-> p[1] + p[2]]
<1>3. F \in Turning(Nat) /\ \A s \in Nat, k \in Nat : F[<<s, k>>] = s + k
  BY DEF Turning
<1> HIDE DEF F
<1>4. PICK g \in [0..n -> Nat] :
        g[0] = 0 /\ \A i \in 1..n : g[i] = F[<<g[i - 1], u[i]>>]
  <2>1. 0 \in Nat
    OBVIOUS
  <2>2. \E g : Result(Nat, 0, u, F, g)
    BY <1>3, <2>1, TurnsExist
  <2> QED
    BY <1>2, <2>2 DEF Result
<1>5. \A i \in 1..n : g[i] = g[i - 1] + u[i]
  <2>1. SUFFICES ASSUME NEW i \in 1..n PROVE g[i] = g[i - 1] + u[i]
    OBVIOUS
  <2>2. i - 1 \in 0..n /\ u[i] \in Nat
    BY <1>1, <1>2
  <2>3. g[i - 1] \in Nat
    BY <2>2
  <2> QED
    BY <1>3, <1>4, <2>2, <2>3
<1> DEFINE Eq(f) == f = [i \in 0..Len(Units[v]) |->
                           IF i = 0 THEN 0 ELSE f[i - 1] + Units[v][i]]
<1>6. Eq(g)
  <2>1. \A i \in 0..n : g[i] = IF i = 0 THEN 0 ELSE g[i - 1] + u[i]
    BY <1>4, <1>5
  <2> QED
    BY <1>1, <1>2, <2>1
<1>7. Eq(Sums(v))
  <2>1. \E f : Eq(f)
    BY <1>6
  <2>2. Sums(v) = CHOOSE f : Eq(f)
    BY DEF Sums
  <2> HIDE DEF Eq
  <2> QED
    BY <2>1, <2>2
<1>8. PICK f : f = Sums(v)
  OBVIOUS
<1>9. \A i \in 0..n : f[i] = IF i = 0 THEN 0 ELSE f[i - 1] + u[i]
  <2>1. Eq(f)
    BY <1>7, <1>8
  <2> QED
    BY <1>1, <1>2, <2>1
<1>10. f[0] = 0 /\ \A i \in 1..n : f[i] = f[i - 1] + u[i]
  BY <1>9
<1> QED
  BY <1>1, <1>2, <1>8, <1>10

\* The chunks into which split_batch_content and build_json_freetext_batches cut a
\* text adjoin, are not empty and reach from its first token to its last: no
\* token of its units is lost or transformed twice.
THEOREM SplitsTile ==
  ASSUME NEW kind \in Kinds, NEW v \in Versions
  PROVE  Tiles(Splits[kind][v], 1, Size[v])
<1>1. PICK u \in Seq(Nat) : u = Units[v]
  BY BatchAssumption
<1>2. PICK n \in Nat : n = Len(u)
  BY <1>1
<1>3. PICK s : s = Turns(kind, v)
  OBVIOUS
<1>4. PICK sum : sum = Sums(v)
  OBVIOUS
<1>5. s[0] = Nothing /\ \A i \in 1..n : s[i] = Turned(kind, v \notin Uncut, s[i - 1], u[i])
  BY <1>1, <1>2, <1>3, TurnsDefined
<1>6. sum[0] = 0 /\ \A i \in 1..n : sum[i] = sum[i - 1] + u[i]
  BY <1>1, <1>2, <1>4, SumsDefined
<1>7. \A i \in 1..n : u[i] \in Nat
  BY <1>1, <1>2
<1> DEFINE both == [i \in 0..n |-> <<s[i], sum[i]>>]
           Right == {p \in Packed \X Nat : p[2] = p[1].pos}
<1>8. both[0] \in Right
  BY <1>2, <1>5, <1>6, NothingPacked
<1>9. ASSUME NEW i \in 1..n, both[i - 1] \in Right
      PROVE  both[i] \in Right
  <2>1. i - 1 \in 0..n /\ i \in 0..n
    BY <1>2
  <2>2. s[i - 1] \in Packed /\ sum[i - 1] \in Nat /\ sum[i - 1] = s[i - 1].pos
    BY <1>9, <2>1
  <2>3. s[i] \in Packed /\ s[i].pos = s[i - 1].pos + u[i]
    <3>1. PICK a \in Packed, k \in Nat : a = s[i - 1] /\ k = u[i]
      BY <1>7, <2>2
    <3>2. s[i] = Turned(kind, v \notin Uncut, a, k)
      BY <1>5, <3>1
    <3>3. Turned(kind, v \notin Uncut, a, k) \in Packed /\ Turned(kind, v \notin Uncut, a, k).pos = a.pos + k
      BY AddUnitPacks, AddTargetPacks DEF Turned
    <3> QED
      BY <3>1, <3>2, <3>3
  <2>4. sum[i] \in Nat /\ sum[i] = s[i].pos
    BY SMTT(30), <1>6, <1>7, <2>2, <2>3
  <2> QED
    BY <2>1, <2>3, <2>4
<1> HIDE DEF both, Right
<1>10. \A i \in 0..n : both[i] \in Right
  BY <1>2, <1>8, <1>9, EveryTurn
<1>11. s[n] \in Packed /\ sum[n] = s[n].pos
  <2>1. both[n] \in Right /\ both[n] = <<s[n], sum[n]>>
    BY <1>2, <1>10 DEF both
  <2> QED
    BY <2>1 DEF Right
<1>12. Splits[kind][v] = s[n].done \o Current(s[n])
  BY <1>1, <1>2, <1>3 DEF Splits, Turns
<1>13. Size[v] = sum[n]
  BY <1>1, <1>2, <1>4 DEF Size, Sums
<1>14. PICK r : r = s[n]
  OBVIOUS
<1>15. Tiles(r.done \o Current(r), 1, r.pos)
  BY <1>11, <1>14, CurrentTiles
<1> QED
  BY <1>11, <1>12, <1>13, <1>14, <1>15

LEMMA SplitsTyped ==
  ASSUME NEW kind \in Kinds, NEW v \in Versions
  PROVE  /\ Splits[kind][v] \in Seq(Nat \X Nat)
         /\ Len(Splits[kind][v]) \in 0..MaxChunks
<1>1. Splits[kind][v] \in Seq(Nat \X Nat)
  BY SplitsTile DEF Tiles
<1>2. Len(Splits[kind][v]) <= MaxChunks
  BY SplitsFit
<1> QED
  BY <1>1, <1>2, BatchAssumption

\* The items of a version that is not cut, as intervals of its tokens
Items(v) ==
  IF v \in Uncut
  THEN {<<Sums(v)[k - 1] + 1, Sums(v)[k]>> : k \in 1..Len(Units[v])} ELSE {}

\* The chunks c have at most Limit tokens each, but for whole items E.
Fits(p, E) == p[2] - p[1] < Limit \/ p \in E
Small(c, E) == \A i \in 1..Len(c) : Fits(c[i], E)

LEMMA SmallJoin ==
  ASSUME NEW c \in Seq(Nat \X Nat), NEW d \in Seq(Nat \X Nat),
         NEW E, Small(c, E), Small(d, E)
  PROVE  Small(c \o d, E)
<1>1. PICK m \in Nat, n \in Nat : m = Len(c) /\ n = Len(d)
  OBVIOUS
<1>2. PICK e : e = c \o d
  OBVIOUS
<1>3. /\ e \in Seq(Nat \X Nat) /\ Len(e) = m + n
      /\ \A i \in 1..m : e[i] = c[i]
      /\ \A i \in 1..(m + n) : i > m => e[i] = d[i - m] /\ i - m \in 1..n
  BY <1>1, <1>2
<1>4. ASSUME NEW i \in 1..(m + n)
      PROVE  Fits(e[i], E)
  <2>1. CASE i <= m
    <3>1. i \in 1..m /\ e[i] = c[i]
      BY <1>3, <2>1
    <3> QED
      BY <1>1, <3>1 DEF Small
  <2>2. CASE i > m
    <3>1. i - m \in 1..n /\ e[i] = d[i - m]
      BY <1>3, <2>2
    <3> QED
      BY <1>1, <3>1 DEF Small
  <2> QED
    BY <2>1, <2>2
<1> QED
  BY <1>2, <1>3, <1>4 DEF Small

\* split_chunk_hard cuts a unit into parts of Limit tokens and a shorter last one.
LEMMA HardPartsSmall ==
  ASSUME NEW lo \in Nat, NEW hi \in Nat, lo <= hi, NEW E
  PROVE  Small(HardParts(lo, hi), E)
<1>1. Limit \in Nat /\ Limit > 0
  BY BatchAssumption
<1>2. PICK q : q = (hi - lo) \div Limit
  OBVIOUS
<1>3. q \in Nat /\ hi - lo < q * Limit + Limit
  <2>1. PICK d \in Nat : d = hi - lo
    OBVIOUS
  <2>2. d \div Limit \in Nat /\ d < (d \div Limit) * Limit + Limit
    BY <1>1, <2>1
  <2> QED
    BY <1>2, <2>1, <2>2
<1>4. PICK p : p = HardParts(lo, hi)
  OBVIOUS
<1>5. p = [i \in 1..(q + 1) |-> <<lo + (i - 1) * Limit,
                                   IF i = q + 1 THEN hi ELSE lo + i * Limit - 1>>]
  BY <1>2, <1>4 DEF HardParts
<1>6. Len(p) = q + 1
  BY <1>3, <1>5
<1>7. ASSUME NEW i \in 1..(q + 1)
      PROVE  p[i][2] - p[i][1] < Limit
  <2>1. /\ p[i][1] = lo + (i - 1) * Limit
        /\ p[i][2] = IF i = q + 1 THEN hi ELSE lo + i * Limit - 1
    BY <1>5, <1>7
  <2>2. (i - 1) * Limit \in Nat /\ i * Limit = (i - 1) * Limit + Limit
    BY <1>1, <1>3, <1>7
  <2>3. CASE i = q + 1
    <3>1. p[i][1] = lo + q * Limit /\ q * Limit \in Nat /\ p[i][2] = hi
      BY <1>1, <1>3, <2>1, <2>3
    <3> QED
      BY <1>1, <1>3, <3>1
  <2>4. CASE i # q + 1
    BY <1>1, <2>1, <2>2, <2>4
  <2> QED
    BY <2>3, <2>4
<1> QED
  BY <1>4, <1>6, <1>7 DEF Small, Fits

\* What pack_units has packed is small, and so is the chunk being filled.
PackedSmall(E) == {s \in Packed : Small(s.done, E) /\ s.pos - s.lo < Limit}

LEMMA CurrentSmall ==
  ASSUME NEW E, NEW s \in PackedSmall(E)
  PROVE  Small(s.done \o Current(s), E)
<1>1. /\ s.done \in Seq(Nat \X Nat) /\ s.lo \in Nat /\ s.pos \in Nat
      /\ Small(s.done, E) /\ s.pos - s.lo < Limit
  BY DEF PackedSmall, Packed, States
<1>2. CASE s.pos < s.lo
  <2>1. Current(s) = <<>>
    BY <1>2 DEF Current
  <2> QED
    BY <1>1, <2>1
<1>3. CASE ~ (s.pos < s.lo)
  <2>1. PICK c : c = <<<<s.lo, s.pos>>>>
    OBVIOUS
  <2>2. c \in Seq(Nat \X Nat) /\ Len(c) = 1 /\ c[1][1] = s.lo /\ c[1][2] = s.pos
    BY <1>1, <2>1
  <2>3. Small(c, E)
    BY <1>1, <2>2 DEF Small, Fits
  <2>4. Current(s) = c
    BY <1>3, <2>1 DEF Current
  <2> QED
    BY <1>1, <2>2, <2>3, <2>4, SmallJoin
<1> QED
  BY <1>2, <1>3

LEMMA AddUnitSmall ==
  ASSUME NEW E, NEW s \in PackedSmall(E), NEW n \in Nat, NEW cuts \in BOOLEAN,
         cuts \/ <<s.pos + 1, s.pos + n>> \in E
  PROVE  AddUnit(s, n, cuts) \in PackedSmall(E)
<1>1. /\ s \in Packed /\ s \in States /\ s.done \in Seq(Nat \X Nat) /\ s.lo \in Nat /\ s.pos \in Nat
      /\ s.lo <= s.pos + 1 /\ Small(s.done, E) /\ s.pos - s.lo < Limit
      /\ Limit \in Nat /\ Limit > 0
  BY BatchAssumption DEF PackedSmall, Packed, States
<1>2. PICK r : r = AddUnit(s, n, cuts)
  OBVIOUS
<1>3. r \in Packed
  BY <1>1, <1>2, AddUnitPacks
<1>4. PICK done : done = s.done \o Current(s)
  OBVIOUS
<1>5. done \in Seq(Nat \X Nat) /\ Small(done, E)
  BY <1>1, <1>4, CurrentTiles, CurrentSmall DEF Tiles
<1>6. PICK end \in Nat : end = s.pos + n
  BY <1>1
<1>7. CASE n > Limit
  <2>1. PICK parts : parts = Oversized(cuts, s.pos + 1, end)
    OBVIOUS
  <2>2. s.pos + 1 \in Nat /\ s.pos + 1 <= end
    BY <1>1, <1>6, <1>7
  <2>3. parts \in Seq(Nat \X Nat) /\ Small(parts, E)
    <3>1. parts \in Seq(Nat \X Nat)
      BY <2>1, <2>2, OversizedTile DEF Tiles
    <3>2. CASE cuts
      <4>1. parts = HardParts(s.pos + 1, end)
        BY <2>1, <3>2, Zenon DEF Oversized
      <4> QED
        BY <2>2, <3>1, <4>1, HardPartsSmall
    <3>3. CASE ~cuts
      <4>1. parts = <<<<s.pos + 1, end>>>> /\ <<s.pos + 1, end>> \in E
        BY <1>6, <2>1, <3>3 DEF Oversized
      <4>2. Len(parts) = 1 /\ parts[1] \in E
        BY <4>1
      <4> QED
        BY <3>1, <4>2 DEF Small, Fits
    <3> QED
      BY <3>1, <3>2, <3>3
  <2>4. Small(done \o parts, E)
    BY <1>5, <2>3, SmallJoin
  <2>5. r = [done |-> done \o parts, lo |-> end + 1, pos |-> end, items |-> 0]
    BY <1>2, <1>4, <1>6, <1>7, <2>1 DEF AddUnit
  <2>6. r.done = done \o parts /\ r.lo = end + 1 /\ r.pos = end
    BY <2>5
  <2>7. end - (end + 1) < Limit
    BY <1>1
  <2> QED
    BY <1>2, <1>3, <2>4, <2>6, <2>7 DEF PackedSmall
<1>8. CASE ~ (n > Limit) /\ Current(s) # <<>> /\ end - s.lo + 1 > Limit
  <2>1. r = [done |-> done, lo |-> s.pos + 1, pos |-> end, items |-> 1]
    BY <1>2, <1>4, <1>6, <1>8 DEF AddUnit
  <2>2. r.done = done /\ r.lo = s.pos + 1 /\ r.pos = end
    BY <2>1
  <2>3. end - (s.pos + 1) < Limit
    BY <1>1, <1>6, <1>8
  <2> QED
    BY <1>2, <1>3, <1>5, <2>2, <2>3 DEF PackedSmall
<1>9. CASE ~ (n > Limit) /\ ~ (Current(s) # <<>> /\ end - s.lo + 1 > Limit)
  <2>1. r = [s EXCEPT !.pos = end, !.items = s.items + 1]
    BY <1>2, <1>6, <1>9 DEF AddUnit
  <2>2. r.done = s.done /\ r.lo = s.lo /\ r.pos = end
    <3>1. PICK C, items : C = Seq(Nat \X Nat) /\ items = s.items + 1
      OBVIOUS
    <3>2. s \in [done : C, lo : Nat, pos : Nat, items : Nat]
      BY <1>1, <3>1 DEF States
    <3>3. r = [s EXCEPT !.pos = end, !.items = items]
      BY <2>1, <3>1
    <3> QED
      BY <3>2, <3>3
  <2>3. end - s.lo < Limit
    <3>1. CASE Current(s) = <<>>
      <4>1. s.pos < s.lo
        <5>1. <<<<s.lo, s.pos>>>> # <<>>
          OBVIOUS
        <5> QED
          BY <3>1, <5>1 DEF Current
      <4> QED
        BY <1>1, <1>6, <1>9, <4>1
    <3>2. CASE ~ (end - s.lo + 1 > Limit)
      BY <1>1, <1>6, <3>2
    <3> QED
      BY <1>9, <3>1, <3>2
  <2> QED
    BY <1>1, <1>2, <1>3, <2>2, <2>3 DEF PackedSmall
<1> QED
  BY <1>7, <1>8, <1>9

\* A chunk that split_batch_content gives to a chunked transform or an analysis has
\* at most Limit tokens, however long the lines, statements and paragraphs are (a
\* limit of 100 tokens at least, which is where split_chunk_hard begins), unless it
\* is one item of a JSON text, which is kept whole.
THEOREM ChunksWithinLimit ==
  ASSUME NEW kind \in Kinds \ {"freetext"}, NEW v \in Versions,
         NEW i \in 1..Len(Splits[kind][v])
  PROVE  \/ Splits[kind][v][i][2] - Splits[kind][v][i][1] + 1 <= Limit
         \/ Splits[kind][v][i] \in Items(v)
<1>1. PICK u \in Seq(Nat) : u = Units[v]
  BY BatchAssumption
<1>2. PICK n \in Nat : n = Len(u)
  BY <1>1
<1>3. PICK s : s = Turns(kind, v)
  OBVIOUS
<1>4. PICK cuts \in BOOLEAN : cuts = (v \notin Uncut)
  OBVIOUS
<1>5. s[0] = Nothing /\ \A k \in 1..n : s[k] = AddUnit(s[k - 1], u[k], cuts)
  BY <1>1, <1>2, <1>3, <1>4, TurnsDefined DEF Turned
<1>6. PICK sum : sum = Sums(v)
  OBVIOUS
<1>7. sum[0] = 0 /\ \A k \in 1..n : sum[k] = sum[k - 1] + u[k]
  BY <1>1, <1>2, <1>6, SumsDefined
<1>8. PICK E : E = Items(v)
  OBVIOUS
<1>9. \A k \in 1..n : cuts \/ <<sum[k - 1] + 1, sum[k]>> \in E
  BY <1>1, <1>2, <1>4, <1>6, <1>8 DEF Items
<1> DEFINE both == [k \in 0..n |-> <<s[k], sum[k]>>]
           Right == {p \in PackedSmall(E) \X Nat : p[2] = p[1].pos}
<1>10. both[0] \in Right
  <2>1. Nothing.done = <<>> /\ Nothing.lo = 1 /\ Nothing.pos = 0
    BY DEF Nothing
  <2>2. Small(<<>>, E) /\ 0 - 1 < Limit
    BY BatchAssumption DEF Small
  <2>3. Nothing \in PackedSmall(E)
    BY <2>1, <2>2, NothingPacked DEF PackedSmall
  <2> QED
    BY <1>2, <1>5, <1>7, <2>1, <2>3
<1>11. ASSUME NEW k \in 1..n, both[k - 1] \in Right
       PROVE  both[k] \in Right
  <2>1. k - 1 \in 0..n /\ k \in 0..n /\ u[k] \in Nat
    BY <1>1, <1>2
  <2>2. PICK a \in PackedSmall(E), m \in Nat : a = s[k - 1] /\ m = sum[k - 1] /\ m = a.pos
    BY <1>11, <2>1
  <2>3. PICK d \in Nat : d = u[k]
    BY <2>1
  <2>4. a \in Packed
    BY DEF PackedSmall
  <2>5. s[k] = AddUnit(a, d, cuts) /\ sum[k] = m + d
    BY <1>5, <1>7, <2>2, <2>3
  <2>6. cuts \/ <<a.pos + 1, a.pos + d>> \in E
    BY <1>9, <2>2, <2>5
  <2>7. s[k] \in PackedSmall(E) /\ s[k].pos = m + d
    BY <2>2, <2>4, <2>5, <2>6, AddUnitSmall, AddUnitPacks
  <2>8. both[k] = <<s[k], sum[k]>>
    BY <2>1 DEF both
  <2> QED
    BY <2>5, <2>7, <2>8 DEF Right
<1> HIDE DEF both, Right
<1>12. \A k \in 0..n : both[k] \in Right
  BY <1>2, <1>10, <1>11, EveryTurn
<1>13. PICK r \in PackedSmall(E) : r = s[n]
  <2>1. both[n] \in Right /\ both[n] = <<s[n], sum[n]>>
    BY <1>2, <1>12 DEF both
  <2> QED
    BY <2>1 DEF Right
<1>14. Splits[kind][v] = r.done \o Current(r)
  BY <1>1, <1>2, <1>3, <1>13 DEF Splits, Turns
<1>15. Fits(Splits[kind][v][i], E)
  BY <1>13, <1>14, CurrentSmall DEF Small
<1>16. PICK lo \in Nat, hi \in Nat : lo = Splits[kind][v][i][1] /\ hi = Splits[kind][v][i][2]
  <2>1. Splits[kind][v] \in Seq(Nat \X Nat)
    BY SplitsTyped
  <2>2. Splits[kind][v][i] \in Nat \X Nat
    BY <2>1
  <2> QED
    BY <2>2
<1>17. hi - lo < Limit \/ Splits[kind][v][i] \in E
  BY <1>15, <1>16 DEF Fits
<1>18. hi - lo < Limit => hi - lo + 1 <= Limit
  BY BatchAssumption
<1> QED
  BY <1>8, <1>16, <1>17, <1>18

-----------------------------------------------------------------------------
(* What the helpers of the model return *)

LEMMA PieceTyped ==
  ASSUME NEW kind \in Kinds, NEW v \in Versions, NEW i \in Nat \ {0},
         i <= Len(Splits[kind][v])
  PROVE  Piece(kind, v, i) \in Texts
<1>1. Splits[kind][v] \in Seq(Nat \X Nat)
  BY SplitsTyped
<1>2. Splits[kind][v][i] \in Nat \X Nat
  BY <1>1
<1>3. <<v, Splits[kind][v][i][1], Splits[kind][v][i][2]>> \in Versions \X Nat \X Nat
  BY <1>2
<1> QED
  BY <1>3 DEF Piece, Texts

\* The contiguous prefix of the checkpoints exists, holds checkpoints and ends
\* where one is missing.
LEMMA ContiguousHolds ==
  ASSUME NEW j \in Jobs, cp \in [Jobs -> [1..MaxChunks -> Texts \cup {None}]]
  PROVE  /\ Contiguous(j) \in 0..MaxChunks
         /\ \A i \in 1..Contiguous(j) : cp[j][i] # None
         /\ Contiguous(j) < MaxChunks => cp[j][Contiguous(j) + 1] = None
<1> DEFINE Prefix(k) == /\ \A i \in 1..k : cp[j][i] # None
                        /\ k < MaxChunks => cp[j][k + 1] = None
           Missing == {i \in 1..MaxChunks : cp[j][i] = None}
<1>1. \E k \in 0..MaxChunks : Prefix(k)
  <2>1. CASE Missing = {}
    <3>1. \A i \in 1..MaxChunks : cp[j][i] # None
      BY <2>1
    <3>2. MaxChunks \in 0..MaxChunks /\ ~ (MaxChunks < MaxChunks)
      BY BatchAssumption
    <3> QED
      BY <3>1, <3>2, Zenon
  <2>2. CASE Missing # {}
    <3>1. Missing \subseteq Nat
      OBVIOUS
    <3>2. PICK m \in Missing : \A n \in Missing : ~ (<<n, m>> \in OpToRel(<, Nat))
      BY <2>2, <3>1, WFMin, NatLessThanWellFounded
    <3>3. \A n \in Missing : ~ (n < m)
      BY <3>1, <3>2 DEF OpToRel
    <3>4. m \in 1..MaxChunks /\ cp[j][m] = None
      OBVIOUS
    <3>5. m - 1 \in 0..MaxChunks /\ (m - 1) + 1 = m
      BY BatchAssumption, <3>4
    <3>6. \A i \in 1..(m - 1) : cp[j][i] # None
      BY BatchAssumption, <3>3, <3>4
    <3> QED
      BY <3>4, <3>5, <3>6
  <2> QED
    BY <2>1, <2>2
<1>2. Contiguous(j) = CHOOSE k \in 0..MaxChunks : Prefix(k)
  BY DEF Contiguous
<1> QED
  BY <1>1, <1>2

-----------------------------------------------------------------------------
(* What a step leaves alone *)

OnlyWorker(t) == \A u \in Threads \ {t} : w'[u] = w[u]

OnlyJob(j) ==
  \A k \in Jobs \ {j} : /\ job'[k] = job[k] /\ cp'[k] = cp[k]
                        /\ reg'[k] = reg[k] /\ allowed'[k] = allowed[k]

\* A step that touches job j and the threads T, which work on no other job;
\* nobody else works on j.
StepOf(T, j) ==
  /\ \A u \in Threads \ T : w'[u] = w[u] /\ (Busy(u) => w[u].job # j)
  /\ \A t \in T : Busy(t) => w[t].job = j
  /\ OnlyJob(j)
  /\ faults' \in Nat /\ faults' >= faults

\* What has to be shown of a thread that a step touches
Own(t) == Kept(t) /\ Left(t) /\ InPlace(t) /\ Consented(t)

LEMMA WorkerFields ==
  ASSUME TypeOK, NEW t \in Threads
  PROVE  /\ w[t] \in {Idle} \cup Workers
         /\ Busy(t) <=> w[t] \in Workers
         /\ Busy(t) => w[t].job \in Jobs /\ w[t].pc \in Places
<1>1. w[t] \in {Idle} \cup Workers
  BY DEF TypeOK
<1>2. Idle \notin Workers
  BY DEF Idle, Workers, Places
<1> QED
  BY <1>1, <1>2 DEF Busy, Workers

\* The invariant of the threads and jobs that a step does not touch.
LEMMA OthersStay ==
  ASSUME IInv, TypeOK', NEW T \in SUBSET Threads, NEW j \in Jobs, StepOf(T, j),
         \A t \in T : Own(t)', Shown(j)'
  PROVE  WorkerInv' /\ StoreInv'
<1>0. TypeOK /\ WorkerInv /\ StoreInv
  BY DEF IInv
<1>1. ASSUME NEW u \in Threads \ T
      PROVE  (Kept(u) /\ Left(u) /\ InPlace(u) /\ Consented(u))'
  <2>1. w'[u] = w[u]
    BY <1>1 DEF StepOf
  <2>2. CASE ~Busy(u)
    BY <2>1, <2>2 DEF Kept, Left, InPlace, Consented, At, Busy
  <2>3. CASE Busy(u)
    <3>1. w[u].job \in Jobs \ {j}
      BY <1>0, <1>1, <2>3, WorkerFields DEF StepOf
    <3>2. /\ job'[w[u].job] = job[w[u].job] /\ cp'[w[u].job] = cp[w[u].job]
          /\ reg'[w[u].job] = reg[w[u].job] /\ allowed'[w[u].job] = allowed[w[u].job]
      BY <3>1 DEF StepOf, OnlyJob
    <3>3. Kept(u) /\ Left(u) /\ InPlace(u) /\ Consented(u)
      BY <1>0 DEF WorkerInv
    <3>4. Kept(u)'
      BY <2>1, <2>3, <3>2, <3>3 DEF Kept, Busy, Exists
    <3>5. Left(u)'
      BY <1>0, <2>1, <2>3, <3>2, <3>3 DEF Left, At, Busy, Status, Exists, StepOf, TypeOK
    <3>6. InPlace(u)'
      BY <2>1, <2>3, <3>2, <3>3 DEF InPlace, Busy, Kind
    <3>7. Consented(u)'
      BY <2>1, <2>3, <3>2, <3>3 DEF Consented, Busy, Kind, Status, Exists
    <3> QED
      BY <3>4, <3>5, <3>6, <3>7
  <2> QED
    BY <2>2, <2>3
<1>2. ASSUME NEW k \in Jobs \ {j}
      PROVE  Shown(k)'
  <2>1. job'[k] = job[k] /\ reg'[k] = reg[k]
    BY <1>2 DEF StepOf, OnlyJob
  <2>2. Status(k)' = Status(k) /\ Shown(k)
    BY <1>0, <2>1 DEF Status, Exists, StoreInv
  <2>3. Alive(k) => Alive(k)'
    <3>1. SUFFICES ASSUME Alive(k) PROVE Alive(k)'
      OBVIOUS
    <3>2. reg[k] \in Threads /\ w[reg[k]].job = k
      BY <1>0, <3>1 DEF Alive, TypeOK
    <3>3. reg[k] \notin T
      BY <1>2, <3>1, <3>2 DEF StepOf, Alive
    <3> QED
      BY <2>1, <3>1, <3>2, <3>3 DEF StepOf, Alive, Busy
  <2> QED
    BY <1>0, <2>2, <2>3 DEF Shown, StepOf, TypeOK
<1> QED
  BY <1>1, <1>2 DEF WorkerInv, StoreInv, Own

-----------------------------------------------------------------------------
(* The assignments of a worker and of a call *)

\* Thread t goes on at pc and keeps what else it knows
Moved(t, pc) ==
  /\ w' \in [Threads -> {Idle} \cup Workers] /\ OnlyWorker(t)
  /\ w'[t] \in Workers /\ w'[t].pc = pc
  /\ w'[t].job = w[t].job /\ w'[t].analysis = w[t].analysis
  /\ w'[t].plan = w[t].plan /\ w'[t].idx = w[t].idx /\ w'[t].text = w[t].text

LEMMA GoToMoves ==
  ASSUME TypeOK, NEW t \in Threads, Busy(t), NEW pc \in Places, GoTo(t, pc)
  PROVE  Moved(t, pc)
<1>1. w \in [Threads -> {Idle} \cup Workers] /\ w[t] \in Workers
  BY WorkerFields DEF TypeOK
<1>2. [w[t] EXCEPT !.pc = pc] \in Workers
  BY <1>1 DEF Workers
<1>3. w' = [w EXCEPT ![t] = [w[t] EXCEPT !.pc = pc]]
  BY DEF GoTo
<1>4. w'[t] = [w[t] EXCEPT !.pc = pc] /\ OnlyWorker(t)
  BY <1>1, <1>3 DEF OnlyWorker
<1> QED
  BY <1>1, <1>2, <1>3, <1>4 DEF Moved, Workers

\* Job j gets a status and keeps its other fields
Given(j, status) ==
  /\ job' \in [Jobs -> {None, Gone} \cup JobRecords]
  /\ job'[j] \in JobRecords /\ job'[j].status = status
  /\ job'[j].kind = job[j].kind /\ job'[j].mode = job[j].mode
  /\ \A k \in Jobs \ {j} : job'[k] = job[k]

LEMMA JobFields ==
  ASSUME TypeOK, NEW j \in Jobs
  PROVE  /\ Exists(j) <=> job[j] \in JobRecords
         /\ Exists(j) => job[j].kind \in Kinds /\ Status(j) \in Statuses
         /\ Exists(j) => Status(j) = job[j].status
         /\ job[j].plan \in Versions \cup {0} \/ ~Exists(j)
  BY BatchAssumption DEF TypeOK, Exists, Status, JobRecords

LEMMA SetGives ==
  ASSUME TypeOK, NEW j \in Jobs, Exists(j), NEW status \in Statuses, Set(j, status)
  PROVE  Given(j, status)
<1>1. job \in [Jobs -> {None, Gone} \cup JobRecords] /\ job[j] \in JobRecords
  BY JobFields DEF TypeOK
<1>2. [job[j] EXCEPT !.status = status] \in JobRecords
  BY <1>1 DEF JobRecords
<1>3. job' = [job EXCEPT ![j] = [job[j] EXCEPT !.status = status]]
  BY DEF Set
<1> QED
  BY <1>1, <1>2, <1>3 DEF Given, JobRecords

LEMMA GivenStatus ==
  ASSUME NEW j \in Jobs, NEW status \in Statuses, Given(j, status)
  PROVE  Exists(j)' /\ Status(j)' = status /\ job'[j].kind = job[j].kind
         /\ job'[j].mode = job[j].mode
<1>1. job'[j] \in JobRecords /\ job'[j].status = status
  BY DEF Given
<1>2. Exists(j)'
  BY <1>1, BatchAssumption DEF Exists
<1> QED
  BY <1>1, <1>2 DEF Given, Status

\* What holds of a thread at work and of its job
LEMMA AtWork ==
  ASSUME IInv, NEW t \in Threads, Busy(t)
  PROVE  /\ TypeOK /\ w[t] \in Workers /\ w[t].job \in Jobs /\ Exists(w[t].job)
         /\ reg[w[t].job] = t /\ Alive(w[t].job)
         /\ Kept(t) /\ Left(t) /\ InPlace(t) /\ Consented(t) /\ Shown(w[t].job)
         /\ \A u \in Threads \ {t} : Busy(u) => w[u].job # w[t].job
<1>1. TypeOK /\ w[t] \in Workers /\ w[t].job \in Jobs
  BY WorkerFields DEF IInv
<1>2. \A u \in Threads : Kept(u) /\ Left(u) /\ InPlace(u) /\ Consented(u)
  BY DEF IInv, WorkerInv
<1>3. Shown(w[t].job)
  BY <1>1 DEF IInv, StoreInv
<1>4. reg[w[t].job] = t /\ Exists(w[t].job)
  BY <1>2 DEF Kept
<1>5. \A u \in Threads \ {t} : Busy(u) => w[u].job # w[t].job
  BY <1>2, <1>4 DEF Kept
<1>6. Alive(w[t].job)
  BY BatchAssumption, <1>4 DEF Alive
<1> QED
  BY <1>1, <1>2, <1>3, <1>4, <1>5, <1>6

\* A thread that has not ended after its step is still registered, its job shown
LEMMA StillRegistered ==
  ASSUME NEW t \in Threads, NEW j \in Jobs, TypeOK', w'[t] \in Workers, w'[t].job = j,
         reg'[j] = t, Exists(j)'
  PROVE  Busy(t)' /\ Alive(j)' /\ Kept(t)' /\ Shown(j)'
<1>1. Busy(t)'
  BY DEF Busy, Idle, Workers, Places
<1>2. reg'[j] # None
  BY BatchAssumption
<1>3. Alive(j)'
  BY <1>1, <1>2 DEF Alive
<1> QED
  BY <1>1, <1>3 DEF Kept, Shown

-----------------------------------------------------------------------------
(* The steps of a worker *)

Keeps == TypeOK' /\ WorkerInv' /\ StoreInv'

\* A step of a worker that goes on: what is left to show is its own place
LEMMA GoesOn ==
  ASSUME IInv, NEW t \in Threads, NEW j \in Jobs, w[t].job = j, Busy(t),
         TypeOK', w'[t] \in Workers, w'[t].job = j, OnlyWorker(t), OnlyJob(j),
         reg'[j] = t, Exists(j)', faults' \in {faults, faults + 1},
         Left(t)', InPlace(t)', Consented(t)'
  PROVE  Keeps
<1>1. TypeOK /\ \A u \in Threads \ {t} : Busy(u) => w[u].job # j
  BY AtWork
<1>2. faults \in Nat
  BY <1>1, BatchAssumption DEF TypeOK
<1>3. StepOf({t}, j)
  BY <1>1, <1>2 DEF StepOf, OnlyWorker
<1>4. Own(t)' /\ Shown(j)'
  BY StillRegistered DEF Own
<1> QED
  BY <1>3, <1>4, OthersStay DEF Keeps

\* Nothing of the jobs changes in the step
JobsSame == job' = job /\ cp' = cp /\ reg' = reg /\ allowed' = allowed

LEMMA SameJobs ==
  ASSUME JobsSame, NEW t \in Threads, NEW j \in Jobs, w[t].job = j, Exists(j), reg[j] = t,
         w'[t].job = j
  PROVE  /\ OnlyJob(j) /\ reg'[j] = t /\ Exists(j)' /\ Status(j)' = Status(j)
         /\ Kind(t)' = Kind(t)
  BY DEF JobsSame, OnlyJob, Exists, Status, Kind

\* A fault below the bound keeps it.
LEMMA OneMishap ==
  ASSUME TypeOK, edits + faults < MaxMishaps
  PROVE  /\ faults + 1 \in Nat /\ edits + (faults + 1) <= MaxMishaps
         /\ edits + 1 \in Nat /\ (edits + 1) + faults <= MaxMishaps
         /\ faults + 1 > 0
  BY BatchAssumption DEF TypeOK

LEMMA BeginKeeps ==
  ASSUME IInv, NEW t \in Threads, NEW j \in Jobs, w[t].job = j, Begin(t)
  PROVE  Keeps
<1>1. Busy(t) /\ w[t].pc = "begin"
  BY DEF Begin, At
<1>2. /\ TypeOK /\ w[t] \in Workers /\ Exists(j) /\ reg[j] = t
      /\ InPlace(t) /\ Consented(t) /\ Shown(j)
      /\ \A u \in Threads \ {t} : Busy(u) => w[u].job # j
  BY <1>1, AtWork
<1>3. Given(j, "running")
  BY <1>2, SetGives DEF Begin, Statuses
<1>4. /\ w' = [w EXCEPT ![t] = [w[t] EXCEPT !.pc = "prepare", !.prev = job[j].plan,
                                            !.stale = Stale(j)]]
      /\ cp' = cp /\ ft' = ft /\ input' = input /\ tmp' = tmp /\ out' = out
      /\ clash' = clash /\ edits' = edits /\ reg' = reg /\ allowed' = allowed /\ calls' = calls
      /\ faults' = faults
  BY DEF Begin, files
<1>5. job[j].plan \in Versions \cup {0} /\ Stale(j) \in BOOLEAN
  BY <1>2, JobFields DEF Stale
<1>6. /\ w'[t] \in Workers /\ w'[t].pc = "prepare" /\ w'[t].job = j
      /\ w'[t].analysis = w[t].analysis
      /\ w' \in [Threads -> {Idle} \cup Workers] /\ OnlyWorker(t)
  <2>1. [w[t] EXCEPT !.pc = "prepare", !.prev = job[j].plan, !.stale = Stale(j)] \in Workers
    BY <1>2, <1>5 DEF Workers, Places
  <2> QED
    BY <1>2, <1>4, <2>1 DEF TypeOK, OnlyWorker, Workers
<1>7. TypeOK'
  BY <1>2, <1>3, <1>4, <1>6 DEF TypeOK, Given
<1>8. Exists(j)' /\ Kind(t)' = Kind(t) /\ job'[j].mode = job[j].mode
  BY <1>3, <1>6, GivenStatus DEF Kind, Statuses
<1>9. Left(t)' /\ InPlace(t)'
  BY <1>1, <1>2, <1>6, <1>8 DEF Left, InPlace, At, InLoop, Begun
<1>10. Consented(t)'
  BY <1>1, <1>2, <1>4, <1>6, <1>8 DEF Consented, Kind
<1>11. OnlyJob(j) /\ reg'[j] = t
  BY <1>2, <1>3, <1>4 DEF OnlyJob, Given
<1> QED
  BY <1>1, <1>4, <1>6, <1>7, <1>8, <1>9, <1>10, <1>11, GoesOn DEF Keeps

LEMMA BeginUnsavedKeeps ==
  ASSUME IInv, NEW t \in Threads, NEW j \in Jobs, w[t].job = j, BeginUnsaved(t)
  PROVE  Keeps
<1>1. Busy(t) /\ w[t].pc = "begin"
  BY DEF BeginUnsaved, At
<1>2. /\ TypeOK /\ Exists(j) /\ reg[j] = t /\ InPlace(t) /\ Consented(t)
      /\ \A u \in Threads \ {t} : Busy(u) => w[u].job # j
  BY <1>1, AtWork
<1>3. JobsSame /\ faults' = faults + 1
  BY DEF BeginUnsaved, files, JobsSame
<1>4. edits' = edits /\ faults' \in Nat /\ edits + faults' <= MaxMishaps /\ faults' > 0
  BY <1>2, OneMishap DEF BeginUnsaved, files
<1>5. CASE w[t].analysis
  <2>1. Moved(t, "fail")
    BY <1>1, <1>2, <1>5, GoToMoves DEF BeginUnsaved, Places
  <2>2. TypeOK'
    BY <1>2, <1>4, <2>1 DEF TypeOK, BeginUnsaved, files, Moved
  <2>3. w'[t] \in Workers /\ w'[t].pc = "fail" /\ w'[t].job = j /\ OnlyWorker(t)
        /\ w'[t].analysis = w[t].analysis
    BY <2>1 DEF Moved
  <2>4. /\ OnlyJob(j) /\ reg'[j] = t /\ Exists(j)' /\ Status(j)' = Status(j)
        /\ Kind(t)' = Kind(t)
    BY <1>2, <1>3, <2>3, SameJobs
  <2>5. Left(t)' /\ InPlace(t)' /\ Consented(t)'
    BY <1>1, <1>2, <2>3, <2>4 DEF Left, InPlace, Consented, At, InLoop, Begun
  <2> QED
    BY <1>1, <1>3, <2>2, <2>3, <2>4, <2>5, GoesOn
<1>6. CASE ~w[t].analysis
  <2>1. w' = [w EXCEPT ![t] = Idle]
    BY <1>6 DEF BeginUnsaved
  <2>2. w'[t] = Idle /\ w' \in [Threads -> {Idle} \cup Workers]
    BY <1>2, <2>1 DEF TypeOK
  <2>3. TypeOK'
    BY <1>2, <1>4, <2>2 DEF TypeOK, BeginUnsaved, files
  <2>4. StepOf({t}, j)
    BY <1>2, <1>3, <1>4, <2>1, BatchAssumption DEF StepOf, OnlyJob, JobsSame, TypeOK
  <2>5. Own(t)'
    BY <2>2 DEF Own, Kept, Left, InPlace, Consented, At, Busy
  <2>6. Shown(j)'
    BY <1>4 DEF Shown
  <2> QED
    BY <2>3, <2>4, <2>5, <2>6, OthersStay DEF Keeps
<1> QED
  BY <1>5, <1>6

LEMMA RaiseKeeps ==
  ASSUME IInv, NEW t \in Threads, NEW j \in Jobs, w[t].job = j, Raise(t)
  PROVE  Keeps
<1>1. Busy(t)
  BY DEF Raise
<1>2. TypeOK /\ Exists(j) /\ reg[j] = t /\ InPlace(t) /\ Consented(t)
  BY <1>1, AtWork
<1>3. Moved(t, "fail")
  BY <1>1, <1>2, GoToMoves DEF Raise, Places
<1>4. JobsSame /\ faults' \in {faults, faults + 1}
  BY DEF Raise, files, JobsSame
<1>5. TypeOK'
  <2>1. edits' = edits /\ faults' \in Nat /\ edits + faults' <= MaxMishaps
    BY <1>2, OneMishap DEF Raise, files, TypeOK
  <2> QED
    BY <1>2, <1>3, <2>1 DEF TypeOK, Raise, files, Moved
<1>6. w'[t] \in Workers /\ w'[t].pc = "fail" /\ w'[t].job = j /\ OnlyWorker(t)
      /\ w'[t].analysis = w[t].analysis
  BY <1>3 DEF Moved
<1>7. /\ OnlyJob(j) /\ reg'[j] = t /\ Exists(j)' /\ Status(j)' = Status(j)
      /\ Kind(t)' = Kind(t)
  BY <1>2, <1>4, <1>6, SameJobs
<1>8. Left(t)' /\ InPlace(t)' /\ Consented(t)'
  BY <1>1, <1>2, <1>6, <1>7 DEF Left, InPlace, Consented, At, InLoop, Begun
<1> QED
  BY <1>1, <1>4, <1>5, <1>6, <1>7, <1>8, GoesOn

LEMMA PollKeeps ==
  ASSUME IInv, NEW t \in Threads, NEW j \in Jobs, w[t].job = j, Poll(t)
  PROVE  Keeps
<1>1. Busy(t) /\ w[t].pc = "poll" /\ Status(j) # "paused"
  BY DEF Poll, At
<1>2. TypeOK /\ Exists(j) /\ reg[j] = t /\ InPlace(t) /\ Consented(t)
  BY <1>1, AtWork
<1>3. PICK pc \in {"close", "work"} :
        GoTo(t, pc) /\ (pc = "close" <=> Status(j) = "cancelled")
  BY DEF Poll
<1>4. Moved(t, pc)
  BY <1>1, <1>2, <1>3, GoToMoves DEF Places
<1>5. JobsSame /\ faults' = faults
  BY DEF Poll, files, JobsSame
<1>6. TypeOK'
  BY <1>2, <1>4 DEF TypeOK, Poll, files, Moved
<1>7. w'[t] \in Workers /\ w'[t].pc = pc /\ w'[t].job = j /\ OnlyWorker(t)
      /\ w'[t].analysis = w[t].analysis /\ w'[t].plan = w[t].plan /\ w'[t].idx = w[t].idx
  BY <1>4 DEF Moved
<1>8. /\ OnlyJob(j) /\ reg'[j] = t /\ Exists(j)' /\ Status(j)' = Status(j)
      /\ Kind(t)' = Kind(t) /\ cp' = cp /\ allowed' = allowed /\ job' = job
  BY <1>2, <1>5, <1>7, SameJobs DEF JobsSame
<1>9. Left(t)'
  BY <1>3, <1>7, <1>8 DEF Left, At, InHand
<1>10. InPlace(t)'
  BY <1>1, <1>2, <1>3, <1>7, <1>8 DEF InPlace, InLoop, Begun, Places
<1>11. Consented(t)'
  BY <1>1, <1>2, <1>3, <1>7, <1>8 DEF Consented
<1> QED
  BY <1>1, <1>5, <1>6, <1>7, <1>8, <1>9, <1>10, <1>11, GoesOn
LEMMA AnswerKeeps ==
  ASSUME IInv, NEW t \in Threads, NEW j \in Jobs, w[t].job = j, Answer(t)
  PROVE  Keeps
<1>1. Busy(t) /\ w[t].pc = "assemble" /\ w[t].analysis
  BY DEF Answer, At
<1>2. TypeOK /\ Exists(j) /\ reg[j] = t /\ InPlace(t) /\ Consented(t)
  BY <1>1, AtWork
<1>3. Moved(t, "complete")
  BY <1>1, <1>2, GoToMoves DEF Answer, Places
<1>4. JobsSame /\ faults' = faults
  BY DEF Answer, files, JobsSame
<1>5. TypeOK'
  BY <1>2, <1>3 DEF TypeOK, Answer, files, Moved
<1>6. w'[t] \in Workers /\ w'[t].pc = "complete" /\ w'[t].job = j /\ OnlyWorker(t)
      /\ w'[t].analysis = w[t].analysis /\ w'[t].plan = w[t].plan
  BY <1>3 DEF Moved
<1>7. /\ OnlyJob(j) /\ reg'[j] = t /\ Exists(j)' /\ Status(j)' = Status(j)
      /\ Kind(t)' = Kind(t)
  BY <1>2, <1>4, <1>6, SameJobs
<1>8. Left(t)' /\ InPlace(t)' /\ Consented(t)'
  BY <1>1, <1>2, <1>6, <1>7 DEF Left, InPlace, Consented, At, InLoop, Begun, Places
<1> QED
  BY <1>1, <1>4, <1>5, <1>6, <1>7, <1>8, GoesOn

\* The output of a worker that assembles is a sequence of texts: no checkpoint
\* is missing.
LEMMA AssembledTyped ==
  ASSUME IInv, NEW t \in Threads, NEW j \in Jobs, w[t].job = j, At(t, "assemble"),
         ~w[t].analysis
  PROVE  Assembled(t) \in Seq(Texts)
<1>1. Busy(t) /\ w[t].pc = "assemble"
  BY DEF At
<1>2. TypeOK /\ w[t] \in Workers /\ InPlace(t)
  BY <1>1, AtWork
<1>3. CASE Kind(t) = "chunks"
  <2>1. w[t].plan \in Versions /\ w[t].idx > Len(Splits["chunks"][w[t].plan])
        /\ \A i \in 1..MaxChunks : i < w[t].idx => cp[j][i] # None
    BY <1>1, <1>2, <1>3 DEF InPlace, InLoop, Begun, Places
  <2>2. Len(Splits["chunks"][w[t].plan]) \in 0..MaxChunks
    BY <2>1, SplitsTyped DEF Kinds
  <2>3. cp[j] \in [1..MaxChunks -> Texts \cup {None}] /\ w[t].idx \in Nat
    BY <1>2 DEF TypeOK, Workers
  <2>4. \A i \in 1..Len(Splits["chunks"][w[t].plan]) : cp[j][i] \in Texts
    BY <2>1, <2>2, <2>3, BatchAssumption
  <2> QED
    BY <1>3, <2>2, <2>4 DEF Assembled
<1>4. CASE Kind(t) # "chunks"
  BY <1>2, <1>4 DEF Assembled, Workers
<1> QED
  BY <1>3, <1>4

LEMMA AssembleKeeps ==
  ASSUME IInv, NEW t \in Threads, NEW j \in Jobs, w[t].job = j, Assemble(t)
  PROVE  Keeps
<1>1. At(t, "assemble") /\ Busy(t) /\ w[t].pc = "assemble" /\ ~w[t].analysis
  BY DEF Assemble, At
<1>2. TypeOK /\ w[t] \in Workers /\ Exists(j) /\ reg[j] = t /\ InPlace(t) /\ Consented(t)
  BY <1>1, AtWork
<1>3. PICK text \in Seq(Texts) : text = Assembled(t)
  BY <1>1, <1>2, AssembledTyped
<1>4. w' = [w EXCEPT ![t] = [w[t] EXCEPT !.pc = "write", !.text = text]]
  BY <1>3 DEF Assemble
<1>5. /\ w'[t] \in Workers /\ w'[t].pc = "write" /\ w'[t].job = j /\ OnlyWorker(t)
      /\ w'[t].analysis = w[t].analysis /\ w'[t].plan = w[t].plan
      /\ w' \in [Threads -> {Idle} \cup Workers]
  <2>1. PICK r : r = [w[t] EXCEPT !.pc = "write", !.text = text]
    OBVIOUS
  <2>2. /\ r \in Workers /\ r.pc = "write" /\ r.job = j
        /\ r.analysis = w[t].analysis /\ r.plan = w[t].plan
    BY <1>2, <2>1 DEF Workers, Places
  <2>3. w' = [w EXCEPT ![t] = r]
    BY <1>4, <2>1
  <2> QED
    BY <1>2, <2>2, <2>3 DEF TypeOK, OnlyWorker
<1>6. JobsSame /\ faults' = faults
  BY DEF Assemble, JobsSame
<1>7. TypeOK'
  <2>1. PICK f \in Files : f = FileOf[j]
    BY BatchAssumption
  <2>2. Writers(tmp[f]) \in SUBSET Threads
    BY <1>2, <2>1 DEF Writers, TypeOK, Outputs
  <2>3. [by |-> j, text |-> <<>>, stale |-> w[t].stale, open |-> Writers(tmp[f]) \cup {t}]
          \in Outputs
    BY <1>2, <2>2 DEF Outputs, Workers
  <2>4. tmp' \in [Files -> Outputs \cup {None}]
    BY <1>2, <2>1, <2>3 DEF Assemble, TypeOK
  <2>5. clash' \in [Files -> BOOLEAN]
    BY <1>2 DEF Assemble, TypeOK
  <2> QED
    BY <1>2, <1>5, <2>4, <2>5 DEF TypeOK, Assemble
<1>8. /\ OnlyJob(j) /\ reg'[j] = t /\ Exists(j)' /\ Status(j)' = Status(j)
      /\ Kind(t)' = Kind(t)
  BY <1>2, <1>5, <1>6, SameJobs
<1>9. Left(t)' /\ InPlace(t)' /\ Consented(t)'
  BY <1>1, <1>2, <1>5, <1>8 DEF Left, InPlace, Consented, At, InLoop, Begun, Places
<1> QED
  BY <1>1, <1>5, <1>6, <1>7, <1>8, <1>9, GoesOn

\* What a file becomes by a write is an output, which others may have open.
LEMMA WrittenTyped ==
  ASSUME NEW t, NEW o \in Outputs, w[t] \in Workers, NEW n \in Written(t, o)
  PROVE  n \in Outputs
<1>1. PICK text : n = [by |-> w[t].job, text |-> text, stale |-> w[t].stale,
                       open |-> o.open \ {t}]
                  /\ (text = w[t].text \/
                       (o.text # <<>> /\ text = Append(w[t].text, o.text[Len(o.text)])))
  BY DEF Written
<1>2. w[t].text \in Seq(Texts) /\ o.text \in Seq(Texts) /\ o.open \in SUBSET Threads
      /\ w[t].job \in Jobs /\ w[t].stale \in BOOLEAN
  BY DEF Workers, Outputs
<1>3. text \in Seq(Texts)
  <2>1. PICK c \in Seq(Texts), d \in Seq(Texts) : c = w[t].text /\ d = o.text
    BY <1>2
  <2>2. d # <<>> => Len(d) \in 1..Len(d) /\ d[Len(d)] \in Texts
    OBVIOUS
  <2>3. d # <<>> => Append(c, d[Len(d)]) \in Seq(Texts)
    BY <2>2
  <2> QED
    BY <1>1, <2>1, <2>3
<1> QED
  BY <1>1, <1>2, <1>3 DEF Outputs

LEMMA WriteKeeps ==
  ASSUME IInv, NEW t \in Threads, NEW j \in Jobs, w[t].job = j, Write(t)
  PROVE  Keeps
<1>1. Busy(t) /\ w[t].pc = "write"
  BY DEF Write, At
<1>2. TypeOK /\ w[t] \in Workers /\ Exists(j) /\ reg[j] = t /\ InPlace(t) /\ Consented(t)
  BY <1>1, AtWork
<1>3. Moved(t, "replace")
  BY <1>1, <1>2, GoToMoves DEF Write, Places
<1>4. JobsSame /\ faults' = faults
  BY DEF Write, JobsSame
<1>5. tmp' \in [Files -> Outputs \cup {None}] /\ out' \in [Files -> Outputs \cup {None}]
  <2>1. tmp \in [Files -> Outputs \cup {None}] /\ out \in [Files -> Outputs \cup {None}]
    BY <1>2 DEF TypeOK
  <2>2. PICK f \in Files : f = FileOf[j]
    BY BatchAssumption
  <2>3. CASE t \in Writers(tmp[f]) /\ out' = out
             /\ \E o \in Written(t, tmp[f]) : tmp' = [tmp EXCEPT ![f] = o]
    <3>1. tmp[f] \in Outputs
      BY <2>1, <2>3 DEF Writers
    <3> QED
      BY <1>2, <2>1, <2>3, <3>1, WrittenTyped
  <2>4. CASE t \in Writers(out[f]) /\ tmp' = tmp
             /\ \E o \in Written(t, out[f]) : out' = [out EXCEPT ![f] = o]
    <3>1. out[f] \in Outputs
      BY <2>1, <2>4 DEF Writers
    <3> QED
      BY <1>2, <2>1, <2>4, <3>1, WrittenTyped
  <2>5. CASE tmp' = tmp /\ out' = out
    BY <2>1, <2>5
  <2> QED
    BY <2>2, <2>3, <2>4, <2>5 DEF Write
<1>6. TypeOK'
  BY <1>2, <1>3, <1>5 DEF TypeOK, Write, Moved
<1>7. w'[t] \in Workers /\ w'[t].pc = "replace" /\ w'[t].job = j /\ OnlyWorker(t)
      /\ w'[t].analysis = w[t].analysis /\ w'[t].plan = w[t].plan
  BY <1>3 DEF Moved
<1>8. /\ OnlyJob(j) /\ reg'[j] = t /\ Exists(j)' /\ Status(j)' = Status(j)
      /\ Kind(t)' = Kind(t)
  BY <1>2, <1>4, <1>7, SameJobs
<1>9. Left(t)' /\ InPlace(t)' /\ Consented(t)'
  BY <1>1, <1>2, <1>7, <1>8 DEF Left, InPlace, Consented, At, InLoop, Begun, Places
<1> QED
  BY <1>1, <1>4, <1>6, <1>7, <1>8, <1>9, GoesOn

\* Files that threads close stay outputs.
LEMMA ClosedTyped ==
  ASSUME NEW o \in Outputs \cup {None}, NEW ts
  PROVE  Closed(o, ts) \in Outputs \cup {None}
<1>1. CASE o = None
  BY <1>1 DEF Closed
<1>2. CASE o # None
  <2>1. Closed(o, ts) = [o EXCEPT !.open = o.open \ ts]
    BY <1>2 DEF Closed
  <2> QED
    BY <1>2, <2>1 DEF Outputs
<1> QED
  BY <1>1, <1>2

LEMMA WriteFailsKeeps ==
  ASSUME IInv, NEW t \in Threads, NEW j \in Jobs, w[t].job = j, WriteFails(t)
  PROVE  Keeps
<1>1. Busy(t) /\ w[t].pc \in {"assemble", "write", "replace"}
  BY DEF WriteFails, At
<1>2. TypeOK /\ w[t] \in Workers /\ Exists(j) /\ reg[j] = t /\ InPlace(t) /\ Consented(t)
  BY <1>1, AtWork
<1>3. Moved(t, "drop")
  BY <1>1, <1>2, GoToMoves DEF WriteFails, Places
<1>4. JobsSame /\ faults' = faults + 1
  BY DEF WriteFails, JobsSame
<1>5. TypeOK'
  <2>1. edits' = edits /\ faults' \in Nat /\ edits + faults' <= MaxMishaps
    BY <1>2, OneMishap DEF WriteFails
  <2>2. tmp' \in [Files -> Outputs \cup {None}] /\ out' \in [Files -> Outputs \cup {None}]
    BY <1>2, ClosedTyped DEF WriteFails, TypeOK
  <2> QED
    BY <1>2, <1>3, <2>1, <2>2 DEF TypeOK, WriteFails, Moved
<1>6. w'[t] \in Workers /\ w'[t].pc = "drop" /\ w'[t].job = j /\ OnlyWorker(t)
      /\ w'[t].analysis = w[t].analysis /\ w'[t].plan = w[t].plan
  BY <1>3 DEF Moved
<1>7. /\ OnlyJob(j) /\ reg'[j] = t /\ Exists(j)' /\ Status(j)' = Status(j)
      /\ Kind(t)' = Kind(t)
  BY <1>2, <1>4, <1>6, SameJobs
<1>8. Left(t)' /\ InPlace(t)' /\ Consented(t)'
  BY <1>1, <1>2, <1>6, <1>7 DEF Left, InPlace, Consented, At, InLoop, Begun, Places
<1> QED
  BY <1>1, <1>4, <1>5, <1>6, <1>7, <1>8, GoesOn

LEMMA ReplaceKeeps ==
  ASSUME IInv, NEW t \in Threads, NEW j \in Jobs, w[t].job = j, Replace(t)
  PROVE  Keeps
<1>1. Busy(t) /\ w[t].pc = "replace"
  BY DEF Replace, At
<1>2. TypeOK /\ Exists(j) /\ reg[j] = t /\ InPlace(t) /\ Consented(t)
  BY <1>1, AtWork
<1>3. PICK pc \in {"unlink", "drop"} : GoTo(t, pc)
  BY DEF Replace
<1>4. Moved(t, pc)
  BY <1>1, <1>2, <1>3, GoToMoves DEF Places
<1>5. JobsSame /\ faults' = faults
  BY DEF Replace, JobsSame
<1>6. TypeOK'
  BY <1>2, <1>4 DEF TypeOK, Replace, Moved
<1>7. w'[t] \in Workers /\ w'[t].pc = pc /\ w'[t].job = j /\ OnlyWorker(t)
      /\ w'[t].analysis = w[t].analysis /\ w'[t].plan = w[t].plan
  BY <1>4 DEF Moved
<1>8. /\ OnlyJob(j) /\ reg'[j] = t /\ Exists(j)' /\ Status(j)' = Status(j)
      /\ Kind(t)' = Kind(t)
  BY <1>2, <1>5, <1>7, SameJobs
<1>9. Left(t)' /\ InPlace(t)' /\ Consented(t)'
  BY <1>1, <1>2, <1>7, <1>8 DEF Left, InPlace, Consented, At, InLoop, Begun, Places
<1> QED
  BY <1>1, <1>5, <1>6, <1>7, <1>8, <1>9, GoesOn

LEMMA UnlinkKeeps ==
  ASSUME IInv, NEW t \in Threads, NEW j \in Jobs, w[t].job = j, Unlink(t)
  PROVE  Keeps
<1>1. Busy(t) /\ w[t].pc \in {"unlink", "drop"}
  BY DEF Unlink, At
<1>2. TypeOK /\ Exists(j) /\ reg[j] = t /\ InPlace(t) /\ Consented(t)
  BY <1>1, AtWork
<1>3. PICK pc \in {"complete", "fail"} : Moved(t, pc)
  BY <1>1, <1>2, GoToMoves DEF Unlink, Places
<1>4. JobsSame /\ faults' = faults
  BY DEF Unlink, JobsSame
<1>5. TypeOK'
  BY <1>2, <1>3 DEF TypeOK, Unlink, Moved
<1>6. w'[t] \in Workers /\ w'[t].pc = pc /\ w'[t].job = j /\ OnlyWorker(t)
      /\ w'[t].analysis = w[t].analysis /\ w'[t].plan = w[t].plan
  BY <1>3 DEF Moved
<1>7. /\ OnlyJob(j) /\ reg'[j] = t /\ Exists(j)' /\ Status(j)' = Status(j)
      /\ Kind(t)' = Kind(t)
  BY <1>2, <1>4, <1>6, SameJobs
<1>8. Left(t)' /\ InPlace(t)' /\ Consented(t)'
  BY <1>1, <1>2, <1>6, <1>7 DEF Left, InPlace, Consented, At, InLoop, Begun, Places
<1> QED
  BY <1>1, <1>4, <1>5, <1>6, <1>7, <1>8, GoesOn
\* The turn of the loop is a place, in the loop exactly when there is a chunk
LEMMA TurnPlaces ==
  ASSUME NEW kind, NEW v, NEW i
  PROVE  /\ Turn(kind, v, i) \in {"poll", "assemble"}
         /\ Turn(kind, v, i) = "poll" <=> i <= Len(Splits[kind][v])
  BY DEF Turn

LEMMA PrepareKeeps ==
  ASSUME IInv, NEW t \in Threads, NEW j \in Jobs, w[t].job = j, Prepare(t)
  PROVE  Keeps
<1>1. Busy(t) /\ w[t].pc = "prepare" /\ (w[t].analysis \/ Kind(t) \in Transforms)
  BY DEF Prepare, At
<1>2. TypeOK /\ w[t] \in Workers /\ Exists(j) /\ reg[j] = t /\ InPlace(t) /\ Consented(t)
  BY <1>1, AtWork
<1>3. PICK v : v = input[FileOf[j]]
  OBVIOUS
<1>4. v \in Versions
  BY <1>2, <1>3, BatchAssumption DEF TypeOK
<1>5. PICK entry \in Entries(t, v) : w' = [w EXCEPT ![t] = entry]
  BY <1>3 DEF Prepare
<1>6. /\ cp' = cp /\ ft' = ft /\ input' = input /\ tmp' = tmp /\ out' = out
      /\ clash' = clash /\ edits' = edits /\ reg' = reg /\ allowed' = allowed /\ calls' = calls
      /\ faults' = faults
  BY DEF Prepare, files
<1>7. PICK i \in 1..(MaxChunks + 1) :
        /\ Kind(t) = "chunks" => \A n \in 1..MaxChunks : n < i => cp[j][n] # None
        /\ \/ entry = [w[t] EXCEPT !.pc = Turn(Kind(t), v, i), !.plan = v, !.idx = i]
           \/ Kind(t) = "analysis" /\ entry = [w[t] EXCEPT !.pc = "assemble", !.plan = v]
  <2> DEFINE first == IF Kind(t) = "chunks" THEN Reusable(t, v) + 1 ELSE 1
  <2>1. /\ Contiguous(j) \in 0..MaxChunks
        /\ \A n \in 1..Contiguous(j) : cp[j][n] # None
    BY <1>2, ContiguousHolds DEF TypeOK
  <2>2. Reusable(t, v) \in {0, Contiguous(j)}
    BY DEF Reusable
  <2>3. first \in 1..(MaxChunks + 1)
    BY <2>1, <2>2, BatchAssumption
  <2>4. Kind(t) = "chunks" => \A n \in 1..MaxChunks : n < first => cp[j][n] # None
    BY <2>1, <2>2, BatchAssumption
  <2>5. \/ entry = [w[t] EXCEPT !.pc = Turn(Kind(t), v, first), !.plan = v, !.idx = first]
        \/ Kind(t) = "analysis" /\ entry = [w[t] EXCEPT !.pc = "assemble", !.plan = v]
    BY DEF Entries
  <2> HIDE DEF first
  <2> QED
    BY <2>3, <2>4, <2>5
<1>8. /\ entry \in Workers /\ entry.job = j /\ entry.analysis = w[t].analysis
      /\ entry.plan = v /\ entry.pc \in {"poll", "assemble"}
      /\ Kind(t) # "analysis" => entry.idx = i
      /\ entry.pc = "poll" => entry.idx = i /\ i <= Len(Splits[Kind(t)][v])
      /\ Kind(t) # "analysis" /\ entry.pc = "assemble" => ~ (i <= Len(Splits[Kind(t)][v]))
  <2>1. CASE entry = [w[t] EXCEPT !.pc = Turn(Kind(t), v, i), !.plan = v, !.idx = i]
    <3>1. PICK pc : pc = Turn(Kind(t), v, i)
      OBVIOUS
    <3>2. pc \in {"poll", "assemble"} /\ (pc = "poll" <=> i <= Len(Splits[Kind(t)][v]))
      BY <3>1, TurnPlaces, Zenon
    <3>3. entry = [w[t] EXCEPT !.pc = pc, !.plan = v, !.idx = i]
      BY <2>1, <3>1
    <3>4. entry \in Workers
      BY <1>2, <1>4, <3>2, <3>3 DEF Workers, Places
    <3>5. /\ entry.job = j /\ entry.analysis = w[t].analysis /\ entry.plan = v
          /\ entry.pc = pc /\ entry.idx = i
      BY <1>2, <3>3 DEF Workers
    <3> QED
      BY <3>2, <3>4, <3>5, Zenon
  <2>2. CASE Kind(t) = "analysis" /\ entry = [w[t] EXCEPT !.pc = "assemble", !.plan = v]
    BY <1>2, <1>4, <2>2 DEF Workers, Places
  <2> QED
    BY <1>7, <2>1, <2>2
<1>9. w'[t] = entry /\ OnlyWorker(t) /\ w' \in [Threads -> {Idle} \cup Workers]
  BY <1>2, <1>5, <1>8 DEF OnlyWorker, TypeOK
<1>10. /\ job' \in [Jobs -> {None, Gone} \cup JobRecords] /\ job'[j] \in JobRecords
       /\ \A k \in Jobs \ {j} : job'[k] = job[k]
       /\ job'[j].kind = job[j].kind /\ job'[j].mode = job[j].mode
       /\ job'[j].status = job[j].status
  <2>1. job \in [Jobs -> {None, Gone} \cup JobRecords] /\ job[j] \in JobRecords
    BY <1>2, JobFields DEF TypeOK
  <2>2. [job[j] EXCEPT !.plan = v] \in JobRecords
    BY <1>4, <2>1 DEF JobRecords
  <2>3. job' = job \/ job' = [job EXCEPT ![j] = [job[j] EXCEPT !.plan = v]]
    BY <1>3 DEF Prepare
  <2> QED
    BY <2>1, <2>2, <2>3 DEF JobRecords
<1>11. TypeOK'
  BY <1>2, <1>6, <1>9, <1>10 DEF TypeOK
<1>12. /\ OnlyJob(j) /\ reg'[j] = t /\ Exists(j)' /\ Status(j)' = Status(j)
       /\ Kind(t)' = Kind(t)
  BY <1>2, <1>6, <1>8, <1>9, <1>10, BatchAssumption DEF OnlyJob, Exists, Status, Kind
<1>13. Left(t)'
  BY <1>8, <1>9 DEF Left, At
<1>14. InPlace(t)'
  <2>1. Kind(t) \in Kinds /\ (Kind(t) = "chunks" => Len(Splits["chunks"][v]) \in 0..MaxChunks)
    BY <1>2, <1>4, JobFields, SplitsTyped DEF Kind, Kinds
  <2>2. w[t].analysis => Kind(t) = "analysis"
    BY <1>1, <1>2 DEF InPlace
  <2>3. Kind(t) = "chunks" => Kind(t) # "analysis"
    OBVIOUS
  <2> QED
    BY <1>1, <1>4, <1>6, <1>7, <1>8, <1>9, <1>12, <2>1, <2>2, <2>3
       DEF InPlace, InLoop, Begun, Places
<1>15. Consented(t)'
  BY <1>1, <1>2, <1>6, <1>8, <1>9, <1>10, <1>12 DEF Consented, Kind
<1> QED
  BY <1>1, <1>6, <1>8, <1>9, <1>11, <1>12, <1>13, <1>14, <1>15, GoesOn

\* The thread that has done its chunk is at the next one or behind the loop
LEMMA OnwardFields ==
  ASSUME IInv, NEW t \in Threads, Busy(t), w[t].pc \in InLoop
  PROVE  /\ Onward(t) \in Workers /\ Onward(t).job = w[t].job
         /\ Onward(t).analysis = w[t].analysis /\ Onward(t).plan = w[t].plan
         /\ Onward(t).idx = w[t].idx + 1 /\ Onward(t).text = w[t].text
         /\ Onward(t).pc \in {"poll", "assemble"}
         /\ Onward(t).pc = "poll" <=> w[t].idx + 1 <= Len(Splits[Kind(t)][w[t].plan])
         /\ w[t].plan \in Versions /\ Kind(t) \in Kinds
         /\ w[t].idx \in 1..MaxChunks /\ w[t].idx <= Len(Splits[Kind(t)][w[t].plan])
         /\ Len(Splits[Kind(t)][w[t].plan]) \in 0..MaxChunks
<1>1. TypeOK /\ w[t] \in Workers /\ w[t].job \in Jobs /\ Exists(w[t].job) /\ InPlace(t)
  BY AtWork
<1>2. w[t].plan \in Versions /\ w[t].idx <= Len(Splits[Kind(t)][w[t].plan])
  BY <1>1 DEF InPlace, InLoop, Begun, Places
<1>3. Kind(t) \in Kinds
  BY <1>1, JobFields DEF Kind
<1>4. Len(Splits[Kind(t)][w[t].plan]) \in 0..MaxChunks
  BY <1>2, <1>3, SplitsTyped
<1>5. w[t].idx \in 1..MaxChunks
  BY <1>1, <1>2, <1>4, BatchAssumption DEF Workers
<1>6. w[t].idx + 1 \in 1..(MaxChunks + 1)
  BY <1>5, BatchAssumption
<1>7. PICK pc : pc = Turn(Kind(t), w[t].plan, w[t].idx + 1)
  OBVIOUS
<1>8. /\ pc \in {"poll", "assemble"}
      /\ pc = "poll" <=> w[t].idx + 1 <= Len(Splits[Kind(t)][w[t].plan])
  BY <1>7, TurnPlaces
<1>9. Onward(t) = [w[t] EXCEPT !.idx = w[t].idx + 1, !.pc = pc]
  BY <1>7 DEF Onward
<1>10. /\ Onward(t) \in Workers /\ Onward(t).job = w[t].job
       /\ Onward(t).analysis = w[t].analysis /\ Onward(t).plan = w[t].plan
       /\ Onward(t).idx = w[t].idx + 1 /\ Onward(t).text = w[t].text
       /\ Onward(t).pc = pc
  <2>1. pc \in Places
    BY <1>8 DEF Places
  <2> QED
    BY <1>1, <1>6, <1>9, <2>1 DEF Workers
<1> QED
  BY <1>2, <1>3, <1>4, <1>5, <1>8, <1>10

LEMMA ReuseKeeps ==
  ASSUME IInv, NEW t \in Threads, NEW j \in Jobs, w[t].job = j, Reuse(t)
  PROVE  Keeps
<1>1. Busy(t) /\ w[t].pc = "poll" /\ Kind(t) = "freetext"
  BY DEF Reuse, At, Done
<1>2. TypeOK /\ w[t] \in Workers /\ Exists(j) /\ reg[j] = t /\ InPlace(t)
  BY <1>1, AtWork
<1>3. /\ Onward(t) \in Workers /\ Onward(t).job = j
      /\ Onward(t).analysis = w[t].analysis /\ Onward(t).plan = w[t].plan
      /\ Onward(t).idx = w[t].idx + 1 /\ Onward(t).text = w[t].text
      /\ Onward(t).pc \in {"poll", "assemble"}
      /\ Onward(t).pc = "poll" <=> w[t].idx + 1 <= Len(Splits[Kind(t)][w[t].plan])
      /\ w[t].plan \in Versions
      /\ w[t].idx \in 1..MaxChunks /\ w[t].idx <= Len(Splits[Kind(t)][w[t].plan])
  BY <1>1, OnwardFields DEF InLoop
<1>4. PICK piece : piece = Piece("freetext", w[t].plan, w[t].idx)
  OBVIOUS
<1>5. piece \in Texts
  BY <1>1, <1>3, <1>4, PieceTyped DEF Kinds
<1>6. w' = [w EXCEPT ![t] = [Onward(t) EXCEPT !.text = Append(Onward(t).text, piece)]]
  BY <1>4 DEF Reuse
<1>7. /\ w'[t] \in Workers /\ w'[t].job = j /\ w'[t].analysis = w[t].analysis
      /\ w'[t].plan = w[t].plan /\ w'[t].idx = w[t].idx + 1 /\ w'[t].pc = Onward(t).pc
      /\ w' \in [Threads -> {Idle} \cup Workers] /\ OnlyWorker(t)
  <2>1. Append(Onward(t).text, piece) \in Seq(Texts)
    BY <1>3, <1>5 DEF Workers
  <2>2. PICK r : r = [Onward(t) EXCEPT !.text = Append(Onward(t).text, piece)]
    OBVIOUS
  <2>3. /\ r \in Workers /\ r.job = j /\ r.analysis = w[t].analysis
        /\ r.plan = w[t].plan /\ r.idx = w[t].idx + 1 /\ r.pc = Onward(t).pc
    BY <1>3, <2>1, <2>2 DEF Workers
  <2>4. w' = [w EXCEPT ![t] = r]
    BY <1>6, <2>2
  <2> QED
    BY <1>2, <2>3, <2>4 DEF TypeOK, OnlyWorker
<1>8. JobsSame /\ faults' = faults
  BY DEF Reuse, files, JobsSame
<1>9. TypeOK'
  BY <1>2, <1>7 DEF TypeOK, Reuse, files
<1>10. /\ OnlyJob(j) /\ reg'[j] = t /\ Exists(j)' /\ Status(j)' = Status(j)
       /\ Kind(t)' = Kind(t)
  BY <1>2, <1>7, <1>8, SameJobs
<1>11. Left(t)' /\ Consented(t)'
  BY <1>1, <1>3, <1>7, <1>10 DEF Left, Consented, At
<1>12. InPlace(t)'
  BY <1>1, <1>2, <1>3, <1>7, <1>10 DEF InPlace, InLoop, Begun, Places, Transforms
<1> QED
  BY <1>1, <1>7, <1>8, <1>9, <1>10, <1>11, <1>12, GoesOn

LEMMA WorkKeeps ==
  ASSUME IInv, NEW t \in Threads, NEW j \in Jobs, w[t].job = j, Work(t)
  PROVE  Keeps
<1>1. Busy(t) /\ w[t].pc = "work"
  BY DEF Work, At
<1>2. TypeOK /\ w[t] \in Workers /\ Exists(j) /\ reg[j] = t /\ InPlace(t)
  BY <1>1, AtWork
<1>3. /\ w[t].plan \in Versions /\ Kind(t) \in Kinds /\ w[t].idx \in 1..MaxChunks
      /\ w[t].idx <= Len(Splits[Kind(t)][w[t].plan])
  BY <1>1, OnwardFields DEF InLoop
<1>4. PICK piece : piece = Piece(Kind(t), w[t].plan, w[t].idx)
  OBVIOUS
<1>5. piece \in Texts /\ piece # None
  <2>1. piece \in Texts
    BY <1>3, <1>4, PieceTyped
  <2> QED
    BY <2>1, BatchAssumption
<1>6. PICK text : text = IF Kind(t) = "chunks" THEN <<>> ELSE Append(w[t].text, piece)
  OBVIOUS
<1>7. text \in Seq(Texts)
  BY <1>2, <1>5, <1>6 DEF Workers
<1>8. w' = [w EXCEPT ![t] = [w[t] EXCEPT !.pc = "progress", !.text = text]]
  BY <1>4, <1>6 DEF Work
<1>9. /\ w'[t] \in Workers /\ w'[t].job = j /\ w'[t].analysis = w[t].analysis
      /\ w'[t].plan = w[t].plan /\ w'[t].idx = w[t].idx /\ w'[t].pc = "progress"
      /\ w' \in [Threads -> {Idle} \cup Workers] /\ OnlyWorker(t)
  <2>1. PICK r : r = [w[t] EXCEPT !.pc = "progress", !.text = text]
    OBVIOUS
  <2>2. /\ r \in Workers /\ r.job = j /\ r.analysis = w[t].analysis
        /\ r.plan = w[t].plan /\ r.idx = w[t].idx /\ r.pc = "progress"
    BY <1>2, <1>7, <2>1 DEF Workers, Places
  <2>3. w' = [w EXCEPT ![t] = r]
    BY <1>8, <2>1
  <2> QED
    BY <1>2, <2>2, <2>3 DEF TypeOK, OnlyWorker
<1>10. /\ job' = job /\ reg' = reg /\ faults' = faults
       /\ input' = input /\ tmp' = tmp /\ out' = out /\ clash' = clash
       /\ calls' = calls /\ edits' = edits
       /\ allowed' = [allowed EXCEPT ![j] = FALSE]
       /\ \/ ft' = [ft EXCEPT ![j] = ft[j] \cup {<<w[t].plan, w[t].idx>>}] /\ cp' = cp
             /\ Kind(t) = "freetext"
          \/ cp' = [cp EXCEPT ![j] = [cp[j] EXCEPT ![w[t].idx] = piece]] /\ ft' = ft
  BY <1>4 DEF Work
<1>11. ft' \in [Jobs -> SUBSET (Versions \X (1..MaxChunks))]
  <2>1. PICK set : set = ft[j] \cup {<<w[t].plan, w[t].idx>>}
    OBVIOUS
  <2>2. ft \in [Jobs -> SUBSET (Versions \X (1..MaxChunks))]
    BY <1>2 DEF TypeOK
  <2>3. <<w[t].plan, w[t].idx>> \in Versions \X (1..MaxChunks)
    BY <1>3
  <2>4. set \in SUBSET (Versions \X (1..MaxChunks))
    BY <2>1, <2>2, <2>3, Zenon
  <2>5. ft' = ft \/ ft' = [ft EXCEPT ![j] = set]
    BY <1>10, <2>1, Zenon
  <2> QED
    BY <2>2, <2>4, <2>5
<1>12. /\ cp' \in [Jobs -> [1..MaxChunks -> Texts \cup {None}]]
       /\ \A k \in Jobs \ {j} : cp'[k] = cp[k]
       /\ Kind(t) = "chunks" => cp'[j][w[t].idx] = piece
       /\ \A i \in 1..MaxChunks : cp[j][i] # None => cp'[j][i] # None
  <2>1. cp \in [Jobs -> [1..MaxChunks -> Texts \cup {None}]]
    BY <1>2 DEF TypeOK
  <2>2. CASE cp' = cp /\ Kind(t) = "freetext"
    BY <2>1, <2>2
  <2>3. CASE cp' = [cp EXCEPT ![j] = [cp[j] EXCEPT ![w[t].idx] = piece]]
    BY <1>3, <1>5, <2>1, <2>3
  <2> QED
    BY <1>10, <2>2, <2>3
<1>13. TypeOK'
  BY <1>2, <1>9, <1>10, <1>11, <1>12 DEF TypeOK
<1>14. OnlyJob(j) /\ reg'[j] = t /\ Exists(j)' /\ Kind(t)' = Kind(t)
  BY <1>2, <1>9, <1>10, <1>12 DEF OnlyJob, Exists, Kind, TypeOK
<1>15. Left(t)' /\ Consented(t)'
  BY <1>9 DEF Left, Consented, At
<1>16. InPlace(t)'
  <2>1. Kind(t) = "chunks" =>
          /\ \A i \in 1..MaxChunks : i < w[t].idx => cp'[j][i] # None
          /\ cp'[j][w[t].idx] # None
    BY <1>1, <1>2, <1>5, <1>12 DEF InPlace, InLoop
  <2> QED
    BY <1>1, <1>2, <1>3, <1>9, <1>14, <2>1 DEF InPlace, InLoop, Begun, Places
<1> QED
  BY <1>1, <1>9, <1>10, <1>13, <1>14, <1>15, <1>16, GoesOn

LEMMA ProgressKeeps ==
  ASSUME IInv, NEW t \in Threads, NEW j \in Jobs, w[t].job = j, Progress(t)
  PROVE  Keeps
<1>1. Busy(t) /\ w[t].pc = "progress"
  BY DEF Progress, At
<1>2. TypeOK /\ w[t] \in Workers /\ Exists(j) /\ reg[j] = t /\ InPlace(t)
  BY <1>1, AtWork
<1>3. /\ Onward(t) \in Workers /\ Onward(t).job = j
      /\ Onward(t).analysis = w[t].analysis /\ Onward(t).plan = w[t].plan
      /\ Onward(t).idx = w[t].idx + 1
      /\ Onward(t).pc \in {"poll", "assemble"}
      /\ Onward(t).pc = "poll" <=> w[t].idx + 1 <= Len(Splits[Kind(t)][w[t].plan])
      /\ w[t].plan \in Versions /\ w[t].idx \in 1..MaxChunks
      /\ Len(Splits[Kind(t)][w[t].plan]) \in 0..MaxChunks
  BY <1>1, OnwardFields DEF InLoop
<1>4. /\ w'[t] = Onward(t) /\ OnlyWorker(t) /\ w' \in [Threads -> {Idle} \cup Workers]
  BY <1>2, <1>3 DEF Progress, TypeOK, OnlyWorker
<1>5. /\ job' \in [Jobs -> {None, Gone} \cup JobRecords]
      /\ \A k \in Jobs \ {j} : job'[k] = job[k]
      /\ Exists(j)' /\ job'[j].kind = job[j].kind /\ job'[j].mode = job[j].mode
      /\ Waits(t) => Status(j)' = "paused"
  <2>1. CASE Waits(t)
    <3>1. Given(j, "paused")
      BY <1>2, <2>1, SetGives DEF Progress, Statuses
    <3>2. Exists(j)' /\ Status(j)' = "paused" /\ job'[j].kind = job[j].kind
          /\ job'[j].mode = job[j].mode
      BY <3>1, GivenStatus DEF Statuses
    <3> QED
      BY <3>1, <3>2 DEF Given
  <2>2. CASE ~Waits(t)
    BY <1>2, <2>2 DEF Progress, TypeOK, Exists
  <2> QED
    BY <2>1, <2>2
<1>6. /\ cp' = cp /\ ft' = ft /\ input' = input /\ tmp' = tmp /\ out' = out
      /\ clash' = clash /\ edits' = edits /\ reg' = reg /\ allowed' = allowed /\ calls' = calls
      /\ faults' = faults
  BY DEF Progress, files
<1>7. TypeOK'
  BY <1>2, <1>4, <1>5, <1>6 DEF TypeOK
<1>8. OnlyJob(j) /\ reg'[j] = t /\ Kind(t)' = Kind(t)
  BY <1>2, <1>3, <1>4, <1>5, <1>6 DEF OnlyJob, Kind
<1>9. Left(t)'
  BY <1>3, <1>4 DEF Left, At
<1>10. Consented(t)'
  <2>1. SUFFICES ASSUME Kind(t)' = "chunks", job'[j].mode = "controlled", w'[t].pc = "poll"
                 PROVE  Status(j)' = "paused"
    BY <1>3, <1>4 DEF Consented
  <2>2. w[t].idx < Len(Splits["chunks"][w[t].plan])
    BY <1>3, <1>4, <1>8, <2>1
  <2>3. Waits(t)
    BY <1>5, <1>8, <2>1, <2>2 DEF Waits
  <2> QED
    BY <1>5, <2>3
<1>11. InPlace(t)'
  <2>1. Kind(t) = "chunks" => \A i \in 1..MaxChunks : i < w[t].idx + 1 => cp[j][i] # None
    BY <1>1, <1>2, <1>3 DEF InPlace, InLoop
  <2>2. Kind(t) = "chunks" /\ Onward(t).pc = "assemble" =>
          w[t].idx + 1 > Len(Splits["chunks"][w[t].plan])
    BY <1>3
  <2>3. (w[t].analysis \/ Kind(t) \in Transforms)
        /\ (w[t].analysis => Kind(t) = "analysis")
    BY <1>1, <1>2 DEF InPlace, Begun, Places
  <2> QED
    BY <1>3, <1>4, <1>6, <1>8, <2>1, <2>2, <2>3 DEF InPlace, InLoop, Begun, Places
<1> QED
  BY <1>1, <1>3, <1>4, <1>5, <1>6, <1>7, <1>8, <1>9, <1>10, <1>11, GoesOn

LEMMA CompleteKeeps ==
  ASSUME IInv, NEW t \in Threads, NEW j \in Jobs, w[t].job = j, Complete(t)
  PROVE  Keeps
<1>1. Busy(t) /\ w[t].pc = "complete"
  BY DEF Complete, At
<1>2. TypeOK /\ w[t] \in Workers /\ Exists(j) /\ reg[j] = t /\ InPlace(t)
  BY <1>1, AtWork
<1>3. Moved(t, "close")
  BY <1>1, <1>2, GoToMoves DEF Complete, Places
<1>4. /\ job' \in [Jobs -> {None, Gone} \cup JobRecords]
      /\ \A k \in Jobs \ {j} : job'[k] = job[k]
      /\ Exists(j)' /\ job'[j].kind = job[j].kind /\ Status(j)' \in {"completed", "cancelled"}
  <2>1. CASE HeedsCancel(t)
    BY <1>2, <2>1 DEF Complete, HeedsCancel, TypeOK, Exists, Status
  <2>2. CASE ~HeedsCancel(t)
    <3>1. Given(j, "completed")
      BY <1>2, <2>2, SetGives DEF Complete, Statuses
    <3>2. Exists(j)' /\ Status(j)' = "completed"
      BY <3>1, GivenStatus DEF Statuses
    <3> QED
      BY <3>1, <3>2 DEF Given
  <2> QED
    BY <2>1, <2>2
<1>5. /\ cp' = cp /\ ft' = ft /\ input' = input /\ tmp' = tmp /\ out' = out
      /\ clash' = clash /\ edits' = edits /\ reg' = reg /\ allowed' = allowed /\ calls' = calls
      /\ faults' = faults
  BY DEF Complete, files
<1>6. TypeOK'
  BY <1>2, <1>3, <1>4, <1>5 DEF TypeOK, Moved
<1>7. /\ w'[t] \in Workers /\ w'[t].pc = "close" /\ w'[t].job = j /\ OnlyWorker(t)
      /\ w'[t].analysis = w[t].analysis
  BY <1>3 DEF Moved
<1>8. OnlyJob(j) /\ reg'[j] = t /\ Kind(t)' = Kind(t)
  BY <1>2, <1>4, <1>5, <1>7 DEF OnlyJob, Kind
<1>9. Left(t)' /\ InPlace(t)' /\ Consented(t)'
  BY <1>1, <1>2, <1>4, <1>7, <1>8 DEF Left, InPlace, Consented, At, InLoop, Begun, InHand
<1> QED
  BY <1>1, <1>4, <1>5, <1>6, <1>7, <1>8, <1>9, GoesOn

LEMMA FailKeeps ==
  ASSUME IInv, NEW t \in Threads, NEW j \in Jobs, w[t].job = j, Fail(t)
  PROVE  Keeps
<1>1. Busy(t) /\ w[t].pc = "fail"
  BY DEF Fail, At
<1>2. TypeOK /\ w[t] \in Workers /\ Exists(j) /\ reg[j] = t /\ InPlace(t)
  BY <1>1, AtWork
<1>3. Moved(t, "close")
  BY <1>1, <1>2, GoToMoves DEF Fail, Places
<1>4. /\ job' \in [Jobs -> {None, Gone} \cup JobRecords]
      /\ \A k \in Jobs \ {j} : job'[k] = job[k]
      /\ Exists(j)' /\ job'[j].kind = job[j].kind
      /\ faults' \in {faults, faults + 1}
      /\ faults' \in Nat /\ edits + faults' <= MaxMishaps
      /\ Status(j)' \in InHand => faults' > 0
  <2>1. CASE job' = job /\ faults' = faults + 1 /\ edits + faults < MaxMishaps
    BY <1>2, <2>1, OneMishap DEF TypeOK, Exists
  <2>2. CASE job' = job /\ faults' = faults /\ Status(j) = "cancelled"
    BY <1>2, <2>2 DEF TypeOK, Exists, Status, InHand
  <2>3. CASE Set(j, "failed") /\ faults' = faults
    <3>1. Given(j, "failed")
      BY <1>2, <2>3, SetGives DEF Statuses
    <3>2. Exists(j)' /\ Status(j)' = "failed"
      BY <3>1, GivenStatus DEF Statuses
    <3> QED
      BY <1>2, <2>3, <3>1, <3>2 DEF Given, InHand, TypeOK
  <2>4. \/ job' = job /\ faults' = faults + 1 /\ edits + faults < MaxMishaps
        \/ job' = job /\ faults' = faults /\ Status(j) = "cancelled"
        \/ Set(j, "failed") /\ faults' = faults
    BY Zenon DEF Fail
  <2> QED
    BY <2>1, <2>2, <2>3, <2>4, Zenon
<1>5. /\ cp' = cp /\ ft' = ft /\ input' = input /\ tmp' = tmp /\ out' = out
      /\ clash' = clash /\ edits' = edits /\ reg' = reg /\ allowed' = allowed /\ calls' = calls
  BY DEF Fail, files
<1>6. TypeOK'
  BY <1>2, <1>3, <1>4, <1>5 DEF TypeOK, Moved
<1>7. /\ w'[t] \in Workers /\ w'[t].pc = "close" /\ w'[t].job = j /\ OnlyWorker(t)
      /\ w'[t].analysis = w[t].analysis
  BY <1>3 DEF Moved
<1>8. OnlyJob(j) /\ reg'[j] = t /\ Kind(t)' = Kind(t)
  BY <1>2, <1>4, <1>5, <1>7 DEF OnlyJob, Kind
<1>9. Left(t)' /\ InPlace(t)' /\ Consented(t)'
  BY <1>1, <1>2, <1>4, <1>7, <1>8 DEF Left, InPlace, Consented, At, InLoop, Begun
<1> QED
  BY <1>1, <1>4, <1>5, <1>6, <1>7, <1>8, <1>9, GoesOn

LEMMA CloseKeeps ==
  ASSUME IInv, NEW t \in Threads, NEW j \in Jobs, w[t].job = j, Close(t)
  PROVE  Keeps
<1>1. Busy(t) /\ At(t, "close")
  BY DEF Close, At
<1>2. /\ TypeOK /\ Exists(j) /\ Left(t)
      /\ \A u \in Threads \ {t} : Busy(u) => w[u].job # j
  BY <1>1, AtWork
<1>3. /\ w' = [w EXCEPT ![t] = Idle] /\ job' = job /\ cp' = cp /\ ft' = ft
      /\ input' = input /\ tmp' = tmp /\ out' = out /\ clash' = clash /\ edits' = edits
      /\ allowed' = allowed /\ calls' = calls
      /\ \/ reg' = [reg EXCEPT ![j] = None] /\ faults' = faults
         \/ reg' = reg /\ faults' = faults + 1 /\ edits + faults < MaxMishaps
  BY DEF Close, files
<1>4. TypeOK'
  <2>1. w' \in [Threads -> {Idle} \cup Workers]
    BY <1>2, <1>3 DEF TypeOK
  <2>2. reg' \in [Jobs -> Threads \cup {None}]
    BY <1>2, <1>3 DEF TypeOK
  <2>3. edits' = edits /\ faults' \in Nat /\ edits + faults' <= MaxMishaps
    BY <1>2, <1>3, OneMishap DEF TypeOK
  <2> QED
    BY <1>2, <1>3, <2>1, <2>2, <2>3 DEF TypeOK
<1>5. StepOf({t}, j)
  BY <1>2, <1>3, BatchAssumption DEF StepOf, OnlyJob, TypeOK
<1>6. w'[t] = Idle
  BY <1>2, <1>3 DEF TypeOK
<1>7. Own(t)'
  BY <1>6 DEF Own, Kept, Left, InPlace, Consented, At, Busy
<1>8. Shown(j)'
  <2>1. Status(j)' = Status(j) /\ faults' >= faults
    BY <1>2, <1>3, BatchAssumption DEF Status, Exists, TypeOK
  <2>2. Status(j) \in InHand => faults > 0
    BY <1>1, <1>2 DEF Left
  <2> QED
    BY <1>2, <1>4, <2>1, <2>2 DEF Shown, TypeOK
<1> QED
  BY <1>4, <1>5, <1>7, <1>8, OthersStay DEF Keeps

-----------------------------------------------------------------------------
(* The calls of the user *)

\* Fields that no call but a start or a restart touches
Elsewhere ==
  /\ cp' = cp /\ ft' = ft /\ input' = input /\ tmp' = tmp /\ out' = out
  /\ clash' = clash /\ edits' = edits

LEMMA CalledTyped ==
  ASSUME TypeOK, NEW j \in Jobs, Called(j)
  PROVE  /\ calls' \in [Jobs -> Nat] /\ \A k \in Jobs : calls'[k] <= MaxCalls[k]
<1>1. calls \in [Jobs -> Nat] /\ \A k \in Jobs : calls[k] <= MaxCalls[k]
  BY DEF TypeOK
<1>2. calls[j] < MaxCalls[j] /\ calls' = [calls EXCEPT ![j] = calls[j] + 1]
  BY DEF Called
<1>3. MaxCalls[j] \in Nat
  BY BatchAssumption
<1>4. calls' \in [Jobs -> Nat] /\ calls'[j] = calls[j] + 1
      /\ \A k \in Jobs \ {j} : calls'[k] = calls[k]
  BY <1>1, <1>2
<1>5. calls[j] + 1 <= MaxCalls[j]
  BY <1>1, <1>2, <1>3
<1> QED
  BY <1>1, <1>4, <1>5

\* Nobody works on a job without a live thread or that is not in the store
LEMMA NobodyOn ==
  ASSUME IInv, NEW j \in Jobs, ~Alive(j) \/ ~Exists(j)
  PROVE  \A u \in Threads : Busy(u) => w[u].job # j
<1>1. SUFFICES ASSUME NEW u \in Threads, Busy(u), w[u].job = j PROVE FALSE
  OBVIOUS
<1>2. Alive(w[u].job) /\ Exists(w[u].job)
  BY <1>1, AtWork
<1> QED
  BY <1>1, <1>2

\* A call that gives the job of a thread another status, mode or consent
LEMMA ManagedKeeps ==
  ASSUME IInv, NEW j \in Jobs, Exists(j), TypeOK', w' = w, reg' = reg, cp' = cp,
         faults' = faults, OnlyJob(j), Exists(j)', job'[j].kind = job[j].kind,
         Status(j)' \in InHand => Status(j) \in InHand,
         \/ job'[j].mode # "controlled"
         \/ allowed'[j]
         \/ /\ Status(j)' \in {"paused", "cancelled"}
            /\ job'[j].mode = job[j].mode /\ allowed'[j] = allowed[j]
  PROVE  Keeps
<1>1. TypeOK /\ WorkerInv /\ Shown(j)
  BY DEF IInv, StoreInv
<1>2. Shown(j)'
  BY <1>1 DEF Shown, Alive, Busy
<1>3. CASE \E t \in Threads : Busy(t) /\ w[t].job = j
  <2>1. PICK t \in Threads : Busy(t) /\ w[t].job = j
    BY <1>3
  <2>2. /\ \A u \in Threads \ {t} : Busy(u) => w[u].job # j
        /\ Kept(t) /\ Left(t) /\ InPlace(t) /\ Consented(t)
    BY <2>1, AtWork
  <2>3. StepOf({t}, j)
    BY <1>1, <2>1, <2>2, BatchAssumption DEF StepOf, TypeOK
  <2>4. Kept(t)'
    BY <2>1, <2>2 DEF Kept, Busy
  <2>5. Left(t)'
    BY <2>1, <2>2 DEF Left, At, Busy
  <2>6. Kind(t)' = Kind(t)
    BY <2>1 DEF Kind
  <2>7. InPlace(t)'
    BY <2>1, <2>2, <2>6 DEF InPlace, Busy
  <2>8. Consented(t)'
    BY <2>1, <2>2, <2>6 DEF Consented, Busy
  <2> QED
    BY <1>2, <2>3, <2>4, <2>5, <2>7, <2>8, OthersStay DEF Keeps, Own
<1>4. CASE \A t \in Threads : Busy(t) => w[t].job # j
  <2>1. StepOf({}, j)
    BY <1>1, <1>4, BatchAssumption DEF StepOf, TypeOK
  <2> QED
    BY <1>2, <2>1, OthersStay DEF Keeps
<1> QED
  BY <1>3, <1>4

\* A call on a job nobody works on, which starts no thread and leaves it idle
LEMMA UnmannedKeeps ==
  ASSUME IInv, NEW j \in Jobs, ~Alive(j) \/ ~Exists(j), TypeOK', w' = w, OnlyJob(j),
         faults' \in {faults, faults + 1}, Status(j)' \notin InHand
  PROVE  Keeps
<1>1. TypeOK
  BY DEF IInv
<1>2. StepOf({}, j)
  BY <1>1, NobodyOn, BatchAssumption DEF StepOf, TypeOK
<1>3. Shown(j)'
  BY DEF Shown
<1> QED
  BY <1>2, <1>3, OthersStay DEF Keeps

\* A call that starts a thread on a job nobody works on
LEMMA SpawnedKeeps ==
  ASSUME IInv, NEW j \in Jobs, ~Alive(j) \/ ~Exists(j), NEW analysis \in BOOLEAN,
         Spawned(j, analysis), Elsewhere,
         job' \in [Jobs -> {None, Gone} \cup JobRecords], job'[j] \in JobRecords,
         \A k \in Jobs \ {j} : job'[k] = job[k],
         analysis => job'[j].kind = "analysis",
         allowed' = [allowed EXCEPT ![j] = TRUE],
         calls' \in [Jobs -> Nat], \A k \in Jobs : calls'[k] <= MaxCalls[k]
  PROVE  Keeps
<1>1. TypeOK /\ \A u \in Threads : Busy(u) => w[u].job # j
  BY NobodyOn DEF IInv
<1>2. PICK t \in Threads :
        /\ ~Busy(t) /\ w' = [w EXCEPT ![t] = Worker(j, analysis)]
        /\ reg' = [reg EXCEPT ![j] = t]
  BY DEF Spawned
<1>3. faults' = faults
  BY DEF Spawned
<1>4. /\ Worker(j, analysis) \in Workers
      /\ Worker(j, analysis).job = j /\ Worker(j, analysis).pc = "begin"
      /\ Worker(j, analysis).analysis = analysis
  <2>1. 1 \in 1..(MaxChunks + 1) /\ <<>> \in Seq(Texts)
    BY BatchAssumption
  <2> QED
    BY <2>1 DEF Worker, Workers, Places
<1>5. /\ w'[t] \in Workers /\ w'[t].job = j /\ w'[t].pc = "begin"
      /\ w'[t].analysis = analysis
      /\ w' \in [Threads -> {Idle} \cup Workers]
      /\ \A u \in Threads \ {t} : w'[u] = w[u]
  BY <1>1, <1>2, <1>4 DEF TypeOK
<1>6. /\ reg' \in [Jobs -> Threads \cup {None}] /\ reg'[j] = t
      /\ \A k \in Jobs \ {j} : reg'[k] = reg[k]
  BY <1>1, <1>2 DEF TypeOK
<1>7. /\ allowed' \in [Jobs -> BOOLEAN] /\ allowed'[j]
      /\ \A k \in Jobs \ {j} : allowed'[k] = allowed[k]
  BY <1>1 DEF TypeOK
<1>8. TypeOK'
  BY <1>1, <1>3, <1>5, <1>6, <1>7 DEF TypeOK, Elsewhere
<1>9. OnlyJob(j)
  BY <1>6, <1>7 DEF OnlyJob, Elsewhere
<1>10. StepOf({t}, j)
  BY <1>1, <1>2, <1>3, <1>5, <1>9, BatchAssumption DEF StepOf, TypeOK
<1>11. Exists(j)'
  BY BatchAssumption DEF Exists
<1>12. Kept(t)' /\ Shown(j)'
  BY <1>5, <1>6, <1>8, <1>11, StillRegistered
<1>13. Left(t)' /\ InPlace(t)' /\ Consented(t)'
  BY <1>5, <1>7 DEF Left, InPlace, Consented, At, Kind, InLoop, Begun
<1> QED
  BY <1>8, <1>10, <1>12, <1>13, OthersStay DEF Keeps, Own

LEMMA CreateKeeps ==
  ASSUME IInv, NEW j \in Jobs, Create(j)
  PROVE  Keeps
<1>1. TypeOK /\ job[j] = None /\ ~Exists(j)
  BY DEF IInv, Create, Exists
<1>2. PICK kind \in Kinds, mode \in Modes : job' = [job EXCEPT ![j] = New(kind, mode)]
  BY BatchAssumption DEF Create
<1>3. New(kind, mode) \in JobRecords /\ New(kind, mode).status = "queued"
  BY DEF New, JobRecords, Statuses
<1>4. job' \in [Jobs -> {None, Gone} \cup JobRecords]
      /\ job'[j] = New(kind, mode) /\ \A k \in Jobs \ {j} : job'[k] = job[k]
  BY <1>1, <1>2, <1>3 DEF TypeOK
<1>5. /\ Elsewhere /\ reg' = reg /\ w' = w /\ allowed' = allowed
      /\ calls' = calls /\ faults' = faults
  BY DEF Create, files, Elsewhere
<1>6. TypeOK'
  BY <1>1, <1>4, <1>5 DEF TypeOK, Elsewhere
<1>7. Status(j)' \notin InHand
  BY <1>3, <1>4, BatchAssumption DEF Status, Exists, InHand, Statuses
<1>8. OnlyJob(j)
  BY <1>4, <1>5 DEF OnlyJob, Elsewhere
<1> QED
  BY <1>1, <1>5, <1>6, <1>7, <1>8, UnmannedKeeps

\* A job whose thread could not be started
LEMMA NotSpawnedKeeps ==
  ASSUME IInv, NEW j \in Jobs, ~Alive(j) \/ ~Exists(j), NotSpawned(j), Elsewhere,
         job' \in [Jobs -> {None, Gone} \cup JobRecords], Status(j)' = "failed",
         \A k \in Jobs \ {j} : job'[k] = job[k],
         allowed' = [allowed EXCEPT ![j] = TRUE],
         calls' \in [Jobs -> Nat], \A k \in Jobs : calls'[k] <= MaxCalls[k]
  PROVE  Keeps
<1>1. TypeOK
  BY DEF IInv
<1>2. /\ edits + faults < MaxMishaps /\ faults' = faults + 1 /\ w' = w
      /\ reg' = [reg EXCEPT ![j] = None]
  BY DEF NotSpawned
<1>3. /\ reg' \in [Jobs -> Threads \cup {None}] /\ \A k \in Jobs \ {j} : reg'[k] = reg[k]
  BY <1>1, <1>2 DEF TypeOK
<1>4. /\ allowed' \in [Jobs -> BOOLEAN] /\ \A k \in Jobs \ {j} : allowed'[k] = allowed[k]
  BY <1>1 DEF TypeOK
<1>5. edits' = edits /\ faults' \in Nat /\ edits + faults' <= MaxMishaps
  BY <1>1, <1>2, OneMishap DEF Elsewhere
<1>6. TypeOK'
  BY <1>1, <1>2, <1>3, <1>4, <1>5 DEF TypeOK, Elsewhere
<1>7. OnlyJob(j)
  BY <1>3, <1>4 DEF OnlyJob, Elsewhere
<1> QED
  BY <1>2, <1>6, <1>7, UnmannedKeeps DEF InHand

LEMMA RouteKeeps ==
  ASSUME IInv, NEW j \in Jobs, Route(j)
  PROVE  Keeps
<1>1. TypeOK /\ ~Exists(j)
  BY DEF IInv, Route, Exists
<1>2. /\ Elsewhere /\ allowed' = [allowed EXCEPT ![j] = TRUE] /\ calls' = calls
      /\ calls' \in [Jobs -> Nat] /\ \A k \in Jobs : calls'[k] <= MaxCalls[k]
  BY <1>1 DEF Route, files, Elsewhere, TypeOK
<1>3. PICK kind \in Kinds, new \in JobRecords :
        /\ new.kind = kind
        /\ job' = [job EXCEPT ![j] = new]
        /\ \/ Spawned(j, kind = "analysis")
           \/ NotSpawned(j) /\ new.status = "failed"
  <2>1. PICK kind \in Kinds :
          \/ Spawned(j, kind = "analysis")
             /\ job' = [job EXCEPT ![j] = New(kind, "automatic")]
          \/ NotSpawned(j)
             /\ job' = [job EXCEPT ![j] = [New(kind, "automatic") EXCEPT !.status = "failed"]]
    BY BatchAssumption DEF Route
  <2>2. /\ New(kind, "automatic") \in JobRecords
        /\ New(kind, "automatic").kind = kind
        /\ [New(kind, "automatic") EXCEPT !.status = "failed"] \in JobRecords
        /\ [New(kind, "automatic") EXCEPT !.status = "failed"].kind = kind
        /\ [New(kind, "automatic") EXCEPT !.status = "failed"].status = "failed"
    BY DEF New, JobRecords, Statuses, Modes
  <2> QED
    BY <2>1, <2>2, Zenon
<1>4. /\ job' \in [Jobs -> {None, Gone} \cup JobRecords] /\ job'[j] = new
      /\ \A k \in Jobs \ {j} : job'[k] = job[k]
  BY <1>1, <1>3 DEF TypeOK
<1>5. CASE Spawned(j, kind = "analysis")
  <2>1. PICK analysis \in BOOLEAN : analysis = (kind = "analysis")
    OBVIOUS
  <2>2. Spawned(j, analysis)
    BY <1>5, <2>1, Zenon
  <2>3. analysis => job'[j].kind = "analysis"
    BY <1>3, <1>4, <2>1
  <2>4. job'[j] \in JobRecords
    BY <1>4
  <2> QED
    BY <1>1, <1>2, <1>4, <2>2, <2>3, <2>4, SpawnedKeeps
<1>6. CASE NotSpawned(j) /\ new.status = "failed"
  <2>1. Status(j)' = "failed"
    BY <1>4, <1>6, BatchAssumption DEF Status, Exists
  <2> QED
    BY <1>1, <1>2, <1>4, <1>6, <2>1, NotSpawnedKeeps
<1> QED
  BY <1>3, <1>5, <1>6

LEMMA StartKeeps ==
  ASSUME IInv, NEW j \in Jobs, Start(j)
  PROVE  Keeps
<1>1. TypeOK /\ Exists(j) /\ ~Alive(j)
  BY DEF IInv, Start
<1>2. /\ Elsewhere /\ allowed' = [allowed EXCEPT ![j] = TRUE]
      /\ calls' \in [Jobs -> Nat] /\ \A k \in Jobs : calls'[k] <= MaxCalls[k]
  <2>1. Elsewhere /\ allowed' = [allowed EXCEPT ![j] = TRUE] /\ Called(j)
    BY DEF Start, files, Elsewhere
  <2> QED
    BY <1>1, <2>1, CalledTyped
<1>3. CASE Spawned(j, FALSE) /\ (job' = job \/ Set(j, "interrupted"))
  <2>1. /\ job' \in [Jobs -> {None, Gone} \cup JobRecords] /\ job'[j] \in JobRecords
        /\ \A k \in Jobs \ {j} : job'[k] = job[k]
    <3>1. CASE job' = job
      BY <1>1, <3>1, JobFields DEF TypeOK
    <3>2. CASE Set(j, "interrupted")
      BY <1>1, <3>2, SetGives DEF Given, Statuses
    <3> QED
      BY <1>3, <3>1, <3>2
  <2> QED
    BY <1>1, <1>2, <1>3, <2>1, SpawnedKeeps
<1>4. CASE NotSpawned(j) /\ Set(j, "failed")
  <2>1. Given(j, "failed")
    BY <1>1, <1>4, SetGives DEF Statuses
  <2>2. Status(j)' = "failed"
    BY <2>1, GivenStatus DEF Statuses
  <2> QED
    BY <1>1, <1>2, <1>4, <2>1, <2>2, NotSpawnedKeeps DEF Given
<1> QED
  BY <1>3, <1>4 DEF Start

LEMMA PauseKeeps ==
  ASSUME IInv, NEW j \in Jobs, Pause(j)
  PROVE  Keeps
<1>1. TypeOK /\ Exists(j) /\ Status(j) = "running" /\ Called(j)
  BY BatchAssumption DEF IInv, Pause, Status, Statuses
<1>2. Given(j, "paused")
  BY <1>1, SetGives DEF Pause, Statuses
<1>3. /\ Elsewhere /\ w' = w /\ reg' = reg /\ allowed' = allowed /\ faults' = faults
  BY DEF Pause, files, Elsewhere
<1>4. TypeOK'
  BY <1>1, <1>2, <1>3, CalledTyped DEF TypeOK, Elsewhere, Given
<1>5. OnlyJob(j)
  BY <1>2, <1>3 DEF OnlyJob, Elsewhere, Given
<1>6. /\ Exists(j)' /\ Status(j)' = "paused"
      /\ job'[j].kind = job[j].kind /\ job'[j].mode = job[j].mode
  BY <1>2, GivenStatus DEF Statuses
<1> QED
  BY <1>1, <1>3, <1>4, <1>5, <1>6, ManagedKeeps DEF InHand, Elsewhere

LEMMA CancelKeeps ==
  ASSUME IInv, NEW j \in Jobs, Cancel(j)
  PROVE  Keeps
<1>1. TypeOK /\ Exists(j) /\ Called(j)
  BY BatchAssumption DEF IInv, Cancel, Status, Statuses
<1>2. Given(j, "cancelled")
  BY <1>1, SetGives DEF Cancel, Statuses
<1>3. /\ Elsewhere /\ w' = w /\ reg' = reg /\ allowed' = allowed /\ faults' = faults
  BY DEF Cancel, files, Elsewhere
<1>4. TypeOK'
  BY <1>1, <1>2, <1>3, CalledTyped DEF TypeOK, Elsewhere, Given
<1>5. OnlyJob(j)
  BY <1>2, <1>3 DEF OnlyJob, Elsewhere, Given
<1>6. /\ Exists(j)' /\ Status(j)' = "cancelled"
      /\ job'[j].kind = job[j].kind /\ job'[j].mode = job[j].mode
  BY <1>2, GivenStatus DEF Statuses
<1> QED
  BY <1>1, <1>3, <1>4, <1>5, <1>6, ManagedKeeps DEF InHand, Elsewhere

LEMMA ResumeKeeps ==
  ASSUME IInv, NEW j \in Jobs, Resume(j)
  PROVE  Keeps
<1>1. TypeOK /\ Exists(j) /\ Status(j) = "paused" /\ Called(j)
  BY BatchAssumption DEF IInv, Resume, Status, Statuses
<1>2. Given(j, "running")
  BY <1>1, SetGives DEF Resume, Statuses
<1>3. /\ Elsewhere /\ w' = w /\ reg' = reg /\ faults' = faults
      /\ allowed' = [allowed EXCEPT ![j] = TRUE]
  BY DEF Resume, files, Elsewhere
<1>4. /\ allowed' \in [Jobs -> BOOLEAN] /\ allowed'[j]
      /\ \A k \in Jobs \ {j} : allowed'[k] = allowed[k]
  BY <1>1, <1>3 DEF TypeOK
<1>5. TypeOK'
  BY <1>1, <1>2, <1>3, <1>4, CalledTyped DEF TypeOK, Elsewhere, Given
<1>6. OnlyJob(j)
  BY <1>2, <1>3, <1>4 DEF OnlyJob, Elsewhere, Given
<1>7. Exists(j)' /\ job'[j].kind = job[j].kind
  BY <1>2, GivenStatus DEF Statuses
<1> QED
  BY <1>1, <1>3, <1>4, <1>5, <1>6, <1>7, ManagedKeeps DEF InHand, Elsewhere

LEMMA AutomaticKeeps ==
  ASSUME IInv, NEW j \in Jobs, Automatic(j)
  PROVE  Keeps
<1>1. TypeOK /\ Exists(j) /\ Status(j) \in {"queued", "paused", "running"} /\ Called(j)
  BY BatchAssumption DEF IInv, Automatic, Status, Statuses
<1>2. PICK status \in {"queued", "running"} :
        /\ job' = [job EXCEPT ![j] = [job[j] EXCEPT !.mode = "automatic", !.status = status]]
        /\ status = "running" => Status(j) \in InHand
  <2>1. Status(j) = job[j].status
    BY <1>1, JobFields
  <2>2. PICK status : status = IF job[j].status = "paused" THEN "running" ELSE job[j].status
    OBVIOUS
  <2>3. status \in {"queued", "running"} /\ (status = "running" => Status(j) \in InHand)
    BY <1>1, <2>1, <2>2 DEF InHand
  <2>4. job' = [job EXCEPT ![j] = [job[j] EXCEPT !.mode = "automatic", !.status = status]]
    BY <2>2 DEF Automatic
  <2> QED
    BY <2>3, <2>4
<1>3. /\ job' \in [Jobs -> {None, Gone} \cup JobRecords] /\ job'[j] \in JobRecords
      /\ \A k \in Jobs \ {j} : job'[k] = job[k]
      /\ job'[j].kind = job[j].kind /\ job'[j].mode = "automatic" /\ job'[j].status = status
  <2>1. job[j] \in JobRecords /\ job \in [Jobs -> {None, Gone} \cup JobRecords]
    BY <1>1, JobFields DEF TypeOK
  <2>2. PICK new : new = [job[j] EXCEPT !.mode = "automatic", !.status = status]
    OBVIOUS
  <2>3. /\ new \in JobRecords /\ new.kind = job[j].kind /\ new.mode = "automatic"
        /\ new.status = status
    BY <2>1, <2>2 DEF JobRecords, Modes, Statuses
  <2>4. job' = [job EXCEPT ![j] = new]
    BY <1>2, <2>2
  <2> QED
    BY <2>1, <2>3, <2>4
<1>4. /\ Elsewhere /\ w' = w /\ reg' = reg /\ allowed' = allowed /\ faults' = faults
  BY DEF Automatic, files, Elsewhere
<1>5. TypeOK'
  BY <1>1, <1>3, <1>4, CalledTyped DEF TypeOK, Elsewhere
<1>6. OnlyJob(j)
  BY <1>3, <1>4 DEF OnlyJob, Elsewhere
<1>7. Exists(j)' /\ Status(j)' = status
  BY <1>3, BatchAssumption DEF Exists, Status
<1>8. Status(j)' \in InHand => Status(j) \in InHand
  BY <1>2, <1>7 DEF InHand
<1> QED
  BY <1>1, <1>3, <1>4, <1>5, <1>6, <1>7, <1>8, ManagedKeeps DEF Elsewhere

LEMMA CleanupKeeps ==
  ASSUME IInv, Cleanup
  PROVE  Keeps
<1>1. TypeOK /\ WorkerInv /\ StoreInv
  BY DEF IInv
<1>2. PICK scope \in Scopes :
        job' = [j \in Jobs |-> IF Removable(j, scope) THEN Gone ELSE job[j]]
  BY DEF Cleanup
<1>3. /\ Elsewhere /\ w' = w /\ reg' = reg /\ allowed' = allowed /\ calls' = calls
      /\ faults' = faults
  BY DEF Cleanup, files, Elsewhere
<1>4. \A j \in Jobs : job'[j] = job[j] \/ (job'[j] = Gone /\ reg[j] = None)
  BY <1>2 DEF Removable
<1>5. TypeOK'
  <2>1. job' \in [Jobs -> {None, Gone} \cup JobRecords]
    BY <1>1, <1>2 DEF TypeOK
  <2> QED
    BY <1>1, <1>3, <2>1 DEF TypeOK, Elsewhere
<1>6. ASSUME NEW t \in Threads
      PROVE  (Kept(t) /\ Left(t) /\ InPlace(t) /\ Consented(t))'
  <2>1. CASE ~Busy(t)
    BY <1>3, <2>1 DEF Kept, Left, InPlace, Consented, At, Busy
  <2>2. CASE Busy(t)
    <3>1. /\ w[t].job \in Jobs /\ reg[w[t].job] = t
          /\ Kept(t) /\ Left(t) /\ InPlace(t) /\ Consented(t)
      BY <1>6, <2>2, AtWork
    <3>2. job'[w[t].job] = job[w[t].job]
      BY <1>4, <1>6, <3>1, BatchAssumption
    <3> QED
      BY <1>3, <2>2, <3>1, <3>2
         DEF Kept, Left, InPlace, Consented, At, Busy, Kind, Status, Exists, Elsewhere
  <2> QED
    BY <2>1, <2>2
<1>7. ASSUME NEW j \in Jobs
      PROVE  Shown(j)'
  <2>1. CASE job'[j] = job[j]
    BY <1>1, <1>3, <1>7, <2>1 DEF StoreInv, Shown, Status, Exists, Alive, Busy
  <2>2. CASE job'[j] = Gone
    BY <2>2, BatchAssumption DEF Shown, Status, Exists, InHand, Statuses
  <2> QED
    BY <1>4, <1>7, <2>1, <2>2
<1> QED
  BY <1>5, <1>6, <1>7 DEF Keeps, WorkerInv, StoreInv

\* Nothing but what no part of the invariant but TypeOK speaks of changes
LEMMA SameKeeps ==
  ASSUME IInv, TypeOK', job' = job, cp' = cp, reg' = reg, w' = w, allowed' = allowed,
         faults' = faults
  PROVE  Keeps
<1>1. WorkerInv /\ StoreInv
  BY DEF IInv
<1>2. WorkerInv'
  BY <1>1 DEF WorkerInv, Kept, Left, InPlace, Consented, At, Busy, Kind, Status, Exists
<1>3. StoreInv'
  BY <1>1 DEF StoreInv, Shown, Status, Exists, Alive, Busy
<1> QED
  BY <1>2, <1>3 DEF Keeps

LEMMA EditKeeps ==
  ASSUME IInv, NEW f \in Files, Edit(f)
  PROVE  Keeps
<1>1. TypeOK /\ edits + faults < MaxMishaps /\ edits' = edits + 1 /\ faults' = faults
  BY DEF IInv, Edit
<1>2. edits' \in Nat /\ edits' + faults' <= MaxMishaps
  BY <1>1, OneMishap
<1>3. input' \in [Files -> Versions]
  BY <1>1 DEF Edit, TypeOK
<1>4. TypeOK'
  BY <1>1, <1>2, <1>3 DEF Edit, TypeOK
<1> QED
  BY <1>4, SameKeeps DEF Edit

LEMMA RestartKeeps ==
  ASSUME IInv, Restart
  PROVE  Keeps
<1>1. TypeOK
  BY DEF IInv
<1>2. /\ w' = [t \in Threads |-> Idle] /\ reg' = [j \in Jobs |-> None]
      /\ faults' = faults + 1 /\ edits' = edits
      /\ job' = job /\ cp' = cp /\ ft' = ft /\ input' = input /\ clash' = clash
      /\ allowed' = allowed /\ calls' = calls
  BY DEF Restart
<1>3. faults' \in Nat /\ edits' + faults' <= MaxMishaps /\ faults' > 0
  BY <1>1, <1>2, OneMishap DEF Restart
<1>4. tmp' \in [Files -> Outputs \cup {None}] /\ out' \in [Files -> Outputs \cup {None}]
  BY <1>1, ClosedTyped DEF Restart, TypeOK
<1>5. TypeOK'
  BY <1>1, <1>2, <1>3, <1>4 DEF TypeOK
<1>6. WorkerInv'
  BY <1>2 DEF WorkerInv, Kept, Left, InPlace, Consented, At, Busy
<1>7. StoreInv'
  BY <1>3 DEF StoreInv, Shown
<1> QED
  BY <1>5, <1>6, <1>7 DEF Keeps

-----------------------------------------------------------------------------
(* The inductive invariant *)

LEMMA InitHolds == Init => IInv
<1>1. SUFFICES ASSUME Init PROVE TypeOK /\ WorkerInv /\ StoreInv
  BY DEF IInv
<1>2. TypeOK
  BY <1>1, BatchAssumption DEF Init, TypeOK
<1>3. WorkerInv
  BY <1>1 DEF Init, WorkerInv, Kept, Left, InPlace, Consented, At, Busy
<1>4. StoreInv
  BY <1>1, BatchAssumption DEF Init, StoreInv, Shown, Status, Exists, InHand, Statuses
<1> QED
  BY <1>2, <1>3, <1>4

LEMMA StepKeeps ==
  ASSUME IInv, NEW t \in Threads, Step(t)
  PROVE  Keeps
<1>1. Busy(t)
  BY DEF Step, Begin, BeginUnsaved, Prepare, Reuse, Poll, Work, Progress, Assemble,
         Answer, Write, WriteFails, Replace, Unlink, Complete, Raise, Fail, Close, At
<1>2. w[t].job \in Jobs
  BY <1>1, AtWork
<1>3. PICK j \in Jobs : w[t].job = j
  BY <1>2
<1> QED
  BY <1>3, BeginKeeps, BeginUnsavedKeeps, PrepareKeeps, ReuseKeeps, PollKeeps, WorkKeeps,
     ProgressKeeps, AssembleKeeps, AnswerKeeps, WriteKeeps, WriteFailsKeeps, ReplaceKeeps,
     UnlinkKeeps, CompleteKeeps, RaiseKeeps, FailKeeps, CloseKeeps, Zenon DEF Step

LEMMA NextKeeps == IInv /\ [Next]_vars => IInv'
<1>1. SUFFICES ASSUME IInv, [Next]_vars PROVE Keeps
  BY DEF IInv, Keeps
<1>2. CASE \E j \in Jobs : Call(j)
  BY <1>1, <1>2, CreateKeeps, RouteKeeps, StartKeeps, PauseKeeps, ResumeKeeps,
     AutomaticKeeps, CancelKeeps, Zenon DEF Call
<1>3. CASE \E t \in Threads : Step(t)
  BY <1>1, <1>3, StepKeeps, Zenon
<1>4. CASE \E f \in Files : Edit(f)
  BY <1>1, <1>4, EditKeeps, Zenon
<1>5. CASE Cleanup
  BY <1>1, <1>5, CleanupKeeps
<1>6. CASE Restart
  BY <1>1, <1>6, RestartKeeps
<1>7. CASE UNCHANGED vars
  <2>1. TypeOK'
    BY <1>1, <1>7 DEF IInv, TypeOK, vars
  <2> QED
    BY <1>1, <1>7, <2>1, SameKeeps DEF vars
<1> QED
  BY <1>1, <1>2, <1>3, <1>4, <1>5, <1>6, <1>7, Zenon DEF Next

LEMMA Always == Spec => []IInv
  BY InitHolds, NextKeeps, PTL DEF Spec

-----------------------------------------------------------------------------
(* The checkpoints and what is made of them.  FilesInv is inductive beside   *)
(* IInv: the checkpoints of a job are contiguous and each of some plan, what *)
(* a run has taken over or gathered is of its own plan unless it began       *)
(* stale, and a job that is completed has an output.                         *)

\* The number of chunks that the run of thread t has passed
Passed(t) == IF w[t].pc = "progress" THEN w[t].idx ELSE w[t].idx - 1

\* Checkpoints come with the job, one after the other, each of some plan.
Checkpointed(j) ==
  /\ job[j] = None => \A i \in 1..MaxChunks : cp[j][i] = None
  /\ Exists(j) /\ job[j].kind = "chunks" =>
       \A i \in 1..MaxChunks : cp[j][i] # None =>
         /\ \A n \in 1..i : cp[j][n] # None
         /\ \E v \in Versions :
              i <= Len(Splits["chunks"][v]) /\ cp[j][i] = Piece("chunks", v, i)

\* What the worker of a chunked transform took over and has written itself.
Resumed(t) ==
  Busy(t) /\ Kind(t) = "chunks" =>
    /\ w[t].pc = "prepare" =>
         w[t].prev = job[w[t].job].plan /\ w[t].stale = Stale(w[t].job)
    /\ w[t].pc \in InLoop \cup {"assemble"} /\ ~w[t].stale =>
         \A i \in 1..MaxChunks : i <= Passed(t) /\ i <= Len(Splits["chunks"][w[t].plan]) =>
           cp[w[t].job][i] = Piece("chunks", w[t].plan, i)
    /\ w[t].pc \in InLoop /\ w[t].prev = w[t].plan =>
         \A i \in 1..MaxChunks : i > Passed(t) => cp[w[t].job][i] = None

\* The text of a free-text transform is what its batches so far have given.
Gathered(t) ==
  Busy(t) /\ Kind(t) = "freetext" =>
    /\ w[t].pc \in {"begin", "prepare"} => w[t].text = <<>>
    /\ w[t].pc \in InLoop \cup {"assemble"} =>
         /\ Len(w[t].text) = Passed(t)
         /\ \A i \in 1..MaxChunks :
              i <= Passed(t) => w[t].text[i] = Piece("freetext", w[t].plan, i)
    /\ w[t].pc = "assemble" => Passed(t) = Len(Splits["freetext"][w[t].plan])

\* A worker that has replaced the output, or the job it completed, has one.
Delivered(t) ==
  Busy(t) /\ ~w[t].analysis /\ w[t].pc \in {"unlink", "complete"} =>
    out[FileOf[w[t].job]] # None
Finished(j) ==
  Status(j) = "completed" /\ job[j].kind \in Transforms => out[FileOf[j]] # None

FilesInv ==
  /\ \A j \in Jobs : Checkpointed(j) /\ Finished(j)
  /\ \A t \in Threads : Resumed(t) /\ Gathered(t) /\ Delivered(t)

-----------------------------------------------------------------------------
(* The checkpoints: what a step of one thread leaves alone                   *)

\* An output that is there stays there, whatever is written into it
OutputsStand == \A f \in Files : out[f] # None => out'[f] # None

\* The parts of FilesInv that speak of a thread and of its job
Run(t) == Resumed(t) /\ Gathered(t) /\ Delivered(t)
Filed(j) == Checkpointed(j) /\ Finished(j)

LEMMA OtherRunsStay ==
  ASSUME IInv, FilesInv, NEW T \in SUBSET Threads, NEW j \in Jobs, StepOf(T, j),
         OutputsStand
  PROVE  /\ \A u \in Threads \ T : Run(u)'
         /\ \A k \in Jobs \ {j} : Filed(k)'
<1>1. ASSUME NEW u \in Threads \ T
      PROVE  Run(u)'
  <2>1. w'[u] = w[u] /\ Run(u)
    BY <1>1 DEF StepOf, FilesInv, Run
  <2>2. CASE ~Busy(u)
    BY <2>1, <2>2 DEF Run, Resumed, Gathered, Delivered, Busy
  <2>3. CASE Busy(u)
    <3>1. PICK k \in Jobs \ {j} : k = w[u].job
      BY <1>1, <2>3, AtWork DEF StepOf
    <3>2. job'[k] = job[k] /\ cp'[k] = cp[k] /\ FileOf[k] \in Files
      BY BatchAssumption DEF StepOf, OnlyJob
    <3>3. Busy(u)' /\ Kind(u)' = Kind(u) /\ Passed(u)' = Passed(u) /\ Stale(k)' = Stale(k)
      BY <2>1, <2>3, <3>1, <3>2 DEF Busy, Kind, Passed, Stale
    <3>4. Resumed(u)'
      BY <2>1, <2>3, <3>1, <3>2, <3>3 DEF Run, Resumed
    <3>5. Gathered(u)'
      BY <2>1, <2>3, <3>3 DEF Run, Gathered
    <3>6. Delivered(u)'
      BY <2>1, <2>3, <3>1, <3>2 DEF Run, Delivered, OutputsStand
    <3> QED
      BY <3>4, <3>5, <3>6 DEF Run
  <2> QED
    BY <2>2, <2>3
<1>2. ASSUME NEW k \in Jobs \ {j}
      PROVE  Filed(k)'
  <2>1. job'[k] = job[k] /\ cp'[k] = cp[k] /\ FileOf[k] \in Files /\ Filed(k)
    BY BatchAssumption DEF StepOf, OnlyJob, FilesInv, Filed
  <2> QED
    BY <2>1 DEF Filed, Checkpointed, Finished, Exists, Status, OutputsStand
<1> QED
  BY <1>1, <1>2

\* A step of thread t on its job, for which FilesInv has been shown
LEMMA FilesStay ==
  ASSUME IInv, FilesInv, NEW t \in Threads, NEW j \in Jobs, StepOf({t}, j),
         Run(t)', Filed(j)', OutputsStand
  PROVE  FilesInv'
<1>1. /\ \A u \in Threads \ {t} : Run(u)'
      /\ \A k \in Jobs \ {j} : Filed(k)'
  BY OtherRunsStay
<1> QED
  BY <1>1 DEF FilesInv, Run, Filed

\* A step of a worker touches its own job and no other.
LEMMA StepTouches ==
  ASSUME IInv, NEW t \in Threads, NEW j \in Jobs, w[t].job = j, Step(t)
  PROVE  StepOf({t}, j) /\ Exists(j)' /\ job'[j].kind = job[j].kind
<1>1. Busy(t)
  BY DEF Step, Begin, BeginUnsaved, Prepare, Reuse, Poll, Work, Progress, Assemble, Answer, Write,
         WriteFails, Replace,
         Unlink, Complete, Raise, Fail, Close, At
<1>2. /\ TypeOK /\ Exists(j) /\ job[j] \in JobRecords
      /\ \A u \in Threads \ {t} : Busy(u) => w[u].job # j
  BY <1>1, AtWork, JobFields
<1>3. w \in [Threads -> {Idle} \cup Workers] /\ cp \in [Jobs -> [1..MaxChunks -> Texts \cup {None}]]
      /\ reg \in [Jobs -> Threads \cup {None}] /\ allowed \in [Jobs -> BOOLEAN]
      /\ job \in [Jobs -> {None, Gone} \cup JobRecords] /\ faults \in Nat
  BY <1>2, BatchAssumption DEF TypeOK
<1>4. \E r : w' = [w EXCEPT ![t] = r]
  BY DEF Step, Begin, BeginUnsaved, Prepare, Reuse, Poll, Work, Progress, Assemble, Answer, Write,
         WriteFails, Replace,
         Unlink, Complete, Raise, Fail, Close, GoTo
<1>5. cp' = cp \/ \E r : cp' = [cp EXCEPT ![j] = r]
  BY DEF Step, Begin, BeginUnsaved, Prepare, Reuse, Poll, Work, Progress, Assemble, Answer, Write,
         WriteFails, Replace,
         Unlink, Complete, Raise, Fail, Close, files
<1>6. reg' = reg \/ reg' = [reg EXCEPT ![j] = None]
  BY DEF Step, Begin, BeginUnsaved, Prepare, Reuse, Poll, Work, Progress, Assemble, Answer, Write,
         WriteFails, Replace,
         Unlink, Complete, Raise, Fail, Close
<1>7. allowed' = allowed \/ allowed' = [allowed EXCEPT ![j] = FALSE]
  BY DEF Step, Begin, BeginUnsaved, Prepare, Reuse, Poll, Work, Progress, Assemble, Answer, Write,
         WriteFails, Replace,
         Unlink, Complete, Raise, Fail, Close
<1>8. faults' = faults \/ faults' = faults + 1
  BY DEF Step, Begin, BeginUnsaved, Prepare, Reuse, Poll, Work, Progress, Assemble, Answer, Write,
         WriteFails, Replace,
         Unlink, Complete, Raise, Fail, Close
<1>9. \E r : job' = [job EXCEPT ![j] = r] /\ r \notin {None, Gone} /\ r.kind = job[j].kind
  <2>1. CASE job' = job
    <3>1. job' = [job EXCEPT ![j] = job[j]]
      BY <1>3, <2>1
    <3> QED
      BY <1>2, <3>1 DEF Exists
  <2>2. CASE \E s \in Statuses : Set(j, s)
    <3>1. PICK s \in Statuses : Set(j, s)
      BY <2>2
    <3>2. Given(j, s)
      BY <1>2, <3>1, SetGives
    <3>3. job' = [job EXCEPT ![j] = job'[j]]
      BY <1>3, <3>1 DEF Set
    <3> QED
      BY <3>2, <3>3, BatchAssumption DEF Given
  <2>3. CASE Prepare(t) /\ job' # job
    <3>1. PICK v \in Versions : job' = [job EXCEPT ![j] = [job[j] EXCEPT !.plan = v]]
      BY <1>2, <2>3, BatchAssumption DEF Prepare, TypeOK
    <3>2. PICK r : r = [job[j] EXCEPT !.plan = v]
      OBVIOUS
    <3>3. r \in JobRecords /\ r.kind = job[j].kind
      BY <1>2, <3>2 DEF JobRecords
    <3> QED
      BY <3>1, <3>2, <3>3, BatchAssumption
  <2>4. job' # job => Prepare(t) \/ \E s \in Statuses : Set(j, s)
    BY DEF Step, Begin, BeginUnsaved, Reuse, Poll, Work, Progress, Assemble, Answer, Write,
           WriteFails, Replace,
         Unlink, Complete, Raise, Fail, Close, Statuses, files
  <2> QED
    BY <2>1, <2>2, <2>3, <2>4
<1>10. /\ \A u \in Threads \ {t} : w'[u] = w[u]
       /\ \A k \in Jobs \ {j} : /\ job'[k] = job[k] /\ cp'[k] = cp[k]
                                /\ reg'[k] = reg[k] /\ allowed'[k] = allowed[k]
  BY <1>3, <1>4, <1>5, <1>6, <1>7, <1>9
<1>11. StepOf({t}, j)
  BY <1>1, <1>2, <1>3, <1>8, <1>10 DEF StepOf, OnlyJob
<1> QED
  BY <1>3, <1>9, <1>11 DEF Exists

\* A text made of all chunks of one version is whole.
LEMMA PiecesWhole ==
  ASSUME NEW kind \in Kinds, NEW v \in Versions, NEW text \in Seq(Texts),
         Len(text) = Len(Splits[kind][v]),
         \A i \in 1..Len(text) : text[i] = Piece(kind, v, i)
  PROVE  Whole(text)
<1>1. PICK s \in Seq(Nat \X Nat) : s = Splits[kind][v]
  BY SplitsTyped
<1>2. PICK n \in Nat : n = Len(s)
  BY <1>1
<1>3. Tiles(s, 1, Size[v])
  BY <1>1, SplitsTile
<1>4. \A i \in 1..n : text[i][1] = v /\ text[i][2] = s[i][1] /\ text[i][3] = s[i][2]
  BY <1>1, <1>2 DEF Piece
<1>5. ASSUME NEW i \in 1..n
      PROVE  /\ text[i][1] = v
             /\ text[i][2] = IF i = 1 THEN 1 ELSE text[i - 1][3] + 1
             /\ text[i][2] <= text[i][3]
  <2>1. s[i][1] = (IF i = 1 THEN 1 ELSE s[i - 1][2] + 1) /\ s[i][1] <= s[i][2]
    BY <1>2, <1>3, <1>5 DEF Tiles
  <2>2. i # 1 => i - 1 \in 1..n
    BY <1>5
  <2> QED
    BY <1>4, <2>1, <2>2
<1>6. Size[v] = IF text = <<>> THEN 0 ELSE text[n][3]
  <2>1. CASE n = 0
    <3>1. text = <<>>
      BY <1>1, <1>2, <2>1
    <3> QED
      BY <1>2, <1>3, <2>1, <3>1 DEF Tiles
  <2>2. CASE n # 0
    <3>1. text # <<>> /\ n \in 1..n
      BY <1>1, <1>2, <2>2
    <3> QED
      BY <1>2, <1>3, <1>4, <2>2, <3>1 DEF Tiles
  <2> QED
    BY <2>1, <2>2
<1> QED
  BY <1>1, <1>2, <1>5, <1>6 DEF Whole

LEMMA CheckpointsStay ==
  ASSUME FilesInv, NEW j \in Jobs, Exists(j), Exists(j)', job'[j].kind = job[j].kind,
         cp'[j] = cp[j]
  PROVE  Checkpointed(j)'
<1>1. Checkpointed(j)
  BY DEF FilesInv
<1> QED
  BY <1>1 DEF Checkpointed, Exists

LEMMA FinishStays ==
  ASSUME FilesInv, NEW j \in Jobs, job'[j].kind = job[j].kind,
         Status(j)' = "completed" => Status(j) = "completed",
         out[FileOf[j]] # None => out'[FileOf[j]] # None
  PROVE  Finished(j)'
<1>1. Finished(j)
  BY DEF FilesInv
<1> QED
  BY <1>1 DEF Finished

\* The fields of a worker that goes on at another place
LEMMA WentOn ==
  ASSUME TypeOK, NEW t \in Threads, Busy(t), NEW pc \in Places, GoTo(t, pc)
  PROVE  /\ Busy(t)' /\ w'[t].pc = pc /\ w'[t].job = w[t].job
         /\ w'[t].analysis = w[t].analysis /\ w'[t].prev = w[t].prev
         /\ w'[t].plan = w[t].plan /\ w'[t].idx = w[t].idx
         /\ w'[t].text = w[t].text /\ w'[t].stale = w[t].stale
<1>1. w \in [Threads -> {Idle} \cup Workers] /\ w[t] \in Workers
  BY WorkerFields DEF TypeOK
<1>2. PICK r : r = [w[t] EXCEPT !.pc = pc]
  OBVIOUS
<1>3. w' = [w EXCEPT ![t] = r]
  BY <1>2 DEF GoTo
<1>4. w'[t] = r
  BY <1>1, <1>3
<1>5. r \in Workers /\ r.pc = pc /\ r.job = w[t].job
      /\ r.analysis = w[t].analysis /\ r.prev = w[t].prev
      /\ r.plan = w[t].plan /\ r.idx = w[t].idx
      /\ r.text = w[t].text /\ r.stale = w[t].stale
  BY <1>1, <1>2 DEF Workers
<1>6. Busy(t)'
  BY <1>4, <1>5 DEF Busy, Idle, Workers, Places
<1> QED
  BY <1>4, <1>5, <1>6

\* Where the run of a thread promises nothing
Silent == {"write", "replace", "drop", "fail", "close"}

LEMMA SilentRun ==
  ASSUME NEW t \in Threads, ~Busy(t)' \/ w'[t].pc \in Silent
  PROVE  Run(t)'
  BY DEF Silent, Run, Resumed, Gathered, Delivered, InLoop

\* A step that ends in a silent place, finishes no job and removes no output
LEMMA SilentStep ==
  ASSUME IInv, FilesInv, NEW t \in Threads, NEW j \in Jobs, w[t].job = j, Busy(t), Step(t),
         ~Busy(t)' \/ w'[t].pc \in Silent, cp' = cp, OutputsStand,
         Status(j)' = "completed" => Status(j) = "completed"
  PROVE  FilesInv'
<1>1. StepOf({t}, j) /\ Exists(j)' /\ Exists(j) /\ job'[j].kind = job[j].kind
  BY StepTouches, AtWork
<1>2. Run(t)'
  BY SilentRun
<1>3. Filed(j)'
  BY <1>1, CheckpointsStay, FinishStays, BatchAssumption DEF Filed, OutputsStand
<1> QED
  BY <1>1, <1>2, <1>3, FilesStay

LEMMA RaiseFiles ==
  ASSUME IInv, FilesInv, NEW t \in Threads, NEW j \in Jobs, w[t].job = j, Raise(t), Step(t)
  PROVE  FilesInv'
<1>1. Busy(t) /\ GoTo(t, "fail") /\ job' = job /\ cp' = cp /\ OutputsStand
  BY DEF Raise, files, OutputsStand
<1>2. w'[t].pc \in Silent
  BY <1>1, WentOn, AtWork DEF Silent, Places
<1>3. Status(j)' = Status(j)
  BY <1>1 DEF Status, Exists
<1> QED
  BY <1>1, <1>2, <1>3, SilentStep

LEMMA FailFiles ==
  ASSUME IInv, FilesInv, NEW t \in Threads, NEW j \in Jobs, w[t].job = j, Fail(t), Step(t)
  PROVE  FilesInv'
<1>1. Busy(t) /\ GoTo(t, "close") /\ cp' = cp /\ OutputsStand
      /\ (job' = job \/ Set(j, "failed"))
  BY DEF Fail, At, files, OutputsStand
<1>2. w'[t].pc \in Silent
  BY <1>1, WentOn, AtWork DEF Silent, Places
<1>3. Status(j)' = "completed" => Status(j) = "completed"
  <2>1. CASE job' = job
    BY <2>1 DEF Status, Exists
  <2>2. CASE Set(j, "failed")
    BY <1>1, <2>2, AtWork, SetGives, GivenStatus DEF Statuses
  <2> QED
    BY <1>1, <2>1, <2>2
<1> QED
  BY <1>1, <1>2, <1>3, SilentStep

LEMMA CloseFiles ==
  ASSUME IInv, FilesInv, NEW t \in Threads, NEW j \in Jobs, w[t].job = j, Close(t), Step(t)
  PROVE  FilesInv'
<1>1. Busy(t) /\ w' = [w EXCEPT ![t] = Idle] /\ job' = job /\ cp' = cp /\ OutputsStand
  BY DEF Close, At, files, OutputsStand
<1>2. ~Busy(t)'
  BY <1>1, AtWork DEF TypeOK, Busy
<1>3. Status(j)' = Status(j)
  BY <1>1 DEF Status, Exists
<1> QED
  BY <1>1, <1>2, <1>3, SilentStep

\* A step after which the job is as finished as it was
LEMMA RunStep ==
  ASSUME IInv, FilesInv, NEW t \in Threads, NEW j \in Jobs, w[t].job = j, Busy(t), Step(t),
         Run(t)', Checkpointed(j)', OutputsStand,
         Status(j)' = "completed" => Status(j) = "completed"
  PROVE  FilesInv'
<1>1. StepOf({t}, j) /\ Exists(j)' /\ job'[j].kind = job[j].kind
  BY StepTouches
<1>2. Filed(j)'
  BY <1>1, FinishStays, BatchAssumption DEF Filed, OutputsStand
<1> QED
  BY <1>1, <1>2, FilesStay

LEMMA PollFiles ==
  ASSUME IInv, FilesInv, NEW t \in Threads, NEW j \in Jobs, w[t].job = j, Poll(t), Step(t)
  PROVE  FilesInv'
<1>1. Busy(t) /\ w[t].pc = "poll" /\ job' = job /\ cp' = cp /\ OutputsStand
  BY DEF Poll, At, files, OutputsStand
<1>2. PICK pc \in {"close", "work"} : GoTo(t, pc)
  BY DEF Poll
<1>3. TypeOK /\ Exists(j) /\ Run(t)
  BY <1>1, AtWork DEF FilesInv, Run
<1>4. /\ Busy(t)' /\ w'[t].pc = pc /\ w'[t].job = j
      /\ w'[t].analysis = w[t].analysis /\ w'[t].prev = w[t].prev
      /\ w'[t].plan = w[t].plan /\ w'[t].idx = w[t].idx
      /\ w'[t].text = w[t].text /\ w'[t].stale = w[t].stale
  BY <1>1, <1>2, <1>3, WentOn DEF Places
<1>5. Kind(t)' = Kind(t) /\ Status(j)' = Status(j) /\ Exists(j)'
  BY <1>1, <1>3, <1>4 DEF Kind, Status, Exists
<1>6. Checkpointed(j)'
  BY <1>1, <1>3, <1>5, CheckpointsStay
<1>7. Run(t)'
  <2>1. CASE pc = "close"
    BY <1>4, <2>1, SilentRun DEF Silent
  <2>2. CASE pc = "work"
    <3>1. Passed(t)' = Passed(t)
      BY <1>1, <1>4, <2>2 DEF Passed
    <3>2. Resumed(t)'
      BY <1>1, <1>3, <1>4, <1>5, <2>2, <3>1 DEF Run, Resumed, InLoop
    <3>3. Gathered(t)'
      BY <1>1, <1>3, <1>4, <1>5, <2>2, <3>1 DEF Run, Gathered, InLoop
    <3>4. Delivered(t)'
      BY <1>4, <2>2 DEF Delivered
    <3> QED
      BY <3>2, <3>3, <3>4 DEF Run
  <2> QED
    BY <1>2, <2>1, <2>2
<1> QED
  BY <1>1, <1>5, <1>6, <1>7, RunStep

LEMMA BeginFiles ==
  ASSUME IInv, FilesInv, NEW t \in Threads, NEW j \in Jobs, w[t].job = j, Begin(t), Step(t)
  PROVE  FilesInv'
<1>1. Busy(t) /\ w[t].pc = "begin" /\ Set(j, "running") /\ cp' = cp /\ OutputsStand
  BY DEF Begin, At, files, OutputsStand
<1>2. TypeOK /\ Exists(j) /\ Run(t) /\ w[t] \in Workers
  BY <1>1, AtWork DEF FilesInv, Run
<1>3. job[j] \in JobRecords /\ job \in [Jobs -> {None, Gone} \cup JobRecords]
  BY <1>2, JobFields DEF TypeOK
<1>4. /\ job'[j].kind = job[j].kind /\ job'[j].plan = job[j].plan
      /\ Exists(j)' /\ Status(j)' = "running"
  <2>1. Given(j, "running")
    BY <1>1, <1>2, SetGives DEF Statuses
  <2>2. Exists(j)' /\ Status(j)' = "running" /\ job'[j].kind = job[j].kind
    BY <2>1, GivenStatus DEF Statuses
  <2>3. job'[j].plan = job[j].plan
    <3>1. job' = [job EXCEPT ![j] = [job[j] EXCEPT !.status = "running"]]
      BY <1>1 DEF Set
    <3> QED
      BY <1>3, <3>1 DEF JobRecords
  <2> QED
    BY <2>2, <2>3
<1>5. /\ Busy(t)' /\ w'[t].pc = "prepare" /\ w'[t].job = j
      /\ w'[t].prev = job[j].plan /\ w'[t].stale = Stale(j) /\ w'[t].text = w[t].text
  <2>1. PICK stale \in BOOLEAN : stale = Stale(j)
    BY DEF Stale
  <2>2. PICK r : r = [w[t] EXCEPT !.pc = "prepare", !.prev = job[j].plan, !.stale = stale]
    OBVIOUS
  <2>3. w' = [w EXCEPT ![t] = r]
    BY <2>1, <2>2 DEF Begin
  <2>4. w'[t] = r
    BY <1>2, <2>3 DEF TypeOK
  <2>5. /\ r.pc = "prepare" /\ r.job = j /\ r.prev = job[j].plan /\ r.stale = stale
        /\ r.text = w[t].text /\ r # Idle
    BY <1>2, <2>2 DEF Workers, Idle
  <2> QED
    BY <2>1, <2>4, <2>5 DEF Busy
<1>6. Stale(j)' = Stale(j) /\ Kind(t)' = Kind(t)
  BY <1>1, <1>4, <1>5 DEF Stale, Kind
<1>7. Run(t)'
  BY <1>1, <1>2, <1>4, <1>5, <1>6 DEF Run, Resumed, Gathered, Delivered, InLoop
<1>8. Checkpointed(j)'
  BY <1>1, <1>2, <1>4, CheckpointsStay
<1> QED
  BY <1>1, <1>4, <1>7, <1>8, RunStep

LEMMA BeginUnsavedFiles ==
  ASSUME IInv, FilesInv, NEW t \in Threads, NEW j \in Jobs, w[t].job = j, BeginUnsaved(t), Step(t)
  PROVE  FilesInv'
<1>1. /\ Busy(t) /\ job' = job /\ cp' = cp /\ OutputsStand
      /\ GoTo(t, "fail") \/ w' = [w EXCEPT ![t] = Idle]
  BY DEF BeginUnsaved, At, files, OutputsStand
<1>2. ~Busy(t)' \/ w'[t].pc \in Silent
  <2>1. CASE GoTo(t, "fail")
    BY <1>1, <2>1, WentOn, AtWork DEF Silent, Places
  <2>2. CASE w' = [w EXCEPT ![t] = Idle]
    BY <1>1, <2>2, AtWork DEF TypeOK, Busy
  <2> QED
    BY <1>1, <2>1, <2>2
<1>3. Status(j)' = Status(j)
  BY <1>1 DEF Status, Exists
<1> QED
  BY <1>1, <1>2, <1>3, SilentStep

\* The checkpoints that a run takes over are of its plan or the run is stale,
\* and it takes over all there are.
LEMMA TakenOver ==
  ASSUME IInv, FilesInv, NEW t \in Threads, NEW j \in Jobs, w[t].job = j, Busy(t),
         w[t].pc = "prepare", Kind(t) = "chunks", NEW v \in Versions
  PROVE  /\ Reusable(t, v) \in 0..MaxChunks
         /\ ~w[t].stale => \A i \in 1..MaxChunks :
              i <= Reusable(t, v) /\ i <= Len(Splits["chunks"][v]) =>
                cp[j][i] = Piece("chunks", v, i)
         /\ w[t].prev = v => \A i \in 1..MaxChunks : i > Reusable(t, v) => cp[j][i] = None
<1>1. TypeOK /\ Exists(j) /\ job[j].kind = "chunks"
  BY AtWork DEF Kind
<1>2. Resumed(t) /\ Checkpointed(j)
  BY DEF FilesInv
<1>3. PICK k \in 0..MaxChunks :
        /\ k = Contiguous(j)
        /\ \A i \in 1..k : cp[j][i] # None
        /\ k < MaxChunks => cp[j][k + 1] = None
  BY <1>1, ContiguousHolds DEF TypeOK
<1>4. CASE w[t].prev # v
  <2>1. Reusable(t, v) = 0
    BY <1>4 DEF Reusable
  <2> QED
    BY <1>4, <2>1, BatchAssumption
<1>5. CASE w[t].prev = v
  <2>1. Reusable(t, v) = k
    BY <1>3, <1>5 DEF Reusable
  <2>2. job[j].plan = v /\ w[t].stale = Stale(j)
    BY <1>2, <1>5 DEF Resumed
  <2>3. ASSUME ~w[t].stale, NEW i \in 1..MaxChunks, i <= k, i <= Len(Splits["chunks"][v])
        PROVE  cp[j][i] = Piece("chunks", v, i)
    <3>1. i \in 1..k /\ cp[j][i] # None
      BY <1>3, <2>3
    <3>2. PICK u \in Versions :
            i <= Len(Splits["chunks"][u]) /\ cp[j][i] = Piece("chunks", u, i)
      BY <1>1, <1>2, <2>3, <3>1 DEF Checkpointed
    <3>3. cp[j][i][1] = u
      BY <3>2 DEF Piece
    <3>4. v # 0 /\ Len(Splits["chunks"][v]) \in Nat
      BY BatchAssumption, SplitsTyped DEF Kinds
    <3>5. cp[j][i][1] = v
      BY <1>1, <2>2, <2>3, <3>1, <3>4 DEF Stale
    <3> QED
      BY <3>2, <3>3, <3>5
  <2>4. ASSUME NEW i \in 1..MaxChunks, i > k
        PROVE  cp[j][i] = None
    <3>1. k < MaxChunks /\ k + 1 \in 1..i /\ cp[j][k + 1] = None
      BY <1>3, <2>4, BatchAssumption
    <3> QED
      BY <1>1, <1>2, <2>4, <3>1 DEF Checkpointed
  <2> QED
    BY <2>1, <2>3, <2>4
<1> QED
  BY <1>4, <1>5

LEMMA PrepareFiles ==
  ASSUME IInv, FilesInv, NEW t \in Threads, NEW j \in Jobs, w[t].job = j, Prepare(t), Step(t)
  PROVE  FilesInv'
<1>1. /\ Busy(t) /\ w[t].pc = "prepare" /\ cp' = cp /\ OutputsStand
      /\ w[t].analysis \/ Kind(t) \in Transforms
  BY DEF Prepare, At, files, OutputsStand
<1>2. TypeOK /\ Exists(j) /\ Run(t) /\ w[t] \in Workers /\ InPlace(t)
  BY <1>1, AtWork DEF FilesInv, Run
<1>3. PICK v \in Versions : v = input[FileOf[j]]
  BY <1>2, BatchAssumption DEF TypeOK
<1>4. PICK first : first = IF Kind(t) = "chunks" THEN Reusable(t, v) + 1 ELSE 1
  OBVIOUS
<1>5. first - 1 = (IF Kind(t) = "chunks" THEN Reusable(t, v) ELSE 0) /\ first \in Nat
  <2>1. CASE Kind(t) = "chunks"
    <3>1. PICK k \in 0..MaxChunks : k = Reusable(t, v)
      BY <1>1, <2>1, TakenOver
    <3> QED
      BY <1>4, <2>1, <3>1, BatchAssumption
  <2>2. CASE Kind(t) # "chunks"
    BY <1>4, <2>2
  <2> QED
    BY <2>1, <2>2
<1>6. PICK pc \in {"poll", "assemble"} : pc = Turn(Kind(t), v, first)
  BY TurnPlaces
<1>7. pc = "assemble" => ~ (first <= Len(Splits[Kind(t)][v]))
  BY <1>6 DEF Turn
<1>8. ASSUME w' = [w EXCEPT ![t] = [w[t] EXCEPT !.pc = pc, !.plan = v, !.idx = first]]
      PROVE  Run(t)'
  <2>1. PICK r : r = [w[t] EXCEPT !.pc = pc, !.plan = v, !.idx = first]
    OBVIOUS
  <2>2. w' = [w EXCEPT ![t] = r]
    BY <1>8, <2>1
  <2>3. w'[t] = r
    BY <1>2, <2>2 DEF TypeOK
  <2>4. /\ r.pc = pc /\ r.job = j /\ r.plan = v /\ r.idx = first /\ r.prev = w[t].prev
        /\ r.stale = w[t].stale /\ r.text = w[t].text /\ r # Idle
    BY <1>2, <1>6, <2>1 DEF Workers, Idle
  <2>5. Busy(t)' /\ Kind(t)' = Kind(t)
    <3>1. StepOf({t}, j) /\ job'[j].kind = job[j].kind
      BY StepTouches
    <3> QED
      BY <2>3, <2>4, <3>1 DEF Busy, Kind
  <2>6. Passed(t)' = first - 1
    BY <1>6, <2>3, <2>4 DEF Passed
  <2>7. Resumed(t)'
    <3>1. SUFFICES ASSUME Kind(t) = "chunks" PROVE Resumed(t)'
      BY <2>5 DEF Resumed
    <3>2. /\ ~w[t].stale => \A i \in 1..MaxChunks :
               i <= first - 1 /\ i <= Len(Splits["chunks"][v]) =>
                 cp[j][i] = Piece("chunks", v, i)
          /\ w[t].prev = v => \A i \in 1..MaxChunks : i > first - 1 => cp[j][i] = None
      BY <1>1, <1>5, <3>1, TakenOver
    <3> QED
      BY <1>1, <1>6, <2>3, <2>4, <2>5, <2>6, <3>2 DEF Resumed
  <2>8. Gathered(t)'
    <3>1. SUFFICES ASSUME Kind(t) = "freetext" PROVE Gathered(t)'
      BY <2>5 DEF Gathered
    <3>2. w[t].text = <<>> /\ first - 1 = 0 /\ first = 1
      BY <1>1, <1>2, <1>4, <1>5, <3>1 DEF Run, Gathered
    <3>3. pc = "assemble" => Len(Splits["freetext"][v]) = 0
      <4>1. Len(Splits["freetext"][v]) \in Nat
        BY SplitsTyped DEF Kinds
      <4> QED
        BY <1>7, <3>1, <3>2, <4>1
    <3> QED
      BY <1>6, <2>3, <2>4, <2>6, <3>1, <3>2, <3>3 DEF Gathered
  <2>9. Delivered(t)'
    BY <1>6, <2>3, <2>4 DEF Delivered
  <2> QED
    BY <2>7, <2>8, <2>9 DEF Run
<1>9. ASSUME Kind(t) = "analysis",
             w' = [w EXCEPT ![t] = [w[t] EXCEPT !.pc = "assemble", !.plan = v]]
      PROVE  Run(t)'
  <2>1. w'[t].pc = "assemble" /\ w'[t].job = j
    BY <1>2, <1>9 DEF Workers, TypeOK
  <2>2. Kind(t)' = "analysis"
    <3>1. StepOf({t}, j) /\ job'[j].kind = job[j].kind
      BY StepTouches
    <3> QED
      BY <1>9, <2>1, <3>1 DEF Kind
  <2> QED
    BY <2>1, <2>2 DEF Run, Resumed, Gathered, Delivered
<1>10. Run(t)'
  <2>1. \/ w' = [w EXCEPT ![t] = [w[t] EXCEPT !.pc = pc, !.plan = v, !.idx = first]]
        \/ /\ Kind(t) = "analysis"
           /\ w' = [w EXCEPT ![t] = [w[t] EXCEPT !.pc = "assemble", !.plan = v]]
    BY <1>3, <1>4, <1>6 DEF Prepare, Entries
  <2> QED
    BY <1>8, <1>9, <2>1
<1>11. Status(j)' = Status(j)
  <2>1. job' = job \/ job' = [job EXCEPT ![j] = [job[j] EXCEPT !.plan = v]]
    BY <1>3 DEF Prepare
  <2>2. job[j] \in JobRecords /\ job \in [Jobs -> {None, Gone} \cup JobRecords]
    BY <1>2, JobFields DEF TypeOK
  <2>3. Exists(j)' /\ Exists(j)
    BY <1>2, StepTouches
  <2>4. job'[j].status = job[j].status
    BY <2>1, <2>2 DEF JobRecords
  <2> QED
    BY <2>3, <2>4 DEF Status
<1>12. Checkpointed(j)'
  BY <1>1, <1>2, StepTouches, CheckpointsStay
<1> QED
  BY <1>1, <1>10, <1>11, <1>12, RunStep

\* A worker in its loop that goes on to the next chunk, with the text so far
LEMMA OnwardRun ==
  ASSUME IInv, FilesInv, NEW t \in Threads, NEW j \in Jobs, w[t].job = j, Busy(t), Step(t),
         w[t].pc \in InLoop, cp' = cp, NEW text,
         w' = [w EXCEPT ![t] = [Onward(t) EXCEPT !.text = text]],
         Kind(t) = "chunks" => w[t].pc = "progress",
         Kind(t) = "freetext" =>
           /\ Len(text) = w[t].idx
           /\ \A i \in 1..MaxChunks :
                i <= w[t].idx => text[i] = Piece("freetext", w[t].plan, i)
  PROVE  Run(t)'
<1>1. TypeOK /\ w[t] \in Workers /\ Run(t)
  BY AtWork DEF FilesInv, Run
<1>2. /\ Onward(t) \in Workers /\ Onward(t).job = j /\ Onward(t).plan = w[t].plan
      /\ Onward(t).idx = w[t].idx + 1
      /\ Onward(t).pc \in {"poll", "assemble"}
      /\ Onward(t).pc = "poll" <=> w[t].idx + 1 <= Len(Splits[Kind(t)][w[t].plan])
      /\ w[t].idx \in 1..MaxChunks /\ w[t].idx <= Len(Splits[Kind(t)][w[t].plan])
      /\ Len(Splits[Kind(t)][w[t].plan]) \in 0..MaxChunks
  BY OnwardFields
<1>3. Onward(t).prev = w[t].prev /\ Onward(t).stale = w[t].stale
  BY <1>1 DEF Onward, Workers
<1>4. PICK o \in Workers : o = Onward(t)
  BY <1>2
<1>5. PICK r : r = [o EXCEPT !.text = text]
  OBVIOUS
<1>6. w'[t] = r
  <2>1. w' = [w EXCEPT ![t] = r]
    BY <1>4, <1>5
  <2> QED
    BY <1>1, <2>1 DEF TypeOK
<1>7. /\ r.pc = o.pc /\ r.job = o.job /\ r.plan = o.plan /\ r.idx = o.idx
      /\ r.prev = o.prev /\ r.stale = o.stale /\ r.text = text /\ r # Idle
  BY <1>4, <1>5 DEF Workers, Idle
<1>8. Busy(t)' /\ Kind(t)' = Kind(t)
  <2>1. StepOf({t}, j) /\ job'[j].kind = job[j].kind
    BY StepTouches
  <2> QED
    BY <1>2, <1>4, <1>6, <1>7, <2>1 DEF Busy, Kind
<1>9. Passed(t)' = w[t].idx
  BY <1>2, <1>4, <1>6, <1>7 DEF Passed
<1>10. Resumed(t)'
  <2>1. SUFFICES ASSUME Kind(t) = "chunks" PROVE Resumed(t)'
    BY <1>8 DEF Resumed
  <2>2. Passed(t) = w[t].idx /\ w[t].pc \in InLoop
    BY <2>1 DEF Passed
  <2> QED
    BY <1>1, <1>2, <1>3, <1>4, <1>6, <1>7, <1>9, <2>1, <2>2 DEF Run, Resumed, InLoop
<1>11. Gathered(t)'
  <2>1. SUFFICES ASSUME Kind(t) = "freetext" PROVE Gathered(t)'
    BY <1>8 DEF Gathered
  <2>2. o.pc = "assemble" => w[t].idx = Len(Splits["freetext"][w[t].plan])
    BY <1>2, <1>4, <2>1
  <2> QED
    BY <1>2, <1>4, <1>6, <1>7, <1>9, <2>1, <2>2 DEF Gathered
<1>12. Delivered(t)'
  BY <1>2, <1>4, <1>6, <1>7 DEF Delivered
<1> QED
  BY <1>10, <1>11, <1>12 DEF Run

\* The text of a free-text transform with the piece in turn
LEMMA TextGrows ==
  ASSUME IInv, FilesInv, NEW t \in Threads, Busy(t), w[t].pc \in {"poll", "work"},
         Kind(t) = "freetext", NEW text,
         text = Append(w[t].text, Piece("freetext", w[t].plan, w[t].idx))
  PROVE  /\ Len(text) = w[t].idx
         /\ \A i \in 1..MaxChunks :
              i <= w[t].idx => text[i] = Piece("freetext", w[t].plan, i)
<1>1. w[t] \in Workers /\ Gathered(t)
  BY AtWork DEF FilesInv
<1>2. w[t].text \in Seq(Texts) /\ w[t].idx \in 1..(MaxChunks + 1)
  BY <1>1 DEF Workers
<1>3. /\ Len(w[t].text) = w[t].idx - 1
      /\ \A i \in 1..MaxChunks :
           i <= w[t].idx - 1 => w[t].text[i] = Piece("freetext", w[t].plan, i)
  BY <1>1 DEF Gathered, Passed, InLoop
<1>4. PICK m \in Nat : m = Len(w[t].text) /\ w[t].idx = m + 1
  BY <1>2, <1>3, BatchAssumption
<1>5. Len(text) = m + 1 /\ text[m + 1] = Piece("freetext", w[t].plan, m + 1)
      /\ \A i \in 1..m : text[i] = w[t].text[i]
  <2>1. PICK before \in Seq(Texts) : before = w[t].text
    BY <1>2
  <2>2. PICK piece \in Texts : piece = Piece("freetext", w[t].plan, m + 1)
    <3>1. w[t].plan \in Versions /\ w[t].idx <= Len(Splits["freetext"][w[t].plan])
      BY OnwardFields DEF InLoop
    <3>2. m + 1 \in Nat \ {0} /\ m + 1 <= Len(Splits["freetext"][w[t].plan])
      BY <1>4, <3>1
    <3> QED
      BY <3>1, <3>2, PieceTyped DEF Kinds
  <2>3. text = Append(before, piece) /\ Len(before) = m
    BY <1>4, <2>1, <2>2
  <2>4. Len(text) = m + 1 /\ text[m + 1] = piece /\ \A i \in 1..m : text[i] = before[i]
    BY <2>3
  <2> QED
    BY <2>1, <2>2, <2>4
<1>6. ASSUME NEW i \in 1..MaxChunks, i <= m + 1
      PROVE  text[i] = Piece("freetext", w[t].plan, i)
  <2>0. i \in Nat /\ 1 <= i
    BY BatchAssumption
  <2>1. i = m + 1 \/ (i \in 1..m /\ i <= w[t].idx - 1)
    BY <1>4, <1>6, <2>0
  <2>2. CASE i = m + 1
    BY <1>5, <2>2
  <2>3. CASE i \in 1..m /\ i <= w[t].idx - 1
    BY <1>3, <1>5, <2>3
  <2> QED
    BY <2>1, <2>2, <2>3
<1> QED
  BY <1>4, <1>5, <1>6

LEMMA ReuseFiles ==
  ASSUME IInv, FilesInv, NEW t \in Threads, NEW j \in Jobs, w[t].job = j, Reuse(t), Step(t)
  PROVE  FilesInv'
<1>1. /\ Busy(t) /\ w[t].pc = "poll" /\ Kind(t) = "freetext"
      /\ job' = job /\ cp' = cp /\ OutputsStand
  BY DEF Reuse, At, Done, files, OutputsStand
<1>2. Onward(t).text = w[t].text /\ Exists(j)
  BY <1>1, OnwardFields, AtWork DEF InLoop
<1>3. PICK text : text = Append(w[t].text, Piece("freetext", w[t].plan, w[t].idx))
  OBVIOUS
<1>4. w' = [w EXCEPT ![t] = [Onward(t) EXCEPT !.text = text]]
  BY <1>2, <1>3 DEF Reuse
<1>5. /\ Len(text) = w[t].idx
      /\ \A i \in 1..MaxChunks :
           i <= w[t].idx => text[i] = Piece("freetext", w[t].plan, i)
  BY <1>1, <1>3, TextGrows
<1>6. Run(t)'
  BY <1>1, <1>4, <1>5, OnwardRun DEF InLoop
<1>7. Status(j)' = Status(j) /\ Exists(j)'
  BY <1>1, <1>2 DEF Status, Exists
<1>8. Checkpointed(j)'
  BY <1>1, <1>2, <1>7, CheckpointsStay
<1> QED
  BY <1>1, <1>6, <1>7, <1>8, RunStep

LEMMA ProgressFiles ==
  ASSUME IInv, FilesInv, NEW t \in Threads, NEW j \in Jobs, w[t].job = j, Progress(t), Step(t)
  PROVE  FilesInv'
<1>1. /\ Busy(t) /\ w[t].pc = "progress" /\ cp' = cp /\ OutputsStand
      /\ job' = job \/ Set(j, "paused")
  BY DEF Progress, At, files, OutputsStand
<1>2. /\ Onward(t).text = w[t].text /\ Onward(t) \in Workers /\ Exists(j) /\ TypeOK
      /\ w[t] \in Workers /\ Run(t)
  BY <1>1, OnwardFields, AtWork DEF InLoop, FilesInv, Run
<1>3. [Onward(t) EXCEPT !.text = w[t].text] = Onward(t)
  BY <1>2 DEF Workers
<1>4. w' = [w EXCEPT ![t] = [Onward(t) EXCEPT !.text = w[t].text]]
  BY <1>3 DEF Progress
<1>5. Kind(t) = "freetext" =>
        /\ Len(w[t].text) = w[t].idx
        /\ \A i \in 1..MaxChunks :
             i <= w[t].idx => w[t].text[i] = Piece("freetext", w[t].plan, i)
  BY <1>1, <1>2 DEF Run, Gathered, Passed, InLoop
<1>6. Run(t)'
  BY <1>1, <1>4, <1>5, OnwardRun DEF InLoop
<1>7. Exists(j)' /\ job'[j].kind = job[j].kind
  BY StepTouches
<1>8. Status(j)' = "completed" => Status(j) = "completed"
  <2>1. CASE job' = job
    BY <2>1 DEF Status, Exists
  <2>2. CASE Set(j, "paused")
    BY <1>2, <2>2, SetGives, GivenStatus DEF Statuses
  <2> QED
    BY <1>1, <2>1, <2>2
<1>9. Checkpointed(j)'
  BY <1>1, <1>2, <1>7, CheckpointsStay
<1> QED
  BY <1>1, <1>6, <1>8, <1>9, RunStep

LEMMA WorkFiles ==
  ASSUME IInv, FilesInv, NEW t \in Threads, NEW j \in Jobs, w[t].job = j, Work(t), Step(t)
  PROVE  FilesInv'
<1>1. Busy(t) /\ w[t].pc = "work" /\ job' = job /\ OutputsStand
  BY DEF Work, At, OutputsStand
<1>2. /\ TypeOK /\ w[t] \in Workers /\ Exists(j) /\ InPlace(t) /\ Run(t)
      /\ Filed(j)
  BY <1>1, AtWork DEF FilesInv, Run, Filed
<1>3. /\ w[t].plan \in Versions /\ w[t].idx \in 1..MaxChunks
      /\ w[t].idx <= Len(Splits[Kind(t)][w[t].plan])
  BY <1>1, OnwardFields DEF InLoop
<1>4. PICK piece : piece = Piece(Kind(t), w[t].plan, w[t].idx)
  OBVIOUS
<1>5. PICK text : text = IF Kind(t) = "chunks" THEN <<>> ELSE Append(w[t].text, piece)
  OBVIOUS
<1>6. PICK n \in 1..MaxChunks, plan \in Versions : n = w[t].idx /\ plan = w[t].plan
  BY <1>3
<1>7. /\ Busy(t)' /\ w'[t].pc = "progress" /\ w'[t].job = j /\ w'[t].prev = w[t].prev
      /\ w'[t].plan = plan /\ w'[t].idx = n /\ w'[t].stale = w[t].stale
      /\ w'[t].text = text
  <2>1. PICK r : r = [w[t] EXCEPT !.pc = "progress", !.text = text]
    OBVIOUS
  <2>2. w' = [w EXCEPT ![t] = r]
    BY <1>4, <1>5, <2>1 DEF Work
  <2>3. w'[t] = r
    BY <1>2, <2>2 DEF TypeOK
  <2>4. /\ r.pc = "progress" /\ r.job = j /\ r.prev = w[t].prev /\ r.plan = plan
        /\ r.idx = n /\ r.stale = w[t].stale /\ r.text = text /\ r # Idle
    BY <1>2, <1>6, <2>1 DEF Workers, Idle
  <2> QED
    BY <2>3, <2>4 DEF Busy
<1>8. Kind(t)' = Kind(t) /\ Exists(j)' /\ Status(j)' = Status(j) /\ Passed(t)' = n
  BY <1>1, <1>2, <1>7 DEF Kind, Exists, Status, Passed
<1>9. CASE Kind(t) = "chunks"
  <2>1. /\ piece = Piece("chunks", plan, n) /\ piece # None
        /\ n <= Len(Splits["chunks"][plan])
    <3>1. piece \in Texts
      BY <1>3, <1>4, <1>9, PieceTyped DEF Kinds
    <3> QED
      BY <1>3, <1>4, <1>6, <1>9, <3>1, BatchAssumption
  <2>2. /\ cp'[j][n] = piece
        /\ \A i \in 1..MaxChunks : i # n => cp'[j][i] = cp[j][i]
    <3>1. cp' = [cp EXCEPT ![j] = [cp[j] EXCEPT ![n] = piece]]
      BY <1>4, <1>6, <1>9 DEF Work
    <3>2. cp \in [Jobs -> [1..MaxChunks -> Texts \cup {None}]]
      BY <1>2 DEF TypeOK
    <3> QED
      BY <3>1, <3>2
  <2>3. /\ \A i \in 1..MaxChunks : i < n => cp[j][i] # None
        /\ ~w[t].stale =>
             \A i \in 1..MaxChunks : i < n /\ i <= Len(Splits["chunks"][plan]) =>
               cp[j][i] = Piece("chunks", plan, i)
        /\ w[t].prev = plan => \A i \in 1..MaxChunks : i > n => cp[j][i] = None
    <3>1. Passed(t) = n - 1
      BY <1>1, <1>6 DEF Passed
    <3>2. \A i \in 1..MaxChunks : (i < n <=> i <= n - 1) /\ (i > n => i > n - 1)
      BY <1>6
    <3> QED
      BY <1>1, <1>2, <1>6, <1>9, <3>1, <3>2 DEF InPlace, Run, Resumed, InLoop
  <2>4. Checkpointed(j)'
    <3>1. job[j].kind = "chunks" /\ job'[j].kind = "chunks" /\ job'[j] # None
      BY <1>1, <1>2, <1>9 DEF Kind, Exists
    <3>2. ASSUME NEW i \in 1..MaxChunks, cp'[j][i] # None
          PROVE  /\ \A m \in 1..i : cp'[j][m] # None
                 /\ \E v \in Versions :
                      i <= Len(Splits["chunks"][v]) /\ cp'[j][i] = Piece("chunks", v, i)
      <4>1. CASE i = n
        <5>1. \A m \in 1..i : m = n \/ (m \in 1..MaxChunks /\ m < n)
          BY <1>6, <4>1, BatchAssumption
        <5> QED
          BY <2>1, <2>2, <2>3, <4>1, <5>1
      <4>2. CASE i # n
        <5>1. cp'[j][i] = cp[j][i] /\ cp[j][i] # None
          BY <2>2, <3>2, <4>2
        <5>2. \A m \in 1..i : cp[j][m] # None
          BY <1>2, <3>1, <5>1 DEF Filed, Checkpointed
        <5>3. \E v \in Versions :
                i <= Len(Splits["chunks"][v]) /\ cp[j][i] = Piece("chunks", v, i)
          BY <1>2, <3>1, <5>1 DEF Filed, Checkpointed
        <5>4. \A m \in 1..i : m \in 1..MaxChunks
          BY BatchAssumption
        <5>5. \A m \in 1..i : cp'[j][m] # None
          BY <2>1, <2>2, <5>2, <5>4
        <5> QED
          BY <5>1, <5>3, <5>5
      <4> QED
        BY <4>1, <4>2
    <3> QED
      BY <3>1, <3>2 DEF Checkpointed
  <2>5. Resumed(t)'
    <3>1. ASSUME ~w[t].stale, NEW i \in 1..MaxChunks, i <= n,
                 i <= Len(Splits["chunks"][plan])
          PROVE  cp'[j][i] = Piece("chunks", plan, i)
      <4>1. i = n \/ i < n
        BY <3>1
      <4> QED
        BY <2>1, <2>2, <2>3, <3>1, <4>1
    <3>2. ASSUME w[t].prev = plan, NEW i \in 1..MaxChunks, i > n
          PROVE  cp'[j][i] = None
      BY <2>2, <2>3, <3>2
    <3> QED
      BY <1>7, <1>8, <3>1, <3>2 DEF Resumed
  <2>6. Run(t)'
    BY <1>7, <1>8, <1>9, <2>5 DEF Run, Gathered, Delivered
  <2> QED
    BY <1>1, <1>8, <2>4, <2>6, RunStep
<1>10. CASE Kind(t) = "freetext"
  <2>1. cp' = cp
    BY <1>10 DEF Work
  <2>2. Checkpointed(j)'
    BY <1>1, <1>2, <1>8, <2>1, CheckpointsStay
  <2>3. text = Append(w[t].text, Piece("freetext", w[t].plan, w[t].idx))
    BY <1>4, <1>5, <1>10
  <2>4. /\ Len(text) = n
        /\ \A i \in 1..MaxChunks : i <= n => text[i] = Piece("freetext", plan, i)
    BY <1>1, <1>6, <1>10, <2>3, TextGrows
  <2>5. Run(t)'
    BY <1>7, <1>8, <1>10, <2>4 DEF Run, Resumed, Gathered, Delivered
  <2> QED
    BY <1>1, <1>8, <2>2, <2>5, RunStep
<1>11. CASE Kind(t) \notin {"chunks", "freetext"}
  <2>1. job'[j] # None /\ job'[j].kind # "chunks"
    BY <1>1, <1>2, <1>11 DEF Kind, Exists
  <2>2. Checkpointed(j)'
    BY <2>1 DEF Checkpointed
  <2>3. Run(t)'
    BY <1>7, <1>8, <1>11 DEF Run, Resumed, Gathered, Delivered
  <2> QED
    BY <1>1, <1>8, <2>2, <2>3, RunStep
<1> QED
  BY <1>9, <1>10, <1>11

LEMMA AnswerFiles ==
  ASSUME IInv, FilesInv, NEW t \in Threads, NEW j \in Jobs, w[t].job = j, Answer(t), Step(t)
  PROVE  FilesInv'
<1>1. /\ Busy(t) /\ w[t].analysis /\ GoTo(t, "complete") /\ job' = job /\ cp' = cp
      /\ OutputsStand
  BY DEF Answer, At, files, OutputsStand
<1>2. TypeOK /\ Exists(j)
  BY <1>1, AtWork
<1>3. w'[t].pc = "complete" /\ w'[t].analysis
  BY <1>1, <1>2, WentOn DEF Places
<1>4. Run(t)'
  BY <1>3 DEF Run, Resumed, Gathered, Delivered, InLoop
<1>5. Status(j)' = Status(j) /\ Exists(j)'
  BY <1>1, <1>2 DEF Status, Exists
<1>6. Checkpointed(j)'
  BY <1>1, <1>2, <1>5, CheckpointsStay
<1> QED
  BY <1>1, <1>4, <1>5, <1>6, RunStep

\* What a transform assembles is whole unless its run was stale.
LEMMA AssembledWhole ==
  ASSUME IInv, FilesInv, NEW t \in Threads, NEW j \in Jobs, w[t].job = j, At(t, "assemble"),
         ~w[t].analysis, ~w[t].stale
  PROVE  Whole(Assembled(t))
<1>1. Busy(t) /\ w[t].pc = "assemble"
  BY DEF At
<1>2. w[t] \in Workers /\ InPlace(t) /\ Resumed(t) /\ Gathered(t)
  BY <1>1, AtWork DEF FilesInv
<1>3. PICK v \in Versions : v = w[t].plan
  BY <1>1, <1>2 DEF InPlace, Begun, Places
<1>4. Kind(t) \in Transforms
  BY <1>1, <1>2 DEF InPlace, Begun, Places
<1>5. PICK text \in Seq(Texts) : text = Assembled(t)
  BY AssembledTyped
<1>6. CASE Kind(t) = "chunks"
  <2>1. PICK n \in 0..MaxChunks : n = Len(Splits["chunks"][v])
    BY SplitsTyped DEF Kinds
  <2>2. PICK idx \in 1..(MaxChunks + 1) : idx = w[t].idx /\ idx > n
    BY <1>1, <1>2, <1>3, <1>6, <2>1 DEF InPlace, Workers
  <2>3. text = [i \in 1..n |-> cp[j][i]]
    BY <1>3, <1>5, <1>6, <2>1 DEF Assembled
  <2>4. Len(text) = n /\ \A i \in 1..n : text[i] = cp[j][i]
    BY <2>3, BatchAssumption
  <2>5. Passed(t) = idx - 1
    BY <1>1, <2>2 DEF Passed
  <2>6. ASSUME NEW i \in 1..n
        PROVE  text[i] = Piece("chunks", v, i)
    <3>1. MaxChunks \in Nat
      BY BatchAssumption
    <3>2. i \in 1..MaxChunks
      BY <2>1, <3>1
    <3>3. i <= idx - 1
      BY <2>1, <2>2, <3>1
    <3>4. i <= Passed(t)
      BY <2>5, <3>3
    <3>5. i <= Len(Splits["chunks"][v])
      BY <2>1
    <3> QED
      BY <1>1, <1>2, <1>3, <1>6, <2>4, <3>2, <3>4, <3>5 DEF Resumed
  <2> QED
    BY <1>5, <2>1, <2>4, <2>6, PiecesWhole DEF Kinds
<1>7. CASE Kind(t) = "freetext"
  <2>1. PICK n \in 0..MaxChunks : n = Len(Splits["freetext"][v])
    BY SplitsTyped DEF Kinds
  <2>2. text = w[t].text
    BY <1>5, <1>7 DEF Assembled
  <2>3. Len(text) = n /\ Passed(t) = n
        /\ \A i \in 1..MaxChunks : i <= n => text[i] = Piece("freetext", v, i)
    BY <1>1, <1>2, <1>3, <1>7, <2>1, <2>2 DEF Gathered
  <2>4. \A i \in 1..n : text[i] = Piece("freetext", v, i)
    BY <2>1, <2>3, BatchAssumption
  <2> QED
    BY <1>5, <2>1, <2>3, <2>4, PiecesWhole DEF Kinds
<1> QED
  BY <1>4, <1>6, <1>7 DEF Transforms

LEMMA AssembleFiles ==
  ASSUME IInv, FilesInv, NEW t \in Threads, NEW j \in Jobs, w[t].job = j, Assemble(t), Step(t)
  PROVE  FilesInv'
<1>1. Busy(t) /\ job' = job /\ cp' = cp /\ OutputsStand
  BY DEF Assemble, At, OutputsStand
<1>2. w'[t].pc \in Silent
  <2>1. PICK text : w' = [w EXCEPT ![t] = [w[t] EXCEPT !.pc = "write", !.text = text]]
    BY DEF Assemble
  <2>2. PICK r : r = [w[t] EXCEPT !.pc = "write", !.text = text]
    OBVIOUS
  <2>3. r.pc = "write" /\ w'[t] = r
    BY <1>1, <2>1, <2>2, AtWork DEF Workers, TypeOK
  <2> QED
    BY <2>3 DEF Silent
<1>3. Status(j)' = Status(j)
  BY <1>1 DEF Status, Exists
<1> QED
  BY <1>1, <1>2, <1>3, SilentStep

\* What is written, closed or moved is an output and not nothing.
LEMMA WriteFiles ==
  ASSUME IInv, FilesInv, NEW t \in Threads, NEW j \in Jobs, w[t].job = j, Write(t), Step(t)
  PROVE  FilesInv'
<1>1. Busy(t) /\ job' = job /\ cp' = cp /\ GoTo(t, "replace")
  BY DEF Write, At
<1>2. w'[t].pc \in Silent
  BY <1>1, WentOn, AtWork DEF Silent, Places
<1>3. Status(j)' = Status(j)
  BY <1>1 DEF Status, Exists
<1>4. TypeOK /\ w[t] \in Workers
  BY <1>1, AtWork
<1>5. OutputsStand
  <2>1. PICK f \in Files : f = FileOf[j]
    BY BatchAssumption
  <2>2. CASE out' = out
    BY <2>2 DEF OutputsStand
  <2>3. CASE t \in Writers(out[f]) /\ \E o \in Written(t, out[f]) : out' = [out EXCEPT ![f] = o]
    <3>1. out[f] \in Outputs
      BY <1>4, <2>3 DEF Writers, TypeOK
    <3>2. PICK o \in Outputs : out' = [out EXCEPT ![f] = o]
      BY <1>4, <2>3, <3>1, WrittenTyped
    <3> QED
      BY <1>4, <3>2, BatchAssumption DEF OutputsStand, TypeOK
  <2> QED
    BY <2>1, <2>2, <2>3 DEF Write
<1> QED
  BY <1>1, <1>2, <1>3, <1>5, SilentStep

LEMMA ClosedStands ==
  ASSUME NEW o \in Outputs, NEW ts
  PROVE  Closed(o, ts) # None
<1>1. o # None
  BY BatchAssumption
<1>2. Closed(o, ts) = [o EXCEPT !.open = o.open \ ts]
  BY <1>1 DEF Closed
<1>3. Closed(o, ts) \in Outputs
  BY <1>2 DEF Outputs
<1> QED
  BY <1>3, BatchAssumption

LEMMA WriteFailsFiles ==
  ASSUME IInv, FilesInv, NEW t \in Threads, NEW j \in Jobs, w[t].job = j, WriteFails(t), Step(t)
  PROVE  FilesInv'
<1>1. Busy(t) /\ job' = job /\ cp' = cp /\ GoTo(t, "drop")
  BY DEF WriteFails, At
<1>2. w'[t].pc \in Silent
  BY <1>1, WentOn, AtWork DEF Silent, Places
<1>3. Status(j)' = Status(j)
  BY <1>1 DEF Status, Exists
<1>4. OutputsStand
  <2>1. out \in [Files -> Outputs \cup {None}] /\ out' = [f \in Files |-> Closed(out[f], {t})]
    BY <1>1, AtWork DEF WriteFails, TypeOK
  <2> QED
    BY <2>1, ClosedStands DEF OutputsStand
<1> QED
  BY <1>1, <1>2, <1>3, <1>4, SilentStep

LEMMA ReplaceFiles ==
  ASSUME IInv, FilesInv, NEW t \in Threads, NEW j \in Jobs, w[t].job = j, Replace(t), Step(t)
  PROVE  FilesInv'
<1>1. Busy(t) /\ w[t].pc = "replace" /\ job' = job /\ cp' = cp
  BY DEF Replace, At
<1>2. TypeOK /\ Exists(j)
  BY <1>1, AtWork
<1>3. PICK f \in Files : f = FileOf[j]
  BY BatchAssumption
<1>4. /\ StepOf({t}, j) /\ Exists(j)' /\ job'[j].kind = job[j].kind
      /\ Status(j)' = Status(j)
  BY <1>1, StepTouches DEF Status, Exists
<1>5. ASSUME out' = out, GoTo(t, "drop")
      PROVE  FilesInv'
  <2>1. w'[t].pc = "drop" /\ OutputsStand
    BY <1>1, <1>2, <1>5, WentOn DEF Places, OutputsStand
  <2> QED
    BY <1>1, <1>4, <2>1, SilentStep DEF Silent
<1>6. ASSUME tmp[f] # None, out' = [out EXCEPT ![f] = tmp[f]], GoTo(t, "unlink")
      PROVE  FilesInv'
  <2>1. out'[f] = tmp[f] /\ \A g \in Files \ {f} : out'[g] = out[g]
    BY <1>2, <1>6 DEF TypeOK
  <2>2. w'[t].pc = "unlink" /\ w'[t].job = j
    BY <1>1, <1>2, <1>6, WentOn DEF Places
  <2>3. Run(t)'
    BY <1>3, <1>6, <2>1, <2>2 DEF Run, Resumed, Gathered, Delivered, InLoop
  <2>4. OutputsStand
    BY <1>6, <2>1 DEF OutputsStand
  <2>5. Filed(j)'
    BY <1>1, <1>2, <1>3, <1>4, <2>4, CheckpointsStay, FinishStays DEF Filed, OutputsStand
  <2> QED
    BY <1>4, <2>3, <2>4, <2>5, FilesStay
<1> QED
  BY <1>3, <1>5, <1>6 DEF Replace

LEMMA UnlinkFiles ==
  ASSUME IInv, FilesInv, NEW t \in Threads, NEW j \in Jobs, w[t].job = j, Unlink(t), Step(t)
  PROVE  FilesInv'
<1>1. Busy(t) /\ job' = job /\ cp' = cp /\ out' = out
  BY DEF Unlink, At
<1>2. TypeOK /\ Exists(j) /\ Delivered(t)
  BY <1>1, AtWork DEF FilesInv
<1>3. OutputsStand
  BY <1>1 DEF OutputsStand
<1>4. /\ StepOf({t}, j) /\ Exists(j)' /\ job'[j].kind = job[j].kind
      /\ Status(j)' = Status(j)
  BY <1>1, StepTouches DEF Status, Exists
<1>5. Run(t)'
  <2>1. CASE At(t, "unlink") /\ GoTo(t, "complete")
    <3>1. w'[t].pc = "complete" /\ w'[t].job = j /\ w'[t].analysis = w[t].analysis
      BY <1>1, <1>2, <2>1, WentOn DEF Places
    <3> QED
      BY <1>1, <1>2, <2>1, <3>1 DEF Run, Resumed, Gathered, Delivered, InLoop, At
  <2>2. CASE At(t, "drop") /\ GoTo(t, "fail")
    <3>1. w'[t].pc = "fail"
      BY <1>1, <1>2, <2>2, WentOn DEF Places
    <3> QED
      BY <3>1, SilentRun DEF Silent
  <2> QED
    BY <2>1, <2>2 DEF Unlink
<1>6. Filed(j)'
  BY <1>1, <1>2, <1>4, CheckpointsStay, FinishStays DEF Filed
<1> QED
  BY <1>1, <1>3, <1>4, <1>5, <1>6, FilesStay

LEMMA CompleteFiles ==
  ASSUME IInv, FilesInv, NEW t \in Threads, NEW j \in Jobs, w[t].job = j, Complete(t), Step(t)
  PROVE  FilesInv'
<1>1. /\ Busy(t) /\ w[t].pc = "complete" /\ GoTo(t, "close") /\ cp' = cp /\ OutputsStand
      /\ out' = out
  BY DEF Complete, At, files, OutputsStand
<1>2. TypeOK /\ Exists(j) /\ InPlace(t) /\ Delivered(t)
  BY <1>1, AtWork DEF FilesInv
<1>3. StepOf({t}, j) /\ Exists(j)' /\ job'[j].kind = job[j].kind
  BY <1>1, StepTouches
<1>4. Run(t)'
  <2>1. w'[t].pc = "close"
    BY <1>1, <1>2, WentOn DEF Places
  <2> QED
    BY <2>1, SilentRun DEF Silent
<1>5. Finished(j)'
  <2>1. job[j].kind \in Transforms => ~w[t].analysis
    BY <1>1, <1>2 DEF InPlace, Kind, Transforms
  <2> QED
    BY <1>1, <1>2, <1>3, <2>1 DEF Finished, Delivered
<1>6. Filed(j)'
  BY <1>1, <1>2, <1>3, <1>5, CheckpointsStay DEF Filed
<1> QED
  BY <1>1, <1>3, <1>4, <1>6, FilesStay

LEMMA StepFiles ==
  ASSUME IInv, FilesInv, NEW t \in Threads, Step(t)
  PROVE  FilesInv'
<1>1. Busy(t)
  BY DEF Step, Begin, BeginUnsaved, Prepare, Reuse, Poll, Work, Progress, Assemble, Answer, Write,
         WriteFails, Replace,
         Unlink, Complete, Raise, Fail, Close, At
<1>2. PICK j \in Jobs : w[t].job = j
  BY <1>1, AtWork
<1>3. Begin(t) \/ BeginUnsaved(t) \/ Prepare(t) \/ Reuse(t) \/ Poll(t) \/ Work(t) \/ Progress(t)
      \/ Assemble(t) \/ Answer(t) \/ Write(t) \/ WriteFails(t) \/ Replace(t) \/ Unlink(t)
      \/ Complete(t) \/ Raise(t) \/ Fail(t) \/ Close(t)
  BY DEF Step
<1> QED
  BY <1>2, <1>3, BeginFiles, BeginUnsavedFiles, PrepareFiles, ReuseFiles, PollFiles, WorkFiles,
     ProgressFiles, AssembleFiles, AnswerFiles, WriteFiles, WriteFailsFiles, ReplaceFiles, UnlinkFiles, CompleteFiles, RaiseFiles,
     FailFiles, CloseFiles, Zenon

-----------------------------------------------------------------------------
(* The checkpoints: calls, edits, restarts                                   *)

Nobody(k) == \A u \in Threads : Busy(u) => w[u].job # k

\* What a call may make of job k: it keeps kind and plan, or nobody works on it
Onto(k) ==
  \/ job'[k] = job[k]
  \/ /\ Exists(k) /\ Exists(k)'
     /\ job'[k].kind = job[k].kind /\ job'[k].plan = job[k].plan
     /\ Status(k)' = "completed" => Status(k) = "completed"
  \/ /\ Nobody(k) /\ (job[k] = None \/ job'[k] = Gone)
     /\ job'[k] # None /\ Status(k)' # "completed"

\* What a call may make of thread u: it works on, has ended or is to begin
Amid(u) ==
  \/ w'[u] = w[u]
  \/ ~Busy(u)'
  \/ w'[u].pc = "begin" /\ w'[u].text = <<>>

LEMMA CallFiles ==
  ASSUME IInv, FilesInv, cp' = cp, OutputsStand,
         \A k \in Jobs : Onto(k), \A u \in Threads : Amid(u)
  PROVE  FilesInv'
<1>1. TypeOK
  BY DEF IInv
<1>3. ASSUME NEW u \in Threads
      PROVE  Run(u)'
  <2>1. Amid(u) /\ Run(u)
    BY DEF FilesInv, Run
  <2>2. CASE ~Busy(u)'
    BY <2>2, SilentRun
  <2>3. CASE w'[u].pc = "begin" /\ w'[u].text = <<>>
    BY <2>3 DEF Run, Resumed, Gathered, Delivered, InLoop
  <2>4. CASE w'[u] = w[u] /\ Busy(u)
    <3>1. PICK k \in Jobs : k = w[u].job
      BY <2>4, AtWork
    <3>2. Exists(k) /\ Onto(k) /\ ~Nobody(k)
      BY <2>4, <3>1, AtWork DEF Nobody
    <3>3. job'[k].kind = job[k].kind /\ job'[k].plan = job[k].plan
      BY <3>2 DEF Onto
    <3>4. Busy(u)' /\ Kind(u)' = Kind(u) /\ Passed(u)' = Passed(u) /\ Stale(k)' = Stale(k)
      BY <2>4, <3>1, <3>3 DEF Busy, Kind, Passed, Stale
    <3>5. Resumed(u)'
      BY <2>1, <2>4, <3>1, <3>3, <3>4 DEF Run, Resumed
    <3>6. Gathered(u)'
      BY <2>1, <2>4, <3>4 DEF Run, Gathered
    <3>7. Delivered(u)'
      BY <2>1, <2>4, <3>1, BatchAssumption DEF Run, Delivered, OutputsStand
    <3> QED
      BY <3>5, <3>6, <3>7 DEF Run
  <2> QED
    BY <2>1, <2>2, <2>3, <2>4 DEF Amid, Busy
<1>4. ASSUME NEW k \in Jobs
      PROVE  Filed(k)'
  <2>1. Onto(k) /\ Filed(k) /\ FileOf[k] \in Files
    BY BatchAssumption DEF FilesInv, Filed
  <2>2. CASE job'[k] = job[k]
    BY <2>1, <2>2 DEF Filed, Checkpointed, Finished, Exists, Status, OutputsStand
  <2>3. CASE /\ Exists(k) /\ Exists(k)' /\ job'[k].kind = job[k].kind
             /\ Status(k)' = "completed" => Status(k) = "completed"
    BY <2>1, <2>3, CheckpointsStay, FinishStays DEF Filed, OutputsStand
  <2>4. CASE /\ job[k] = None \/ job'[k] = Gone
             /\ job'[k] # None /\ Status(k)' # "completed"
    BY <2>1, <2>4 DEF Filed, Checkpointed, Finished, Exists
  <2> QED
    BY <2>1, <2>2, <2>3, <2>4 DEF Onto
<1> QED
  BY <1>3, <1>4 DEF FilesInv, Run, Filed

LEMMA SetOnto ==
  ASSUME TypeOK, NEW j \in Jobs, Exists(j), NEW status \in Statuses \ {"completed"},
         Set(j, status)
  PROVE  \A k \in Jobs : Onto(k)
<1>1. job \in [Jobs -> {None, Gone} \cup JobRecords] /\ job[j] \in JobRecords
  BY JobFields DEF TypeOK
<1>2. job' = [job EXCEPT ![j] = [job[j] EXCEPT !.status = status]]
  BY DEF Set
<1>3. job'[j].plan = job[j].plan
  BY <1>1, <1>2 DEF JobRecords
<1>4. Given(j, status)
  BY SetGives
<1>5. Exists(j)' /\ Status(j)' = status /\ job'[j].kind = job[j].kind
  BY <1>4, GivenStatus
<1> QED
  BY <1>3, <1>4, <1>5 DEF Onto, Given

\* A job that is made anew
LEMMA NewOnto ==
  ASSUME IInv, NEW j \in Jobs, job[j] = None, NEW new \in JobRecords,
         new.status # "completed", job' = [job EXCEPT ![j] = new]
  PROVE  \A k \in Jobs : Onto(k)
<1>1. job'[j] = new /\ \A k \in Jobs \ {j} : job'[k] = job[k]
  BY DEF IInv, TypeOK
<1>2. Nobody(j)
  BY NobodyOn DEF Nobody, Exists
<1>3. Status(j)' # "completed" /\ job'[j] # None
  BY <1>1, BatchAssumption DEF Status, Exists
<1> QED
  BY <1>1, <1>2, <1>3 DEF Onto

LEMMA SpawnedAmid ==
  ASSUME TypeOK, NEW j, NEW analysis, Spawned(j, analysis)
  PROVE  \A u \in Threads : Amid(u)
<1>1. PICK t \in Threads : w' = [w EXCEPT ![t] = Worker(j, analysis)]
  BY DEF Spawned
<1>2. w'[t] = Worker(j, analysis) /\ \A u \in Threads \ {t} : w'[u] = w[u]
  BY <1>1 DEF TypeOK
<1>3. Worker(j, analysis).pc = "begin" /\ Worker(j, analysis).text = <<>>
  BY DEF Worker
<1> QED
  BY <1>2, <1>3 DEF Amid

LEMMA NewFields ==
  ASSUME NEW kind \in Kinds, NEW mode \in Modes
  PROVE  /\ New(kind, mode) \in JobRecords /\ New(kind, mode).status = "queued"
         /\ [New(kind, mode) EXCEPT !.status = "failed"] \in JobRecords
         /\ [New(kind, mode) EXCEPT !.status = "failed"].status = "failed"
  BY DEF New, JobRecords, Statuses

LEMMA CreateFiles ==
  ASSUME IInv, FilesInv, NEW j \in Jobs, Create(j)
  PROVE  FilesInv'
<1>1. cp' = cp /\ OutputsStand /\ w' = w /\ job[j] = None
  BY DEF Create, files, OutputsStand
<1>2. PICK kind \in Kinds, mode \in Modes : job' = [job EXCEPT ![j] = New(kind, mode)]
  BY BatchAssumption DEF Create
<1>3. PICK new \in JobRecords : new = New(kind, mode) /\ new.status = "queued"
  BY NewFields
<1>4. \A k \in Jobs : Onto(k)
  BY <1>1, <1>2, <1>3, NewOnto
<1> QED
  BY <1>1, <1>4, CallFiles DEF Amid

LEMMA RouteFiles ==
  ASSUME IInv, FilesInv, NEW j \in Jobs, Route(j)
  PROVE  FilesInv'
<1>1. TypeOK /\ cp' = cp /\ OutputsStand /\ job[j] = None
  BY DEF Route, files, OutputsStand, IInv
<1>2. PICK kind \in Kinds :
        \/ Spawned(j, kind = "analysis")
           /\ job' = [job EXCEPT ![j] = New(kind, "automatic")]
        \/ NotSpawned(j)
           /\ job' = [job EXCEPT ![j] = [New(kind, "automatic") EXCEPT !.status = "failed"]]
  BY BatchAssumption DEF Route
<1>3. \E new \in JobRecords :
        new.status # "completed" /\ job' = [job EXCEPT ![j] = new]
  BY <1>2, NewFields DEF Modes
<1>4. \A k \in Jobs : Onto(k)
  BY <1>1, <1>3, NewOnto
<1>5. \A u \in Threads : Amid(u)
  <2>1. ASSUME Spawned(j, kind = "analysis") PROVE \A u \in Threads : Amid(u)
    BY <1>1, <2>1, SpawnedAmid
  <2>2. ASSUME NotSpawned(j) PROVE \A u \in Threads : Amid(u)
    BY <2>2 DEF NotSpawned, Amid
  <2> QED
    BY <1>2, <2>1, <2>2
<1> QED
  BY <1>1, <1>4, <1>5, CallFiles

LEMMA StartFiles ==
  ASSUME IInv, FilesInv, NEW j \in Jobs, Start(j)
  PROVE  FilesInv'
<1>1. TypeOK /\ cp' = cp /\ OutputsStand /\ Exists(j)
  BY DEF Start, files, OutputsStand, IInv
<1>2. \A k \in Jobs : Onto(k)
  <2>1. job' = job \/ \E status \in {"interrupted", "failed"} : Set(j, status)
    BY DEF Start
  <2>2. ASSUME job' = job PROVE \A k \in Jobs : Onto(k)
    BY <2>2 DEF Onto
  <2>3. ASSUME NEW status \in {"interrupted", "failed"}, Set(j, status)
        PROVE  \A k \in Jobs : Onto(k)
    BY <1>1, <2>3, SetOnto DEF Statuses
  <2> QED
    BY <2>1, <2>2, <2>3
<1>3. \A u \in Threads : Amid(u)
  <2>1. ASSUME Spawned(j, FALSE) PROVE \A u \in Threads : Amid(u)
    BY <1>1, <2>1, SpawnedAmid
  <2>2. ASSUME NotSpawned(j) PROVE \A u \in Threads : Amid(u)
    BY <2>2 DEF NotSpawned, Amid
  <2> QED
    BY <2>1, <2>2 DEF Start
<1> QED
  BY <1>1, <1>2, <1>3, CallFiles

LEMMA AutomaticFiles ==
  ASSUME IInv, FilesInv, NEW j \in Jobs, Automatic(j)
  PROVE  FilesInv'
<1>1. TypeOK /\ cp' = cp /\ OutputsStand /\ w' = w
  BY DEF Automatic, files, OutputsStand, IInv
<1>2. Exists(j) /\ Status(j) \in {"queued", "paused", "running"} /\ job[j] \in JobRecords
  BY <1>1, BatchAssumption, JobFields DEF Automatic, Status, Statuses
<1>3. PICK status \in {"queued", "running"} :
        status = IF job[j].status = "paused" THEN "running" ELSE job[j].status
  BY <1>1, <1>2, JobFields
<1>4. PICK new : new = [job[j] EXCEPT !.mode = "automatic", !.status = status]
  OBVIOUS
<1>5. /\ new \in JobRecords /\ new.kind = job[j].kind /\ new.plan = job[j].plan
      /\ new.status = status
  BY <1>2, <1>4 DEF JobRecords, Modes, Statuses
<1>6. job' = [job EXCEPT ![j] = new]
  BY <1>3, <1>4 DEF Automatic
<1>7. job'[j] = new /\ \A k \in Jobs \ {j} : job'[k] = job[k]
  BY <1>1, <1>6 DEF TypeOK
<1>8. Exists(j)' /\ Status(j)' # "completed"
  BY <1>5, <1>7, BatchAssumption DEF Exists, Status
<1>9. \A k \in Jobs : Onto(k)
  BY <1>2, <1>5, <1>7, <1>8 DEF Onto
<1> QED
  BY <1>1, <1>9, CallFiles DEF Amid

\* Pause, resume and cancel give the job another status and do nothing else.
LEMMA StatusFiles ==
  ASSUME IInv, FilesInv, NEW j \in Jobs, Pause(j) \/ Resume(j) \/ Cancel(j)
  PROVE  FilesInv'
<1>1. TypeOK /\ cp' = cp /\ OutputsStand /\ w' = w
  BY DEF Pause, Resume, Cancel, files, OutputsStand, IInv
<1>2. Exists(j)
  BY BatchAssumption DEF Pause, Resume, Cancel, Status, Statuses
<1>3. PICK status \in {"paused", "running", "cancelled"} : Set(j, status)
  BY DEF Pause, Resume, Cancel
<1>4. \A k \in Jobs : Onto(k)
  BY <1>1, <1>2, <1>3, SetOnto DEF Statuses
<1> QED
  BY <1>1, <1>4, CallFiles DEF Amid

LEMMA CleanupFiles ==
  ASSUME IInv, FilesInv, Cleanup
  PROVE  FilesInv'
<1>1. cp' = cp /\ OutputsStand /\ w' = w
  BY DEF Cleanup, files, OutputsStand
<1>2. PICK scope \in Scopes :
        job' = [j \in Jobs |-> IF Removable(j, scope) THEN Gone ELSE job[j]]
  BY DEF Cleanup
<1>3. ASSUME NEW k \in Jobs
      PROVE  Onto(k)
  <2>1. CASE ~Removable(k, scope)
    BY <1>2, <2>1 DEF Onto
  <2>2. CASE Removable(k, scope)
    <3>1. ~Alive(k) /\ job'[k] = Gone
      BY <1>2, <2>2 DEF Removable, Alive
    <3>2. Nobody(k) /\ job'[k] # None /\ Status(k)' # "completed"
      BY <3>1, NobodyOn, BatchAssumption DEF Nobody, Status, Exists, Statuses
    <3> QED
      BY <3>1, <3>2 DEF Onto
  <2> QED
    BY <2>1, <2>2
<1> QED
  BY <1>1, <1>3, CallFiles DEF Amid

LEMMA InitFiles == Init => FilesInv
<1>1. SUFFICES ASSUME Init PROVE FilesInv
  OBVIOUS
<1>2. \A j \in Jobs : job[j] = None /\ ~Exists(j) /\ \A i \in 1..MaxChunks : cp[j][i] = None
  BY <1>1 DEF Init, Exists
<1>3. \A j \in Jobs : Checkpointed(j) /\ Finished(j)
  BY <1>2, BatchAssumption DEF Checkpointed, Finished, Status, Statuses
<1>4. \A t \in Threads : Resumed(t) /\ Gathered(t) /\ Delivered(t)
  BY <1>1 DEF Init, Busy, Resumed, Gathered, Delivered
<1> QED
  BY <1>3, <1>4 DEF FilesInv

LEMMA NextFiles == IInv /\ FilesInv /\ [Next]_vars => FilesInv'
<1>1. SUFFICES ASSUME IInv, FilesInv, [Next]_vars PROVE FilesInv'
  OBVIOUS
<1>2. CASE \E j \in Jobs : Call(j)
  BY <1>1, <1>2, CreateFiles, RouteFiles, StartFiles, AutomaticFiles, StatusFiles, Zenon
     DEF Call
<1>3. CASE \E t \in Threads : Step(t)
  BY <1>1, <1>3, StepFiles, Zenon
<1>4. CASE Cleanup
  BY <1>1, <1>4, CleanupFiles
<1>5. ASSUME job' = job, cp' = cp, OutputsStand, \A u \in Threads : Amid(u)
      PROVE  FilesInv'
  BY <1>1, <1>5, CallFiles DEF Onto
<1>6. CASE \E f \in Files : Edit(f)
  BY <1>5, <1>6 DEF Edit, OutputsStand, Amid
<1>7. CASE Restart
  <2>1. out \in [Files -> Outputs \cup {None}]
    BY <1>1 DEF IInv, TypeOK
  <2>2. OutputsStand
    BY <1>7, <2>1, ClosedStands DEF Restart, OutputsStand
  <2> QED
    BY <1>5, <1>7, <2>2 DEF Restart, Amid, Busy
<1>8. CASE UNCHANGED vars
  BY <1>5, <1>8 DEF vars, OutputsStand, Amid
<1> QED
  BY <1>1, <1>2, <1>3, <1>4, <1>6, <1>7, <1>8, Zenon DEF Next

LEMMA AlwaysFiles == Spec => []FilesInv
<1>1. Init => IInv /\ FilesInv
  BY InitHolds, InitFiles
<1>2. (IInv /\ FilesInv) /\ [Next]_vars => (IInv /\ FilesInv)'
  BY NextKeeps, NextFiles
<1> QED
  BY <1>1, <1>2, PTL DEF Spec

-----------------------------------------------------------------------------
(* The outputs.  OutputsInv is inductive beside IInv and FilesInv: who has a *)
(* file open is about to write it, two workers between opening and replacing *)
(* are seen by clash, and without a clash the temporary file is that of the  *)
(* one worker there and the output is whole or comes from a stale run.       *)

\* A file of f comes from a job on f that has been created.
Known(o, f) == o # None => FileOf[o.by] = f /\ job[o.by] # None

Opened(f) ==
  /\ Writers(tmp[f]) \cap Writers(out[f]) = {}
  /\ \A t \in Writers(tmp[f]) \cup Writers(out[f]) : Writing(t, f) /\ w[t].pc = "write"

Sound(o) == Whole(o.text) \/ o.stale

\* What the one worker between opening and replacing finds beside the output
Prepared(t, f) ==
  IF w[t].pc = "write" THEN t \in tmp[f].open /\ tmp[f].text = <<>> ELSE Sound(tmp[f])

Apart(f) ==
  /\ \A t, u \in Threads : Writing(t, f) /\ Writing(u, f) => t = u
  /\ Writers(out[f]) = {}
  /\ out[f] # None => Sound(out[f])
  /\ \A t \in Threads : Writing(t, f) /\ tmp[f] # None => Prepared(t, f)

Shared(f) ==
  \E j, k \in Jobs : j # k /\ FileOf[j] = f /\ FileOf[k] = f /\ job[j] # None /\ job[k] # None

Composed(t) == At(t, "write") => Whole(w[t].text) \/ w[t].stale

FileInv(f) ==
  /\ Known(tmp[f], f) /\ Known(out[f], f) /\ Opened(f)
  /\ IF clash[f] THEN Shared(f) ELSE Apart(f)

OutputsInv == /\ \A f \in Files : FileInv(f)
              /\ \A t \in Threads : Composed(t)

\* A job that was created is never created again
Lasting == \A k \in Jobs : job[k] # None => job'[k] # None

LEMMA SharedLasts ==
  ASSUME Lasting, NEW f \in Files, Shared(f)
  PROVE  Shared(f)'
  BY DEF Lasting, Shared

\* A file on which nothing is written and no worker comes or goes
LEMMA SameFile ==
  ASSUME IInv, OutputsInv, Lasting, NEW f \in Files,
         tmp'[f] = tmp[f], out'[f] = out[f], clash'[f] = clash[f],
         \A u \in Threads : w'[u] = w[u] \/ (~Writing(u, f) /\ ~Writing(u, f)')
  PROVE  FileInv(f)'
<1>1. FileInv(f) /\ tmp[f] \in Outputs \cup {None} /\ out[f] \in Outputs \cup {None}
  BY DEF OutputsInv, IInv, TypeOK
<1>2. \A u \in Threads : /\ Writing(u, f)' <=> Writing(u, f)
                         /\ Writing(u, f) => w'[u] = w[u]
  BY DEF Writing, Busy
<1>3. Known(tmp[f], f)' /\ Known(out[f], f)'
  BY <1>1 DEF FileInv, Known, Lasting, Outputs
<1>4. Writers(tmp[f]) \in SUBSET Threads /\ Writers(out[f]) \in SUBSET Threads
  BY <1>1 DEF Writers, Outputs
<1>5. Opened(f)'
  <2>1. Writers(tmp[f])' = Writers(tmp[f]) /\ Writers(out[f])' = Writers(out[f])
    BY DEF Writers
  <2> QED
    BY <1>1, <1>2, <1>4, <2>1 DEF FileInv, Opened
<1>6. ~clash[f] => Apart(f)'
  <2>1. SUFFICES ASSUME ~clash[f] PROVE Apart(f)'
    OBVIOUS
  <2>2. Apart(f) /\ Writers(out[f])' = Writers(out[f])
    BY <1>1, <2>1 DEF FileInv, Writers
  <2>3. out'[f] # None => Sound(out[f])'
    BY <2>2 DEF Apart, Sound
  <2>4. ASSUME NEW u \in Threads, Writing(u, f)', tmp'[f] # None PROVE Prepared(u, f)'
    BY <1>2, <2>2, <2>4 DEF Apart, Prepared, Sound
  <2> QED
    BY <1>2, <2>2, <2>3, <2>4 DEF Apart
<1> QED
  BY <1>1, <1>3, <1>5, <1>6, SharedLasts DEF FileInv

\* A step of thread t on its job, for the file of which the invariant is shown
LEMMA OwnFile ==
  ASSUME IInv, OutputsInv, NEW t \in Threads, NEW j \in Jobs, w[t].job = j, Busy(t), Step(t),
         NEW f \in Files, f = FileOf[j], ~Busy(t)' \/ w'[t].job = j,
         \A g \in Files \ {f} : tmp'[g] = tmp[g] /\ out'[g] = out[g] /\ clash'[g] = clash[g],
         FileInv(f)', Composed(t)'
  PROVE  OutputsInv'
<1>1. StepOf({t}, j) /\ Exists(j)'
  BY StepTouches
<1>2. Lasting
  BY <1>1 DEF Lasting, StepOf, OnlyJob, Exists
<1>3. \A u \in Threads \ {t} : w'[u] = w[u]
  BY <1>1 DEF StepOf
<1>4. ASSUME NEW g \in Files \ {f} PROVE FileInv(g)'
  <2>1. ~Writing(t, g) /\ ~Writing(t, g)'
    BY DEF Writing
  <2> QED
    BY <1>2, <1>3, <2>1, SameFile
<1>5. \A u \in Threads \ {t} : Composed(u)'
  BY <1>3 DEF OutputsInv, Composed, At, Busy
<1> QED
  BY <1>4, <1>5 DEF OutputsInv

Between == {"write", "replace"}

\* A step of a worker that is not between opening and replacing
LEMMA QuietStep ==
  ASSUME IInv, OutputsInv, NEW t \in Threads, NEW j \in Jobs, w[t].job = j, Busy(t), Step(t),
         tmp' = tmp, out' = out, clash' = clash, w[t].pc \notin Between,
         ~Busy(t)' \/ (w'[t].job = j /\ w'[t].pc \notin Between)
  PROVE  OutputsInv'
<1>1. PICK f \in Files : f = FileOf[j]
  BY BatchAssumption
<1>2. StepOf({t}, j) /\ Exists(j)'
  BY StepTouches
<1>3. Lasting /\ \A u \in Threads \ {t} : w'[u] = w[u]
  BY <1>2 DEF Lasting, StepOf, OnlyJob, Exists
<1>4. ~Writing(t, f) /\ ~Writing(t, f)'
  BY DEF Writing, Between
<1>5. FileInv(f)'
  BY <1>3, <1>4, SameFile
<1>6. Composed(t)'
  BY DEF Composed, At, Between
<1> QED
  BY <1>1, <1>5, <1>6, OwnFile

LEMMA QuietOutputs ==
  ASSUME IInv, OutputsInv, NEW t \in Threads, NEW j \in Jobs, w[t].job = j, Step(t),
         \/ Begin(t) \/ BeginUnsaved(t) \/ Prepare(t) \/ Reuse(t) \/ Poll(t) \/ Work(t)
         \/ Progress(t) \/ Answer(t) \/ Complete(t) \/ Raise(t) \/ Fail(t) \/ Close(t)
  PROVE  OutputsInv'
<1>1. Busy(t) /\ tmp' = tmp /\ out' = out /\ clash' = clash
  BY DEF Begin, BeginUnsaved, Prepare, Reuse, Poll, Work, Progress, Answer, Complete, Raise,
         Fail, Close, At, files
<1>2. TypeOK /\ w[t] \in Workers /\ w \in [Threads -> {Idle} \cup Workers]
  BY <1>1, AtWork DEF TypeOK
<1>3. w[t].pc \notin Between
  BY DEF Begin, BeginUnsaved, Prepare, Reuse, Poll, Work, Progress, Answer, Complete, Raise,
         Fail, Close, At, Between
<1>4. ~Busy(t)' \/ (w'[t].job = j /\ w'[t].pc \notin Between)
  <2>1. ASSUME NEW r, w' = [w EXCEPT ![t] = r], r.job = j, r.pc \notin Between
        PROVE  w'[t].job = j /\ w'[t].pc \notin Between
    BY <1>2, <2>1
  <2>2. ASSUME NEW pc \in Places \ Between, GoTo(t, pc)
        PROVE  w'[t].job = j /\ w'[t].pc \notin Between
    BY <1>1, <1>2, <2>2, WentOn
  <2>3. CASE Begin(t)
    <3>1. PICK r : r = [w[t] EXCEPT !.pc = "prepare", !.prev = job[j].plan, !.stale = Stale(j)]
      OBVIOUS
    <3>2. r.job = j /\ r.pc = "prepare" /\ w' = [w EXCEPT ![t] = r]
      BY <1>2, <2>3, <3>1 DEF Workers, Begin
    <3> QED
      BY <2>1, <3>2 DEF Between
  <2>4. CASE BeginUnsaved(t) \/ Close(t)
    <3>1. GoTo(t, "fail") \/ w' = [w EXCEPT ![t] = Idle]
      BY <2>4 DEF BeginUnsaved, Close
    <3>2. CASE GoTo(t, "fail")
      BY <2>2, <3>2 DEF Places, Between
    <3>3. CASE w' = [w EXCEPT ![t] = Idle]
      BY <1>2, <3>3 DEF Busy
    <3> QED
      BY <3>1, <3>2, <3>3
  <2>5. CASE Prepare(t)
    <3>1. PICK v : \E entry \in Entries(t, v) : w' = [w EXCEPT ![t] = entry]
      BY <2>5 DEF Prepare
    <3>2. PICK entry \in Entries(t, v) : w' = [w EXCEPT ![t] = entry]
      BY <3>1
    <3>3. entry.job = j /\ entry.pc \in {"poll", "assemble"}
      BY <1>2, <3>2 DEF Entries, Workers, Turn
    <3> QED
      BY <2>1, <3>2, <3>3 DEF Between
  <2>6. CASE Reuse(t) \/ Progress(t)
    <3>1. w[t].pc \in InLoop
      BY <2>6 DEF Reuse, Progress, At, InLoop
    <3>2. PICK o \in Workers : o = Onward(t) /\ o.job = j /\ o.pc \in {"poll", "assemble"}
      BY <1>1, <3>1, OnwardFields
    <3>3. CASE Progress(t)
      BY <2>1, <3>2, <3>3 DEF Progress, Between
    <3>4. CASE Reuse(t)
      <4>1. PICK text : w' = [w EXCEPT ![t] = [o EXCEPT !.text = text]]
        BY <3>2, <3>4 DEF Reuse
      <4>2. PICK r : r = [o EXCEPT !.text = text]
        OBVIOUS
      <4>3. r.job = j /\ r.pc \in {"poll", "assemble"} /\ w' = [w EXCEPT ![t] = r]
        BY <3>2, <4>1, <4>2 DEF Workers
      <4> QED
        BY <2>1, <4>3 DEF Between
    <3> QED
      BY <2>6, <3>3, <3>4
  <2>7. CASE Work(t)
    <3>1. PICK text : w' = [w EXCEPT ![t] = [w[t] EXCEPT !.pc = "progress", !.text = text]]
      BY <1>2, <2>7 DEF Work
    <3>2. PICK r : r = [w[t] EXCEPT !.pc = "progress", !.text = text]
      OBVIOUS
    <3>3. r.job = j /\ r.pc = "progress" /\ w' = [w EXCEPT ![t] = r]
      BY <1>2, <3>1, <3>2 DEF Workers
    <3> QED
      BY <2>1, <3>3 DEF Between
  <2>8. CASE Poll(t) \/ Answer(t) \/ Complete(t) \/ Raise(t) \/ Fail(t)
    <3>1. \E pc \in {"close", "work", "complete", "fail"} : GoTo(t, pc)
      BY <2>8 DEF Poll, Answer, Complete, Raise, Fail
    <3> QED
      BY <2>2, <3>1 DEF Places, Between
  <2> QED
    BY <2>3, <2>4, <2>5, <2>6, <2>7, <2>8
<1> QED
  BY <1>1, <1>3, <1>4, QuietStep

\* The other threads write the file after a step of thread t as before it
LEMMA OtherWriters ==
  ASSUME NEW t \in Threads, NEW f \in Files, \A u \in Threads \ {t} : w'[u] = w[u]
  PROVE  \A u \in Threads \ {t} : Writing(u, f)' <=> Writing(u, f)
  BY DEF Writing, Busy

\* What holds around a step of a worker that opens, writes, replaces or removes
LEMMA FileStep ==
  ASSUME IInv, OutputsInv, NEW t \in Threads, NEW j \in Jobs, w[t].job = j, Busy(t), Step(t),
         NEW f \in Files, f = FileOf[j]
  PROVE  /\ TypeOK /\ w[t] \in Workers /\ Lasting /\ FileInv(f) /\ Composed(t)
         /\ Exists(j) /\ Exists(j)' /\ FileOf[j] = f
         /\ tmp \in [Files -> Outputs \cup {None}] /\ out \in [Files -> Outputs \cup {None}]
         /\ clash \in [Files -> BOOLEAN]
         /\ tmp[f] \in Outputs \cup {None} /\ out[f] \in Outputs \cup {None}
         /\ Writers(tmp[f]) \in SUBSET Threads /\ Writers(out[f]) \in SUBSET Threads
         /\ \A u \in Threads \ {t} : w'[u] = w[u] /\ (Writing(u, f)' <=> Writing(u, f))
<1>1. StepOf({t}, j) /\ Exists(j)' /\ TypeOK /\ w[t] \in Workers /\ Exists(j)
  BY StepTouches, AtWork
<1>2. Lasting /\ \A u \in Threads \ {t} : w'[u] = w[u]
  BY <1>1 DEF Lasting, StepOf, OnlyJob, Exists
<1>3. \A u \in Threads \ {t} : Writing(u, f)' <=> Writing(u, f)
  BY <1>2, OtherWriters
<1>4. tmp[f] \in Outputs \cup {None} /\ out[f] \in Outputs \cup {None}
  BY <1>1 DEF TypeOK
<1>5. Writers(tmp[f]) \in SUBSET Threads /\ Writers(out[f]) \in SUBSET Threads
  BY <1>4 DEF Writers, Outputs
<1> QED
  BY <1>1, <1>2, <1>3, <1>4, <1>5 DEF OutputsInv, TypeOK

LEMMA AssembleOutputs ==
  ASSUME IInv, FilesInv, OutputsInv, NEW t \in Threads, NEW j \in Jobs, w[t].job = j,
         Assemble(t), Step(t)
  PROVE  OutputsInv'
<1>1. At(t, "assemble") /\ Busy(t) /\ w[t].pc = "assemble" /\ ~w[t].analysis /\ out' = out
  BY DEF Assemble, At
<1>2. PICK f \in Files : f = FileOf[j]
  BY BatchAssumption
<1>3. /\ TypeOK /\ w[t] \in Workers /\ Lasting /\ FileInv(f) /\ Exists(j) /\ Exists(j)'
      /\ FileOf[j] = f
      /\ tmp \in [Files -> Outputs \cup {None}] /\ out \in [Files -> Outputs \cup {None}]
      /\ clash \in [Files -> BOOLEAN]
      /\ Writers(tmp[f]) \in SUBSET Threads /\ Writers(out[f]) \in SUBSET Threads
      /\ \A u \in Threads \ {t} : w'[u] = w[u] /\ (Writing(u, f)' <=> Writing(u, f))
  BY <1>1, <1>2, FileStep
<1>4. PICK o : o = [by |-> j, text |-> <<>>, stale |-> w[t].stale,
                    open |-> Writers(tmp[f]) \cup {t}]
  OBVIOUS
<1>5. o \in Outputs /\ o # None
  <2>1. PICK ts \in SUBSET Threads, stale \in BOOLEAN :
          ts = Writers(tmp[f]) \cup {t} /\ stale = w[t].stale
    BY <1>3 DEF Workers
  <2>2. o = [by |-> j, text |-> <<>>, stale |-> stale, open |-> ts]
    BY <1>4, <2>1
  <2>3. o \in Outputs
    BY <2>2 DEF Outputs
  <2> QED
    BY <2>3, BatchAssumption
<1>17. PICK c \in BOOLEAN : c <=> (clash[f] \/ \E u \in Threads \ {t} : Writing(u, f))
  OBVIOUS
<1>6. /\ tmp'[f] = o /\ \A g \in Files \ {f} : tmp'[g] = tmp[g]
      /\ clash'[f] = c /\ \A g \in Files \ {f} : clash'[g] = clash[g]
  <2>1. tmp' = [tmp EXCEPT ![f] = o]
    BY <1>2, <1>4 DEF Assemble
  <2>2. clash' = [clash EXCEPT ![f] = c]
    BY <1>2, <1>3, <1>17 DEF Assemble
  <2> QED
    BY <1>3, <2>1, <2>2
<1>7. /\ Busy(t)' /\ w'[t].pc = "write" /\ w'[t].job = j
      /\ w'[t].text = Assembled(t) /\ w'[t].stale = w[t].stale
  <2>1. PICK r : r = [w[t] EXCEPT !.pc = "write", !.text = Assembled(t)]
    OBVIOUS
  <2>2. w' = [w EXCEPT ![t] = r]
    BY <2>1 DEF Assemble
  <2>3. /\ r.pc = "write" /\ r.job = j /\ r.text = Assembled(t) /\ r.stale = w[t].stale
        /\ r # Idle
    BY <1>3, <2>1 DEF Workers, Idle
  <2>4. w'[t] = r
    BY <1>3, <2>2 DEF TypeOK
  <2> QED
    BY <2>3, <2>4 DEF Busy
<1>8. Composed(t)'
  BY <1>1, <1>3, <1>7, AssembledWhole DEF Composed, Workers
<1>9. Writing(t, f)' /\ ~(Writing(t, f) /\ w[t].pc = "write") /\ ~Writing(t, f)
  BY <1>1, <1>2, <1>7 DEF Writing
<1>10. Writers(tmp[f])' = Writers(tmp[f]) \cup {t} /\ Writers(out[f])' = Writers(out[f])
  BY <1>1, <1>4, <1>5, <1>6 DEF Writers
<1>11. t \notin Writers(tmp[f]) /\ t \notin Writers(out[f])
  BY <1>3, <1>9 DEF FileInv, Opened
<1>12. Opened(f)'
  BY <1>3, <1>7, <1>9, <1>10, <1>11 DEF FileInv, Opened
<1>13. Known(tmp[f], f)' /\ Known(out[f], f)'
  <2>1. out[f] # None => out[f].by \in Jobs
    BY <1>3 DEF Outputs
  <2> QED
    BY <1>1, <1>3, <1>4, <1>5, <1>6, <2>1 DEF FileInv, Known, Lasting, Exists
<1>14. ASSUME c PROVE FileInv(f)'
  <2>1. ASSUME clash[f] PROVE Shared(f)'
    BY <1>3, <2>1, SharedLasts DEF FileInv
  <2>2. ASSUME NEW u \in Threads \ {t}, Writing(u, f) PROVE Shared(f)'
    <3>1. PICK k \in Jobs : k = w[u].job /\ Exists(k)
      BY <2>2, AtWork DEF Writing
    <3>2. k # j /\ FileOf[k] = f
      BY <1>1, <2>2, <3>1, AtWork DEF Writing
    <3>3. Shared(f)
      BY <1>3, <3>1, <3>2 DEF Shared, Exists
    <3> QED
      BY <1>3, <3>3, SharedLasts
  <2>3. Shared(f)'
    BY <1>3, <1>17, <1>14, <2>1, <2>2
  <2> QED
    BY <1>6, <1>12, <1>13, <1>14, <2>3 DEF FileInv
<1>15. ASSUME ~c PROVE FileInv(f)'
  <2>1. ~clash[f] /\ \A u \in Threads \ {t} : ~Writing(u, f)
    BY <1>3, <1>17, <1>15
  <2>2. Apart(f) /\ \A u \in Threads : Writing(u, f)' => u = t
    BY <1>3, <2>1 DEF FileInv
  <2>3. Prepared(t, f)'
    BY <1>4, <1>6, <1>7 DEF Prepared
  <2>4. out'[f] # None => Sound(out[f])'
    BY <1>1, <2>2 DEF Apart, Sound
  <2>5. Apart(f)'
    BY <1>10, <2>2, <2>3, <2>4 DEF Apart
  <2> QED
    BY <1>6, <1>12, <1>13, <1>15, <2>5 DEF FileInv
<1>16. FileInv(f)'
  BY <1>14, <1>15
<1> QED
  BY <1>1, <1>2, <1>6, <1>7, <1>8, <1>16, OwnFile

LEMMA WriteOutputs ==
  ASSUME IInv, OutputsInv, NEW t \in Threads, NEW j \in Jobs, w[t].job = j, Write(t), Step(t)
  PROVE  OutputsInv'
<1>1. At(t, "write") /\ Busy(t) /\ w[t].pc = "write" /\ GoTo(t, "replace") /\ clash' = clash
  BY DEF Write, At
<1>2. PICK f \in Files : f = FileOf[j]
  BY BatchAssumption
<1>3. /\ TypeOK /\ w[t] \in Workers /\ Lasting /\ FileInv(f) /\ Composed(t) /\ Exists(j)
      /\ Exists(j)' /\ FileOf[j] = f
      /\ tmp \in [Files -> Outputs \cup {None}] /\ out \in [Files -> Outputs \cup {None}]
      /\ clash \in [Files -> BOOLEAN]
      /\ tmp[f] \in Outputs \cup {None} /\ out[f] \in Outputs \cup {None}
      /\ Writers(tmp[f]) \in SUBSET Threads /\ Writers(out[f]) \in SUBSET Threads
      /\ \A u \in Threads \ {t} : w'[u] = w[u] /\ (Writing(u, f)' <=> Writing(u, f))
  BY <1>1, <1>2, FileStep
<1>4. Busy(t)' /\ w'[t].pc = "replace" /\ w'[t].job = j
  BY <1>1, <1>3, WentOn DEF Places
<1>5. Writing(t, f)' /\ Writing(t, f) /\ Composed(t)'
  BY <1>1, <1>2, <1>4 DEF Writing, Composed, At
<1>6. /\ Writers(tmp[f]) \cap Writers(out[f]) = {}
      /\ \A u \in Writers(tmp[f]) \cup Writers(out[f]) : Writing(u, f) /\ w[u].pc = "write"
      /\ Known(tmp[f], f) /\ Known(out[f], f)
  BY <1>3 DEF FileInv, Opened
<1>7. \A u \in (Writers(tmp[f]) \cup Writers(out[f])) \ {t} : Writing(u, f)' /\ w'[u].pc = "write"
  BY <1>3, <1>6
<1>8. ASSUME NEW o \in Outputs, NEW n \in Written(t, o)
      PROVE  /\ n \in Outputs /\ n # None /\ n.by = j /\ n.stale = w[t].stale
             /\ Writers(n) = Writers(o) \ {t} /\ (o.text = <<>> => n.text = w[t].text)
  <2>1. n \in Outputs
    BY <1>3, <1>8, WrittenTyped
  <2>2. n # None /\ o # None
    BY <2>1, BatchAssumption
  <2>3. n.by = j /\ n.stale = w[t].stale /\ n.open = o.open \ {t}
        /\ (o.text = <<>> => n.text = w[t].text)
    BY <1>8 DEF Written
  <2> QED
    BY <2>1, <2>2, <2>3 DEF Writers
<1>9. CASE t \in Writers(tmp[f]) /\ out' = out
           /\ \E o \in Written(t, tmp[f]) : tmp' = [tmp EXCEPT ![f] = o]
  <2>1. tmp[f] \in Outputs
    BY <1>3, <1>9 DEF Writers
  <2>2. PICK n \in Outputs :
          /\ tmp' = [tmp EXCEPT ![f] = n] /\ n # None /\ n.by = j /\ n.stale = w[t].stale
          /\ Writers(n) = Writers(tmp[f]) \ {t} /\ (tmp[f].text = <<>> => n.text = w[t].text)
    BY <1>8, <1>9, <2>1
  <2>3. tmp'[f] = n /\ \A g \in Files \ {f} : tmp'[g] = tmp[g]
    BY <1>3, <2>2
  <2>4. Writers(tmp[f])' = Writers(tmp[f]) \ {t} /\ Writers(out[f])' = Writers(out[f])
    BY <1>9, <2>2, <2>3 DEF Writers
  <2>5. t \notin Writers(out[f])
    BY <1>6, <1>9
  <2>6. Opened(f)'
    BY <1>6, <1>7, <2>4, <2>5 DEF Opened
  <2>7. Known(tmp[f], f)' /\ Known(out[f], f)'
    <3>1. out[f] # None => out[f].by \in Jobs
      BY <1>3 DEF Outputs
    <3> QED
      BY <1>3, <1>6, <1>9, <2>2, <2>3, <3>1 DEF Known, Lasting, Exists
  <2>8. ~clash[f] => Apart(f)'
    <3>1. SUFFICES ASSUME ~clash[f] PROVE Apart(f)'
      OBVIOUS
    <3>2. Apart(f)
      BY <1>3, <3>1 DEF FileInv
    <3>3. \A u \in Threads : Writing(u, f)' => u = t
      BY <1>3, <1>5, <3>2 DEF Apart
    <3>4. tmp[f].text = <<>>
      BY <1>1, <1>5, <2>1, <3>2, BatchAssumption DEF Apart, Prepared
    <3>5. Prepared(t, f)'
      BY <1>1, <1>3, <1>4, <2>2, <2>3, <3>4 DEF Prepared, Sound, Composed
    <3>6. out'[f] # None => Sound(out[f])'
      BY <1>9, <3>2 DEF Apart, Sound
    <3> QED
      BY <2>4, <3>2, <3>3, <3>5, <3>6 DEF Apart
  <2>9. FileInv(f)'
    BY <1>1, <1>3, <2>6, <2>7, <2>8, SharedLasts DEF FileInv
  <2> QED
    BY <1>1, <1>2, <1>4, <1>5, <1>9, <2>3, <2>9, OwnFile
<1>10. CASE t \in Writers(out[f]) /\ tmp' = tmp
            /\ \E o \in Written(t, out[f]) : out' = [out EXCEPT ![f] = o]
  <2>1. out[f] \in Outputs
    BY <1>3, <1>10 DEF Writers
  <2>2. PICK n \in Outputs :
          /\ out' = [out EXCEPT ![f] = n] /\ n # None /\ n.by = j
          /\ Writers(n) = Writers(out[f]) \ {t}
    BY <1>8, <1>10, <2>1
  <2>3. out'[f] = n /\ \A g \in Files \ {f} : out'[g] = out[g]
    BY <1>3, <2>2
  <2>4. Writers(out[f])' = Writers(out[f]) \ {t} /\ Writers(tmp[f])' = Writers(tmp[f])
    BY <1>10, <2>2, <2>3 DEF Writers
  <2>5. t \notin Writers(tmp[f])
    BY <1>6, <1>10
  <2>6. Opened(f)'
    BY <1>6, <1>7, <2>4, <2>5 DEF Opened
  <2>7. Known(tmp[f], f)' /\ Known(out[f], f)'
    <3>1. tmp[f] # None => tmp[f].by \in Jobs
      BY <1>3 DEF Outputs
    <3> QED
      BY <1>3, <1>6, <1>10, <2>2, <2>3, <3>1 DEF Known, Lasting, Exists
  <2>8. clash[f]
    BY <1>3, <1>10 DEF FileInv, Apart
  <2>9. FileInv(f)'
    BY <1>1, <1>3, <2>6, <2>7, <2>8, SharedLasts DEF FileInv
  <2> QED
    BY <1>1, <1>2, <1>4, <1>5, <1>10, <2>3, <2>9, OwnFile
<1>11. CASE t \notin Writers(tmp[f]) \cup Writers(out[f]) /\ tmp' = tmp /\ out' = out
  <2>1. Writers(out[f])' = Writers(out[f]) /\ Writers(tmp[f])' = Writers(tmp[f])
    BY <1>11 DEF Writers
  <2>2. Opened(f)'
    BY <1>6, <1>7, <1>11, <2>1 DEF Opened
  <2>3. Known(tmp[f], f)' /\ Known(out[f], f)'
    BY <1>3, <1>6, <1>11 DEF Known, Lasting, Outputs
  <2>4. ~clash[f] => Apart(f)'
    <3>1. SUFFICES ASSUME ~clash[f] PROVE Apart(f)'
      OBVIOUS
    <3>2. Apart(f)
      BY <1>3, <3>1 DEF FileInv
    <3>3. \A u \in Threads : Writing(u, f)' => u = t
      BY <1>3, <1>5, <3>2 DEF Apart
    <3>4. tmp[f] = None
      BY <1>1, <1>5, <1>11, <3>2 DEF Apart, Prepared, Writers
    <3>5. out'[f] # None => Sound(out[f])'
      BY <1>11, <3>2 DEF Apart, Sound
    <3> QED
      BY <1>11, <2>1, <3>2, <3>3, <3>4, <3>5 DEF Apart
  <2>5. FileInv(f)'
    BY <1>1, <1>3, <2>2, <2>3, <2>4, SharedLasts DEF FileInv
  <2> QED
    BY <1>1, <1>2, <1>4, <1>5, <1>11, <2>5, OwnFile
<1> QED
  BY <1>2, <1>9, <1>10, <1>11 DEF Write

LEMMA ClosedFields ==
  ASSUME NEW o \in Outputs \cup {None}, NEW ts
  PROVE  /\ Writers(Closed(o, ts)) = Writers(o) \ ts
         /\ Closed(o, ts) = None <=> o = None
         /\ o # None => /\ Closed(o, ts).by = o.by /\ Closed(o, ts).text = o.text
                        /\ Closed(o, ts).stale = o.stale
                        /\ Closed(o, ts).open = o.open \ ts
         /\ Writers(o) \cap ts = {} => Closed(o, ts) = o
<1>1. CASE o = None
  BY <1>1 DEF Closed, Writers
<1>2. CASE o # None
  <2>1. o \in Outputs /\ Closed(o, ts) # None
    BY <1>2, ClosedStands
  <2>2. PICK c : c = [o EXCEPT !.open = o.open \ ts]
    OBVIOUS
  <2>3. c = Closed(o, ts)
    BY <1>2, <2>2 DEF Closed
  <2>4. c.by = o.by /\ c.text = o.text /\ c.stale = o.stale /\ c.open = o.open \ ts
    BY <2>1, <2>2 DEF Outputs
  <2>5. o.open \cap ts = {} => c = o
    <3>1. SUFFICES ASSUME o.open \cap ts = {} PROVE c = o
      OBVIOUS
    <3>2. o.open \ ts = o.open
      BY <3>1
    <3> QED
      BY <2>1, <2>2, <3>2 DEF Outputs
  <2> QED
    BY <1>2, <2>1, <2>3, <2>4, <2>5 DEF Writers
<1> QED
  BY <1>1, <1>2

LEMMA WriteFailsOutputs ==
  ASSUME IInv, OutputsInv, NEW t \in Threads, NEW j \in Jobs, w[t].job = j, WriteFails(t), Step(t)
  PROVE  OutputsInv'
<1>1. Busy(t) /\ GoTo(t, "drop") /\ clash' = clash
  BY DEF WriteFails, At
<1>2. PICK f \in Files : f = FileOf[j]
  BY BatchAssumption
<1>3. /\ TypeOK /\ w[t] \in Workers /\ Lasting /\ FileInv(f)
      /\ tmp \in [Files -> Outputs \cup {None}] /\ out \in [Files -> Outputs \cup {None}]
      /\ tmp[f] \in Outputs \cup {None} /\ out[f] \in Outputs \cup {None}
      /\ Writers(tmp[f]) \in SUBSET Threads /\ Writers(out[f]) \in SUBSET Threads
      /\ \A u \in Threads \ {t} : w'[u] = w[u] /\ (Writing(u, f)' <=> Writing(u, f))
  BY <1>1, <1>2, FileStep
<1>4. Busy(t)' /\ w'[t].pc = "drop" /\ w'[t].job = j
  BY <1>1, <1>3, WentOn DEF Places
<1>5. ~Writing(t, f)' /\ Composed(t)'
  BY <1>4 DEF Writing, Composed, At
<1>6. \A g \in Files : tmp'[g] = Closed(tmp[g], {t}) /\ out'[g] = Closed(out[g], {t})
  BY DEF WriteFails
<1>7. ASSUME NEW g \in Files \ {f} PROVE tmp'[g] = tmp[g] /\ out'[g] = out[g]
  <2>1. tmp[g] \in Outputs \cup {None} /\ out[g] \in Outputs \cup {None}
    BY <1>3
  <2>2. ~Writing(t, g) /\ Opened(g)
    BY <1>2, <1>7 DEF Writing, OutputsInv, FileInv
  <2>3. Writers(tmp[g]) \cap {t} = {} /\ Writers(out[g]) \cap {t} = {}
    BY <2>2 DEF Opened
  <2> QED
    BY <1>6, <2>1, <2>3, ClosedFields
<1>8. /\ Writers(tmp[f])' = Writers(tmp[f]) \ {t} /\ Writers(out[f])' = Writers(out[f]) \ {t}
      /\ tmp'[f] = None <=> tmp[f] = None
      /\ out'[f] = None <=> out[f] = None
      /\ tmp[f] # None => /\ tmp'[f].by = tmp[f].by /\ tmp'[f].text = tmp[f].text
                          /\ tmp'[f].stale = tmp[f].stale /\ tmp'[f].open = tmp[f].open \ {t}
      /\ out[f] # None => /\ out'[f].by = out[f].by /\ out'[f].text = out[f].text
                          /\ out'[f].stale = out[f].stale
  <2>1. tmp'[f] = Closed(tmp[f], {t}) /\ out'[f] = Closed(out[f], {t})
    BY <1>6
  <2>2. Writers(tmp[f])' = Writers(Closed(tmp[f], {t})) /\ Writers(out[f])' = Writers(Closed(out[f], {t}))
    BY <2>1 DEF Writers
  <2> QED
    BY <1>3, <2>1, <2>2, ClosedFields
<1>9. Opened(f)'
  <2>1. /\ Writers(tmp[f]) \cap Writers(out[f]) = {}
        /\ \A u \in Writers(tmp[f]) \cup Writers(out[f]) : Writing(u, f) /\ w[u].pc = "write"
    BY <1>3 DEF FileInv, Opened
  <2>2. \A u \in (Writers(tmp[f]) \cup Writers(out[f])) \ {t} : Writing(u, f)' /\ w'[u].pc = "write"
    BY <1>3, <2>1
  <2> QED
    BY <1>8, <2>1, <2>2 DEF Opened
<1>10. Known(tmp[f], f)' /\ Known(out[f], f)'
  <2>1. /\ tmp[f] # None => tmp[f].by \in Jobs
        /\ out[f] # None => out[f].by \in Jobs
    BY <1>3 DEF Outputs
  <2> QED
    BY <1>3, <1>8, <2>1 DEF FileInv, Known, Lasting
<1>11. ~clash[f] => Apart(f)'
  <2>1. SUFFICES ASSUME ~clash[f] PROVE Apart(f)'
    OBVIOUS
  <2>2. Apart(f)
    BY <1>3, <2>1 DEF FileInv
  <2>3. \A u \in Threads : Writing(u, f)' => u # t /\ Writing(u, f) /\ w'[u] = w[u]
    BY <1>3, <1>5
  <2>4. out'[f] # None => Sound(out[f])'
    BY <1>8, <2>2 DEF Apart, Sound
  <2>5. ASSUME NEW u \in Threads, Writing(u, f)', tmp'[f] # None PROVE Prepared(u, f)'
    <3>1. Prepared(u, f) /\ u # t /\ w'[u] = w[u] /\ tmp[f] # None
      BY <1>8, <2>2, <2>3, <2>5 DEF Apart
    <3> QED
      BY <1>8, <3>1 DEF Prepared, Sound
  <2> QED
    BY <1>8, <2>2, <2>3, <2>4, <2>5 DEF Apart
<1>12. FileInv(f)'
  BY <1>1, <1>3, <1>9, <1>10, <1>11, SharedLasts DEF FileInv
<1> QED
  BY <1>1, <1>2, <1>4, <1>5, <1>7, <1>12, OwnFile

LEMMA ReplaceOutputs ==
  ASSUME IInv, OutputsInv, NEW t \in Threads, NEW j \in Jobs, w[t].job = j, Replace(t), Step(t)
  PROVE  OutputsInv'
<1>1. Busy(t) /\ w[t].pc = "replace" /\ clash' = clash
  BY DEF Replace, At
<1>2. PICK f \in Files : f = FileOf[j]
  BY BatchAssumption
<1>3. /\ TypeOK /\ w[t] \in Workers /\ Lasting /\ FileInv(f)
      /\ tmp \in [Files -> Outputs \cup {None}] /\ out \in [Files -> Outputs \cup {None}]
      /\ tmp[f] \in Outputs \cup {None} /\ out[f] \in Outputs \cup {None}
      /\ Writers(tmp[f]) \in SUBSET Threads /\ Writers(out[f]) \in SUBSET Threads
      /\ \A u \in Threads \ {t} : w'[u] = w[u] /\ (Writing(u, f)' <=> Writing(u, f))
  BY <1>1, <1>2, FileStep
<1>4. PICK pc \in {"unlink", "drop"} : GoTo(t, pc)
  BY DEF Replace
<1>5. Busy(t)' /\ w'[t].pc \in {"unlink", "drop"} /\ w'[t].job = j
  BY <1>1, <1>3, <1>4, WentOn DEF Places
<1>6. Writing(t, f) /\ ~Writing(t, f)' /\ Composed(t)'
  BY <1>1, <1>2, <1>5 DEF Writing, Composed, At
<1>7. /\ Writers(tmp[f]) \cap Writers(out[f]) = {}
      /\ \A u \in Writers(tmp[f]) \cup Writers(out[f]) :
           u # t /\ Writing(u, f)' /\ w'[u].pc = "write"
      /\ Known(tmp[f], f) /\ Known(out[f], f)
  BY <1>1, <1>3 DEF FileInv, Opened
<1>8. /\ tmp[f] # None => tmp[f].by \in Jobs
      /\ out[f] # None => out[f].by \in Jobs
  BY <1>3 DEF Outputs
<1>9. ~clash[f] => Apart(f) /\ \A u \in Threads : ~Writing(u, f)'
  BY <1>3, <1>6 DEF FileInv, Apart
<1>10. CASE tmp' = tmp /\ out' = out
  <2>1. Writers(out[f])' = Writers(out[f]) /\ Writers(tmp[f])' = Writers(tmp[f])
    BY <1>10 DEF Writers
  <2>2. Opened(f)' /\ Known(tmp[f], f)' /\ Known(out[f], f)'
    BY <1>3, <1>7, <1>8, <1>10, <2>1 DEF Opened, Known, Lasting
  <2>3. ~clash[f] => Apart(f)'
    BY <1>9, <1>10, <2>1 DEF Apart, Sound
  <2>4. FileInv(f)'
    BY <1>1, <1>3, <2>2, <2>3, SharedLasts DEF FileInv
  <2> QED
    BY <1>1, <1>2, <1>5, <1>6, <1>10, <2>4, OwnFile
<1>11. CASE /\ tmp[f] # None /\ out' = [out EXCEPT ![f] = tmp[f]]
            /\ tmp' = [tmp EXCEPT ![f] = None]
  <2>1. /\ out'[f] = tmp[f] /\ tmp'[f] = None
        /\ \A g \in Files \ {f} : out'[g] = out[g] /\ tmp'[g] = tmp[g]
    BY <1>3, <1>11
  <2>2. Writers(tmp[f])' = {} /\ Writers(out[f])' = Writers(tmp[f])
    BY <2>1 DEF Writers
  <2>3. Opened(f)' /\ Known(tmp[f], f)' /\ Known(out[f], f)'
    BY <1>3, <1>7, <1>8, <2>1, <2>2 DEF Opened, Known, Lasting
  <2>4. ~clash[f] => Apart(f)'
    <3>1. SUFFICES ASSUME ~clash[f] PROVE Apart(f)'
      OBVIOUS
    <3>2. Writers(tmp[f]) = {}
      BY <1>3, <1>7, <1>9, <3>1
    <3>3. Sound(tmp[f])
      BY <1>1, <1>6, <1>9, <1>11, <3>1 DEF Apart, Prepared
    <3> QED
      BY <1>9, <2>1, <2>2, <3>1, <3>2, <3>3 DEF Apart, Sound
  <2>5. FileInv(f)'
    BY <1>1, <1>3, <2>3, <2>4, SharedLasts DEF FileInv
  <2> QED
    BY <1>1, <1>2, <1>5, <1>6, <2>1, <2>5, OwnFile
<1> QED
  BY <1>2, <1>10, <1>11 DEF Replace

LEMMA UnlinkOutputs ==
  ASSUME IInv, OutputsInv, NEW t \in Threads, NEW j \in Jobs, w[t].job = j, Unlink(t), Step(t)
  PROVE  OutputsInv'
<1>1. Busy(t) /\ w[t].pc \in {"unlink", "drop"} /\ clash' = clash /\ out' = out
  BY DEF Unlink, At
<1>2. PICK f \in Files : f = FileOf[j]
  BY BatchAssumption
<1>3. /\ TypeOK /\ w[t] \in Workers /\ Lasting /\ FileInv(f)
      /\ tmp \in [Files -> Outputs \cup {None}] /\ out \in [Files -> Outputs \cup {None}]
      /\ tmp[f] \in Outputs \cup {None} /\ out[f] \in Outputs \cup {None}
      /\ Writers(tmp[f]) \in SUBSET Threads /\ Writers(out[f]) \in SUBSET Threads
      /\ \A u \in Threads \ {t} : w'[u] = w[u] /\ (Writing(u, f)' <=> Writing(u, f))
  BY <1>1, <1>2, FileStep
<1>4. PICK pc \in {"complete", "fail"} : GoTo(t, pc)
  BY DEF Unlink
<1>5. Busy(t)' /\ w'[t].pc \in {"complete", "fail"} /\ w'[t].job = j
  BY <1>1, <1>3, <1>4, WentOn DEF Places
<1>6. ~Writing(t, f) /\ ~Writing(t, f)' /\ Composed(t)'
  BY <1>1, <1>5 DEF Writing, Composed, At
<1>7. tmp'[f] = None /\ \A g \in Files \ {f} : tmp'[g] = tmp[g]
  BY <1>2, <1>3 DEF Unlink
<1>8. Writers(tmp[f])' = {} /\ Writers(out[f])' = Writers(out[f])
  BY <1>1, <1>7 DEF Writers
<1>9. Opened(f)' /\ Known(tmp[f], f)' /\ Known(out[f], f)'
  <2>1. \A u \in Writers(out[f]) : Writing(u, f)' /\ w'[u].pc = "write"
    BY <1>3, <1>6 DEF FileInv, Opened
  <2>2. out[f] # None => out[f].by \in Jobs
    BY <1>3 DEF Outputs
  <2> QED
    BY <1>1, <1>3, <1>7, <1>8, <2>1, <2>2 DEF FileInv, Opened, Known, Lasting
<1>10. ~clash[f] => Apart(f)'
  <2>1. SUFFICES ASSUME ~clash[f] PROVE Apart(f)'
    OBVIOUS
  <2>2. Apart(f) /\ \A u \in Threads : Writing(u, f)' => Writing(u, f)
    BY <1>3, <1>6, <2>1 DEF FileInv
  <2> QED
    BY <1>1, <1>7, <1>8, <2>2 DEF Apart, Sound
<1>11. FileInv(f)'
  BY <1>1, <1>3, <1>9, <1>10, SharedLasts DEF FileInv
<1> QED
  BY <1>1, <1>2, <1>5, <1>6, <1>7, <1>11, OwnFile

LEMMA StepOutputs ==
  ASSUME IInv, FilesInv, OutputsInv, NEW t \in Threads, Step(t)
  PROVE  OutputsInv'
<1>1. Busy(t)
  BY DEF Step, Begin, BeginUnsaved, Prepare, Reuse, Poll, Work, Progress, Assemble, Answer, Write,
         WriteFails, Replace, Unlink, Complete, Raise, Fail, Close, At
<1>2. PICK j \in Jobs : w[t].job = j
  BY <1>1, AtWork
<1>3. \/ \/ Begin(t) \/ BeginUnsaved(t) \/ Prepare(t) \/ Reuse(t) \/ Poll(t) \/ Work(t)
         \/ Progress(t) \/ Answer(t) \/ Complete(t) \/ Raise(t) \/ Fail(t) \/ Close(t)
      \/ Assemble(t) \/ Write(t) \/ WriteFails(t) \/ Replace(t) \/ Unlink(t)
  BY DEF Step
<1> QED
  BY <1>2, <1>3, QuietOutputs, AssembleOutputs, WriteOutputs, WriteFailsOutputs, ReplaceOutputs,
     UnlinkOutputs, Zenon

\* A step of nobody's thread: at most a thread is spawned that was not at work
LEMMA CallOutputs ==
  ASSUME IInv, OutputsInv, Lasting, tmp' = tmp, out' = out, clash' = clash,
         \A u \in Threads : w'[u] = w[u] \/ (~Busy(u) /\ w'[u].pc = "begin")
  PROVE  OutputsInv'
<1>1. ASSUME NEW f \in Files PROVE FileInv(f)'
  <2>1. \A u \in Threads : w'[u] = w[u] \/ (~Writing(u, f) /\ ~Writing(u, f)')
    BY DEF Writing
  <2> QED
    BY <2>1, SameFile
<1>2. ASSUME NEW u \in Threads PROVE Composed(u)'
  <2>1. CASE w'[u] = w[u]
    BY <2>1 DEF OutputsInv, Composed, At, Busy
  <2>2. CASE w'[u].pc = "begin"
    BY <2>2 DEF Composed, At
  <2> QED
    BY <2>1, <2>2
<1> QED
  BY <1>1, <1>2 DEF OutputsInv

LEMMA SpawnedOutputs ==
  ASSUME TypeOK, NEW j, NEW analysis, Spawned(j, analysis)
  PROVE  \A u \in Threads : w'[u] = w[u] \/ (~Busy(u) /\ w'[u].pc = "begin")
<1>1. PICK t \in Threads : ~Busy(t) /\ w' = [w EXCEPT ![t] = Worker(j, analysis)]
  BY DEF Spawned
<1>2. w'[t] = Worker(j, analysis) /\ \A u \in Threads \ {t} : w'[u] = w[u]
  BY <1>1 DEF TypeOK
<1>3. Worker(j, analysis).pc = "begin"
  BY DEF Worker
<1> QED
  BY <1>1, <1>2, <1>3

LEMMA OutsideOutputs ==
  ASSUME IInv, OutputsInv,
         (\E j \in Jobs : Call(j)) \/ Cleanup \/ (\E f \in Files : Edit(f)) \/ UNCHANGED vars
  PROVE  OutputsInv'
<1>1. TypeOK /\ job \in [Jobs -> {None, Gone} \cup JobRecords]
  BY DEF IInv, TypeOK
<1>2. tmp' = tmp /\ out' = out /\ clash' = clash
  BY DEF Call, Create, Route, Start, Pause, Resume, Automatic, Cancel, Cleanup, Edit, vars, files
<1>3. \A u \in Threads : w'[u] = w[u] \/ (~Busy(u) /\ w'[u].pc = "begin")
  <2>1. w' = w \/ \E j, analysis : Spawned(j, analysis)
    BY DEF Call, Create, Route, Start, Pause, Resume, Automatic, Cancel, Cleanup, Edit, vars,
           NotSpawned
  <2> QED
    BY <1>1, <2>1, SpawnedOutputs
<1>4. Lasting
  <2>1. CASE \E j \in Jobs : Call(j)
    <3>1. PICK j \in Jobs : Call(j)
      BY <2>1
    <3>2. \A k \in Jobs \ {j} : job'[k] = job[k]
      BY <1>1, <3>1
         DEF Call, Create, Route, Start, Pause, Resume, Automatic, Cancel, Set
    <3>3. CASE job[j] = None
      BY <3>2, <3>3 DEF Lasting
    <3>4. CASE job[j] # None
      <4>1. Exists(j) /\ job[j] \in JobRecords
        <5>1. Exists(j)
          BY <3>1, <3>4, BatchAssumption
             DEF Call, Create, Route, Start, Pause, Resume, Automatic, Cancel, Status, Statuses
        <5> QED
          BY <1>1, <5>1, JobFields
      <4>2. job'[j] \in JobRecords
        <5>1. ASSUME NEW status \in Statuses, Set(j, status) PROVE job'[j] \in JobRecords
          BY <1>1, <4>1, <5>1, SetGives DEF Given
        <5>2. CASE Automatic(j)
          <6>1. PICK status \in Statuses :
                  status = IF job[j].status = "paused" THEN "running" ELSE job[j].status
            BY <4>1 DEF JobRecords, Statuses
          <6>2. PICK new : new = [job[j] EXCEPT !.mode = "automatic", !.status = status]
            OBVIOUS
          <6>3. new \in JobRecords /\ job' = [job EXCEPT ![j] = new]
            BY <4>1, <5>2, <6>1, <6>2 DEF JobRecords, Modes, Automatic
          <6> QED
            BY <1>1, <6>3
        <5>3. CASE ~Automatic(j)
          BY <3>1, <3>4, <4>1, <5>1, <5>3
             DEF Call, Create, Route, Start, Pause, Resume, Cancel, Statuses
        <5> QED
          BY <5>2, <5>3
      <4> QED
        BY <3>2, <4>2, BatchAssumption DEF Lasting
    <3> QED
      BY <3>3, <3>4
  <2>2. CASE Cleanup
    BY <2>2, BatchAssumption DEF Cleanup, Lasting
  <2>3. CASE job' = job
    BY <2>3 DEF Lasting
  <2> QED
    BY <2>1, <2>2, <2>3 DEF Edit, vars
<1> QED
  BY <1>2, <1>3, <1>4, CallOutputs

LEMMA RestartOutputs ==
  ASSUME IInv, OutputsInv, Restart
  PROVE  OutputsInv'
<1>1. tmp \in [Files -> Outputs \cup {None}] /\ out \in [Files -> Outputs \cup {None}]
  BY DEF IInv, TypeOK
<1>2. \A t \in Threads : ~Busy(t)'
  BY DEF Restart, Busy
<1>3. ASSUME NEW f \in Files PROVE FileInv(f)'
  <2>1. /\ FileInv(f) /\ tmp[f] \in Outputs \cup {None} /\ out[f] \in Outputs \cup {None}
        /\ Lasting /\ clash' = clash
    BY <1>1 DEF OutputsInv, Restart, Lasting
  <2>2. tmp'[f] = Closed(tmp[f], Threads) /\ out'[f] = Closed(out[f], Threads)
    BY DEF Restart
  <2>3. Writers(tmp[f])' = {} /\ Writers(out[f])' = {}
    <3>1. Writers(tmp[f]) \in SUBSET Threads /\ Writers(out[f]) \in SUBSET Threads
      BY <2>1 DEF Writers, Outputs
    <3>2. Writers(Closed(tmp[f], Threads)) = {} /\ Writers(Closed(out[f], Threads)) = {}
      BY <2>1, <3>1, ClosedFields
    <3> QED
      BY <2>2, <3>2 DEF Writers
  <2>4. /\ tmp'[f] # None => tmp[f] # None /\ tmp'[f].by = tmp[f].by
        /\ out'[f] # None => /\ out[f] # None /\ out'[f].by = out[f].by
                             /\ out'[f].text = out[f].text /\ out'[f].stale = out[f].stale
    BY <2>1, <2>2, ClosedFields
  <2>5. Opened(f)'
    BY <2>3 DEF Opened
  <2>6. Known(tmp[f], f)' /\ Known(out[f], f)'
    BY <2>1, <2>4 DEF FileInv, Known, Lasting, Outputs
  <2>7. \A t \in Threads : ~Writing(t, f)'
    BY <1>2 DEF Writing
  <2>8. ~clash[f] => Apart(f)'
    BY <2>1, <2>3, <2>4, <2>7 DEF FileInv, Apart, Sound
  <2> QED
    BY <2>1, <2>5, <2>6, <2>8, SharedLasts DEF FileInv
<1>4. \A t \in Threads : Composed(t)'
  BY <1>2 DEF Composed, At
<1> QED
  BY <1>3, <1>4 DEF OutputsInv

LEMMA InitOutputs == Init => OutputsInv
<1>1. SUFFICES ASSUME Init PROVE OutputsInv
  OBVIOUS
<1>2. \A t \in Threads : ~Busy(t)
  BY <1>1 DEF Init, Busy
<1>3. \A f \in Files : FileInv(f)
  BY <1>1, <1>2 DEF Init, FileInv, Known, Opened, Apart, Writers, Writing
<1>4. \A t \in Threads : Composed(t)
  BY <1>2 DEF Composed, At
<1> QED
  BY <1>3, <1>4 DEF OutputsInv

LEMMA NextOutputs == IInv /\ FilesInv /\ OutputsInv /\ [Next]_vars => OutputsInv'
<1>1. SUFFICES ASSUME IInv, FilesInv, OutputsInv, [Next]_vars PROVE OutputsInv'
  OBVIOUS
<1>2. CASE \E t \in Threads : Step(t)
  BY <1>1, <1>2, StepOutputs, Zenon
<1>3. CASE Restart
  BY <1>1, <1>3, RestartOutputs
<1>4. CASE (\E j \in Jobs : Call(j)) \/ Cleanup \/ (\E f \in Files : Edit(f)) \/ UNCHANGED vars
  BY <1>1, <1>4, OutsideOutputs
<1> QED
  BY <1>1, <1>2, <1>3, <1>4, Zenon DEF Next

LEMMA AlwaysOutputs == Spec => []OutputsInv
<1>1. Init => IInv /\ FilesInv /\ OutputsInv
  BY InitHolds, InitFiles, InitOutputs
<1>2. (IInv /\ FilesInv /\ OutputsInv) /\ [Next]_vars => (IInv /\ FilesInv /\ OutputsInv)'
  BY NextKeeps, NextFiles, NextOutputs
<1> QED
  BY <1>1, <1>2, PTL DEF Spec

-----------------------------------------------------------------------------
(* Theorems *)

\* The variables have their types: a worker's place in the loop never leaves
\* its plan, and no missing checkpoint is put into an output (assemble of
\* run_batch_transform_job).
THEOREM BatchTypeCorrect == Spec => []TypeOK
<1>1. IInv => TypeOK
  BY DEF IInv
<1> QED
  BY <1>1, Always, PTL

\* The registry keeps one thread per job and every job of a thread in the
\* store; without faults a job in hand has its thread (start_batch_job,
\* batch_worker_is_alive, cleanup_batch_history).
THEOREM BatchWorkersKept == Spec => []WorkersKept
<1>1. IInv => WorkersKept
  BY DEF IInv, WorkerInv, StoreInv, Kept, Shown, InHand, WorkersKept
<1> QED
  BY <1>1, Always, PTL

\* A controlled job transforms a chunk only after a start or a resume that
\* came after the previous chunk (the controlled pause of
\* run_batch_transform_job).
THEOREM BatchControlledByUser == Spec => []ControlledByUser
<1>1. IInv => ControlledByUser
  BY DEF IInv, WorkerInv, Consented, ControlledByUser, At
<1> QED
  BY <1>1, Always, PTL

\* The step of thread t on the cancelled job j of the property CancelStays
LEMMA CancelHeeded ==
  ASSUME IInv, NEW t \in Threads, NEW j \in Jobs, w[t].job = j, Step(t),
         Status(j) = "cancelled", ~At(t, "begin"),
         job[j].kind = "chunks", job[j].mode = "automatic"
  PROVE  job'[j].status = "cancelled"
<1>1. Busy(t)
  BY DEF Step, Begin, BeginUnsaved, Prepare, Reuse, Poll, Work, Progress, Assemble, Answer, Write,
         WriteFails, Replace,
         Unlink, Complete, Raise, Fail, Close, At
<1>2. TypeOK /\ Exists(j) /\ InPlace(t)
  BY <1>1, AtWork
<1>3. job[j].status = "cancelled" /\ job \in [Jobs -> {None, Gone} \cup JobRecords]
      /\ job[j] \in JobRecords
  BY <1>2, JobFields DEF TypeOK
<1>4. Kind(t) = "chunks" /\ ~w[t].analysis
  BY <1>1, <1>2 DEF Kind, InPlace
<1>5. CASE job' = job
  BY <1>3, <1>5
<1>6. CASE Prepare(t)
  <2>1. PICK v : job' = [job EXCEPT ![j] = [job[j] EXCEPT !.plan = v]]
    BY <1>4, <1>6 DEF Prepare
  <2> QED
    BY <1>3, <2>1 DEF JobRecords
<1>7. CASE Progress(t)
  BY <1>3, <1>7 DEF Progress, Waits
<1>8. CASE Complete(t)
  BY <1>3, <1>4, <1>8 DEF Complete, HeedsCancel
<1>9. CASE Fail(t)
  BY <1>3, <1>4, <1>9 DEF Fail
<1> QED
  BY <1>5, <1>6, <1>7, <1>8, <1>9
     DEF Step, Begin, BeginUnsaved, Reuse, Poll, Work, Assemble, Answer, Write, WriteFails,
         Replace, Unlink, Raise, Close, files

\* A cancel of an automatic chunked transform whose worker has begun outlives
\* the worker: its completion, its failure and every call in between
\* (run_batch_transform_job, cancel_batch_job).
THEOREM BatchCancelStays == Spec => CancelStays
<1>1. ASSUME IInv, [Next]_vars, NEW j \in Jobs,
             Status(j) = "cancelled", Alive(j), ~At(reg[j], "begin"),
             job[j].kind = "chunks", job[j].mode = "automatic"
      PROVE  job'[j].status = "cancelled"
  <2>1. TypeOK /\ Exists(j) /\ job[j].status = "cancelled"
    BY <1>1, BatchAssumption DEF IInv, Status, Statuses
  <2>2. reg[j] \in Threads /\ Busy(reg[j]) /\ w[reg[j]].job = j
    BY <1>1, <2>1 DEF Alive, TypeOK
  <2>3. CASE job'[j] = job[j]
    BY <2>1, <2>3
  <2>4. ASSUME NEW k \in Jobs, Call(k)
        PROVE  job'[j] = job[j]
    <3>1. CASE k = j
      BY <1>1, <2>1, <2>4, <3>1
         DEF Call, Create, Route, Start, Pause, Resume, Automatic, Cancel, Exists
    <3>2. CASE k # j
      BY <2>1, <2>4, <3>2
         DEF Call, Create, Route, Start, Pause, Resume, Automatic, Cancel, Set, TypeOK
    <3> QED
      BY <3>1, <3>2
  <2>5. ASSUME NEW t \in Threads, Step(t)
        PROVE  job'[j].status = "cancelled"
    <3>1. CASE t = reg[j]
      BY <1>1, <2>2, <2>5, <3>1, CancelHeeded
    <3>2. CASE t # reg[j]
      <4>1. Busy(t)
        BY <2>5 DEF Step, Begin, BeginUnsaved, Prepare, Reuse, Poll, Work, Progress, Assemble,
                    Answer, Write, WriteFails,
               Replace, Unlink, Complete, Raise, Fail, Close, At
      <4>2. w[t].job # j
        BY <1>1, <3>2, <4>1, AtWork
      <4>3. job'[j] = job[j]
        BY <2>1, <2>5, <4>2
           DEF Step, Begin, BeginUnsaved, Prepare, Reuse, Poll, Work, Progress, Assemble, Answer,
               Write, WriteFails, Replace,
               Unlink, Complete, Raise, Fail, Close, Set, files, TypeOK
      <4> QED
        BY <2>1, <4>3
    <3> QED
      BY <3>1, <3>2
  <2>6. CASE Cleanup
    <3>1. PICK scope : job' = [k \in Jobs |-> IF Removable(k, scope) THEN Gone ELSE job[k]]
      BY <2>6 DEF Cleanup
    <3>2. ~Removable(j, scope)
      BY <1>1 DEF Removable, Alive
    <3> QED
      BY <2>1, <3>1, <3>2
  <2> QED
    BY <1>1, <2>1, <2>4, <2>5, <2>6 DEF Next, Edit, Restart, vars
<1>2. IInv /\ [Next]_vars =>
        [\A j \in Jobs :
          /\ Status(j) = "cancelled" /\ Alive(j) /\ ~At(reg[j], "begin")
          /\ job[j].kind = "chunks" /\ job[j].mode = "automatic"
          => job'[j].status = "cancelled"]_vars
  BY <1>1
<1> QED
  BY <1>2, Always, PTL DEF Spec, CancelStays

\* A completed transform has an output; it is whole, of one version of the
\* input, unless its run began on checkpoints of another plan or two jobs on the
\* file were at once between opening and replacing the temporary file, whatever
\* is edited, crashes or fails in between; and it is its own or that of another
\* job on the file (the end of run_batch_transform_job, write_text_atomic of
\* BatchStateStore, split_batch_content).
THEOREM BatchCompletedIsWhole == Spec => []CompletedIsWhole
<1>1. ASSUME IInv, FilesInv, OutputsInv
      PROVE  CompletedIsWhole
  <2>1. SUFFICES ASSUME NEW j \in Jobs, Status(j) = "completed", job[j].kind \in Transforms
                 PROVE  LET o == out[FileOf[j]]
                        IN  /\ o # None
                            /\ Whole(o.text) \/ o.stale \/ clash[FileOf[j]]
                            /\ \/ o.by = j
                               \/ \E k \in Jobs \ {j} : FileOf[k] = FileOf[j] /\ job[k] # None
    BY DEF CompletedIsWhole
  <2>2. PICK f \in Files : f = FileOf[j]
    BY BatchAssumption
  <2>3. out[f] # None /\ FileInv(f)
    BY <1>1, <2>1, <2>2 DEF FilesInv, Finished, OutputsInv
  <2>4. out[f].by \in Jobs
    BY <1>1, <2>3 DEF IInv, TypeOK, Outputs
  <2>5. clash[f] \/ Sound(out[f])
    BY <2>3 DEF FileInv, Apart
  <2>6. FileOf[out[f].by] = f /\ job[out[f].by] # None
    BY <2>3 DEF FileInv, Known
  <2> QED
    BY <2>2, <2>3, <2>4, <2>5, <2>6 DEF Sound
<1>2. IInv /\ FilesInv /\ OutputsInv => CompletedIsWhole
  BY <1>1
<1> QED
  BY <1>2, Always, AlwaysFiles, AlwaysOutputs, PTL

\* A chunk that has a checkpoint of the plan is transformed again only if the
\* plan has changed since the last start, through crashes, failures and edits
\* (the resume from completed_batch_checkpoints in run_batch_transform_job).
THEOREM BatchRedoneOnlyForNewPlan == Spec => RedoneOnlyForNewPlan
<1>1. ASSUME IInv, FilesInv, NEW t \in Threads, At(t, "work"), Kind(t) = "chunks",
             w[t].prev = w[t].plan
      PROVE  cp[w[t].job][w[t].idx] = None
  <2>1. Busy(t) /\ w[t].pc = "work" /\ Resumed(t)
    BY <1>1 DEF At, FilesInv
  <2>2. PICK n \in 1..MaxChunks : n = w[t].idx
    BY <1>1, <2>1, OnwardFields DEF InLoop
  <2>3. Passed(t) = n - 1 /\ n > n - 1
    BY <2>1, <2>2 DEF Passed
  <2> QED
    BY <1>1, <2>1, <2>2, <2>3 DEF Resumed, InLoop
<1>2. IInv /\ FilesInv =>
        [\A t \in Threads :
          At(t, "work") /\ Kind(t) = "chunks" /\ w'[t].pc = "progress" =>
            LET old == cp[w[t].job][w[t].idx]
            IN  \/ old = None
                \/ old # Piece(Kind(t), w[t].plan, w[t].idx)
                \/ w[t].prev # w[t].plan]_vars
  BY <1>1
<1> QED
  BY <1>2, Always, AlwaysFiles, PTL DEF Spec, RedoneOnlyForNewPlan

-----------------------------------------------------------------------------
(* While no input file is edited.  All plans are of the version that the     *)
(* files began with, so no run is stale and the first exception of           *)
(* CompletedIsWhole falls away; the second does when one job has the file.   *)

FirstPlan == {0, Original}

UneditedFile(f) == /\ input[f] = Original
                   /\ tmp[f] # None => ~tmp[f].stale
                   /\ out[f] # None => ~out[f].stale
UneditedJob(j) == /\ Exists(j) => job[j].plan \in FirstPlan
                  /\ \A i \in 1..MaxChunks : cp[j][i] # None => cp[j][i][1] = Original
UneditedRun(t) == Busy(t) => ~w[t].stale /\ w[t].plan \in FirstPlan

Unedited == /\ \A f \in Files : UneditedFile(f)
            /\ \A j \in Jobs : UneditedJob(j)
            /\ \A t \in Threads : UneditedRun(t)

UneditedInv == edits = 0 => Unedited

LEMMA OnlyEditEdits ==
  ASSUME IInv, [Next]_vars, edits' = 0
  PROVE  edits = 0 /\ input' = input
<1>1. (edits' = edits /\ input' = input) \/ edits' = edits + 1
  <2>1. ASSUME NEW j \in Jobs, Call(j) PROVE edits' = edits /\ input' = input
    BY <2>1 DEF Call, files, Create, Route, Start, Pause, Resume, Automatic, Cancel
  <2>2. ASSUME NEW t \in Threads, Step(t) PROVE edits' = edits /\ input' = input
    BY <2>2 DEF Step, files, Begin, BeginUnsaved, Prepare, Reuse, Poll, Work, Progress, Assemble,
           Answer, Write, WriteFails, Replace, Unlink, Complete, Raise, Fail, Close
  <2> QED
    BY <2>1, <2>2 DEF Next, vars, files, Cleanup, Edit, Restart
<1>2. edits \in Nat
  BY BatchAssumption DEF IInv, TypeOK
<1> QED
  BY <1>1, <1>2

\* The plan of a job is saved by Prepare, from the input as it is.
PlanStays(k) == \/ ~Exists(k)'
                \/ Exists(k) /\ job'[k].plan = job[k].plan
                \/ job'[k].plan = 0
                \/ job'[k].plan = input[FileOf[k]]

LEMMA SetPlan ==
  ASSUME IInv, NEW j \in Jobs, Exists(j), NEW status \in Statuses, Set(j, status), NEW k \in Jobs
  PROVE  PlanStays(k)
<1>1. job \in [Jobs -> {None, Gone} \cup JobRecords] /\ job[j] \in JobRecords
  BY JobFields DEF IInv, TypeOK
<1>2. PICK r : r = [job[j] EXCEPT !.status = status]
  OBVIOUS
<1>3. r.plan = job[j].plan
  BY <1>1, <1>2 DEF JobRecords
<1>4. job' = [job EXCEPT ![j] = r]
  BY <1>2 DEF Set
<1>5. k = j => job'[k].plan = job[k].plan
  BY <1>1, <1>3, <1>4
<1>6. k # j => job'[k] = job[k]
  BY <1>1, <1>4
<1> QED
  BY <1>5, <1>6 DEF PlanStays, Exists

LEMMA NewPlan ==
  ASSUME IInv, NEW j \in Jobs, NEW k \in Jobs, NEW kind, NEW status, NEW mode,
         job' = [job EXCEPT ![j] = [kind |-> kind, status |-> status, mode |-> mode, plan |-> 0]]
  PROVE  PlanStays(k)
<1>1. job \in [Jobs -> {None, Gone} \cup JobRecords]
  BY DEF IInv, TypeOK
<1>2. PICK r : r = [kind |-> kind, status |-> status, mode |-> mode, plan |-> 0]
  OBVIOUS
<1>3. r.plan = 0 /\ job' = [job EXCEPT ![j] = r]
  BY <1>2
<1>4. k = j => job'[k].plan = 0
  BY <1>1, <1>3
<1>5. k # j => job'[k] = job[k]
  BY <1>1, <1>3
<1> QED
  BY <1>4, <1>5 DEF PlanStays, Exists

LEMMA CallPlans ==
  ASSUME IInv, NEW j \in Jobs, Call(j), NEW k \in Jobs
  PROVE  PlanStays(k)
<1>1. CASE job' = job
  BY <1>1 DEF PlanStays, Exists
<1>2. CASE Exists(j) /\ \E status \in Statuses : Set(j, status)
  BY <1>2, SetPlan
<1>3. CASE Create(j)
  BY <1>3, NewPlan DEF Create, New
<1>4. CASE Route(j)
  <2>1. PICK kind \in KindsOf[j] :
          \/ job' = [job EXCEPT ![j] = New(kind, "automatic")]
          \/ job' = [job EXCEPT ![j] = [New(kind, "automatic") EXCEPT !.status = "failed"]]
    BY <1>4 DEF Route
  <2>2. New(kind, "automatic") = [kind |-> kind, status |-> "queued", mode |-> "automatic", plan |-> 0]
        /\ [New(kind, "automatic") EXCEPT !.status = "failed"]
             = [kind |-> kind, status |-> "failed", mode |-> "automatic", plan |-> 0]
    BY DEF New
  <2> QED
    BY <2>1, <2>2, NewPlan
<1>5. CASE Automatic(j)
  <2>1. /\ job \in [Jobs -> {None, Gone} \cup JobRecords]
        /\ Exists(j) /\ job[j] \in JobRecords
    <3>1. TypeOK /\ Exists(j)
      BY <1>5, BatchAssumption DEF IInv, Automatic, Status, Statuses
    <3> QED
      BY <3>1, JobFields DEF TypeOK
  <2>2. PICK status : status = IF job[j].status = "paused" THEN "running" ELSE job[j].status
    OBVIOUS
  <2>3. PICK r : r = [job[j] EXCEPT !.mode = "automatic", !.status = status]
    OBVIOUS
  <2>4. r.plan = job[j].plan /\ job' = [job EXCEPT ![j] = r]
    BY <1>5, <2>1, <2>2, <2>3 DEF JobRecords, Automatic
  <2>5. k = j => job'[k].plan = job[k].plan
    BY <2>1, <2>4
  <2>6. k # j => job'[k] = job[k]
    BY <2>1, <2>4
  <2> QED
    BY <2>1, <2>5, <2>6 DEF PlanStays, Exists
<1>6. CASE Start(j)
  BY <1>1, <1>2, <1>6 DEF Start, Statuses
<1>7. CASE Pause(j) \/ Resume(j) \/ Cancel(j)
  BY <1>2, <1>7, BatchAssumption DEF Pause, Resume, Cancel, Status, Statuses
<1> QED
  BY <1>3, <1>4, <1>5, <1>6, <1>7 DEF Call

LEMMA StepPlans ==
  ASSUME IInv, NEW t \in Threads, Step(t), NEW k \in Jobs
  PROVE  PlanStays(k)
<1>1. Busy(t)
  BY DEF Step, Begin, BeginUnsaved, Prepare, Reuse, Poll, Work, Progress, Assemble, Answer, Write,
         WriteFails, Replace,
         Unlink, Complete, Raise, Fail, Close, At
<1>2. PICK j \in Jobs : w[t].job = j /\ Exists(j)
  BY <1>1, AtWork
<1>3. CASE job' = job
  BY <1>3 DEF PlanStays, Exists
<1>4. CASE \E status \in Statuses : Set(j, status)
  BY <1>2, <1>4, SetPlan
<1>5. CASE Prepare(t) /\ job' # job
  <2>1. job \in [Jobs -> {None, Gone} \cup JobRecords] /\ job[j] \in JobRecords
    BY <1>2, JobFields DEF IInv, TypeOK
  <2>2. PICK v : v = input[FileOf[j]]
    OBVIOUS
  <2>3. job' = [job EXCEPT ![j] = [job[j] EXCEPT !.plan = v]]
    BY <1>2, <1>5, <2>2 DEF Prepare
  <2>4. PICK r : r = [job[j] EXCEPT !.plan = v]
    OBVIOUS
  <2>5. r.plan = v
    BY <2>1, <2>4 DEF JobRecords
  <2>6. k = j => job'[k].plan = v
    BY <2>1, <2>3, <2>4, <2>5
  <2>7. k # j => job'[k] = job[k]
    BY <2>1, <2>3
  <2> QED
    BY <2>2, <2>6, <2>7 DEF PlanStays, Exists
<1>6. job' # job => Prepare(t) \/ \E s \in Statuses : Set(j, s)
  BY <1>2 DEF Step, Begin, BeginUnsaved, Reuse, Poll, Work, Progress, Assemble, Answer, Write,
              WriteFails, Replace,
       Unlink, Complete, Raise, Fail, Close, Statuses, files
<1> QED
  BY <1>3, <1>4, <1>5, <1>6

LEMMA PlansStay ==
  ASSUME IInv, [Next]_vars
  PROVE  \A k \in Jobs : PlanStays(k)
<1>1. SUFFICES ASSUME NEW k \in Jobs PROVE PlanStays(k)
  OBVIOUS
<1>2. CASE Cleanup
  <2>1. job \in [Jobs -> {None, Gone} \cup JobRecords]
    BY DEF IInv, TypeOK
  <2>2. job'[k] = Gone \/ job'[k] = job[k]
    BY <1>2 DEF Cleanup
  <2> QED
    BY <2>2 DEF PlanStays, Exists
<1>3. CASE job' = job
  BY <1>3 DEF PlanStays, Exists
<1> QED
  BY <1>2, <1>3, CallPlans, StepPlans DEF Next, Edit, Restart, vars

\* Only Begin looks at the checkpoints, and only Prepare at the input.
RunStays(u) == \/ ~Busy(u)'
               \/ ~w'[u].stale /\ w'[u].plan = 0
               \/ /\ Busy(u)
                  /\ w'[u].stale = w[u].stale \/ w'[u].stale = Stale(w[u].job)
                  /\ w'[u].plan = w[u].plan \/ w'[u].plan = input[FileOf[w[u].job]]

LEMMA SameRun ==
  ASSUME NEW u, w'[u] = w[u]
  PROVE  RunStays(u)
  BY DEF RunStays, Busy

LEMMA SpawnedRuns ==
  ASSUME IInv, NEW j \in Jobs, NEW analysis, Spawned(j, analysis), NEW u \in Threads
  PROVE  RunStays(u)
<1>1. PICK t : w' = [w EXCEPT ![t] = Worker(j, analysis)]
  BY DEF Spawned
<1>2. w \in [Threads -> {Idle} \cup Workers]
  BY DEF IInv, TypeOK
<1>3. CASE u = t
  <2>1. ~Worker(j, analysis).stale /\ Worker(j, analysis).plan = 0
    BY DEF Worker
  <2> QED
    BY <1>1, <1>2, <1>3, <2>1 DEF RunStays
<1>4. CASE u # t
  BY <1>1, <1>2, <1>4, SameRun
<1> QED
  BY <1>3, <1>4

LEMMA StepRuns ==
  ASSUME IInv, NEW t \in Threads, Step(t), NEW u \in Threads
  PROVE  RunStays(u)
<1>1. Busy(t)
  BY DEF Step, Begin, BeginUnsaved, Prepare, Reuse, Poll, Work, Progress, Assemble, Answer, Write,
         WriteFails, Replace,
         Unlink, Complete, Raise, Fail, Close, At
<1>2. /\ w \in [Threads -> {Idle} \cup Workers] /\ w[t] \in Workers /\ TypeOK
      /\ Exists(w[t].job)
  BY <1>1, AtWork DEF TypeOK
<1>3. \E r : w' = [w EXCEPT ![t] = r]
  BY DEF Step, Begin, BeginUnsaved, Prepare, Reuse, Poll, Work, Progress, Assemble, Answer, Write,
         WriteFails, Replace,
         Unlink, Complete, Raise, Fail, Close, GoTo
<1>4. CASE u # t
  BY <1>2, <1>3, <1>4, SameRun
<1>5. CASE u = t
  <2>1. ASSUME NEW pc \in Places, GoTo(t, pc) PROVE RunStays(t)
    BY <1>1, <1>2, <2>1, WentOn DEF RunStays
  <2>2. CASE Begin(t)
    <3>1. PICK r : r = [w[t] EXCEPT !.pc = "prepare", !.prev = job[w[t].job].plan,
                                    !.stale = Stale(w[t].job)]
      OBVIOUS
    <3>2. w' = [w EXCEPT ![t] = r]
      BY <2>2, <3>1 DEF Begin
    <3>3. r.stale = Stale(w[t].job) /\ r.plan = w[t].plan
      BY <1>2, <3>1 DEF Workers
    <3> QED
      BY <1>1, <1>2, <1>5, <3>2, <3>3 DEF RunStays
  <2>3. CASE Prepare(t)
    <3>1. PICK v : v = input[FileOf[w[t].job]]
      OBVIOUS
    <3>2. PICK entry \in Entries(t, v) : w' = [w EXCEPT ![t] = entry]
      BY <2>3, <3>1 DEF Prepare
    <3>3. entry.stale = w[t].stale /\ entry.plan = v
      BY <1>2 DEF Entries, Workers
    <3> QED
      BY <1>1, <1>2, <1>5, <3>1, <3>2, <3>3 DEF RunStays
  <2>4. CASE Reuse(t)
    <3>1. PICK r : r = [Onward(t) EXCEPT !.text = Append(@, Piece("freetext", w[t].plan, w[t].idx))]
      OBVIOUS
    <3>2. w' = [w EXCEPT ![t] = r]
      BY <2>4, <3>1 DEF Reuse
    <3>3. r.stale = w[t].stale /\ r.plan = w[t].plan
      BY <1>2, <3>1 DEF Onward, Workers
    <3> QED
      BY <1>1, <1>2, <1>5, <3>2, <3>3 DEF RunStays
  <2>5. CASE Work(t)
    <3>1. PICK text : w' = [w EXCEPT ![t] = [w[t] EXCEPT !.pc = "progress", !.text = text]]
      BY <1>2, <2>5 DEF Work
    <3>2. PICK r : r = [w[t] EXCEPT !.pc = "progress", !.text = text]
      OBVIOUS
    <3>3. r.stale = w[t].stale /\ r.plan = w[t].plan
      BY <1>2, <3>2 DEF Workers
    <3> QED
      BY <1>1, <1>2, <1>5, <3>1, <3>2, <3>3 DEF RunStays
  <2>6. CASE Progress(t)
    <3>1. w' = [w EXCEPT ![t] = Onward(t)]
      BY <2>6 DEF Progress
    <3>2. Onward(t).stale = w[t].stale /\ Onward(t).plan = w[t].plan
      BY <1>2 DEF Onward, Workers
    <3> QED
      BY <1>1, <1>2, <1>5, <3>1, <3>2 DEF RunStays
  <2>7. CASE Close(t)
    BY <1>2, <1>5, <2>7 DEF Close, RunStays, Busy
  <2>8. CASE BeginUnsaved(t)
    <3>1. GoTo(t, "fail") \/ w' = [w EXCEPT ![t] = Idle]
      BY <2>8 DEF BeginUnsaved
    <3> QED
      BY <1>2, <1>5, <2>1, <3>1 DEF Places, RunStays, Busy
  <2>9. CASE Assemble(t)
    <3>1. PICK text : w' = [w EXCEPT ![t] = [w[t] EXCEPT !.pc = "write", !.text = text]]
      BY <2>9 DEF Assemble
    <3>2. PICK r : r = [w[t] EXCEPT !.pc = "write", !.text = text]
      OBVIOUS
    <3>3. r.stale = w[t].stale /\ r.plan = w[t].plan
      BY <1>2, <3>2 DEF Workers
    <3> QED
      BY <1>1, <1>2, <1>5, <3>1, <3>2, <3>3 DEF RunStays
  <2>10. CASE Poll(t) \/ Answer(t) \/ Write(t) \/ WriteFails(t) \/ Replace(t) \/ Unlink(t)
              \/ Complete(t) \/ Raise(t) \/ Fail(t)
    <3>1. \E pc \in Places : GoTo(t, pc)
      BY <2>10 DEF Poll, Answer, Write, WriteFails, Replace, Unlink, Complete, Raise, Fail, Places
    <3> QED
      BY <1>5, <2>1, <3>1
  <2> QED
    BY <1>5, <2>2, <2>3, <2>4, <2>5, <2>6, <2>7, <2>8, <2>9, <2>10 DEF Step
<1> QED
  BY <1>4, <1>5

LEMMA RunsStay ==
  ASSUME IInv, [Next]_vars
  PROVE  \A u \in Threads : RunStays(u)
<1>1. SUFFICES ASSUME NEW u \in Threads PROVE RunStays(u)
  OBVIOUS
<1>2. CASE w' = w
  BY <1>2, SameRun
<1>3. CASE Restart
  BY <1>3 DEF Restart, RunStays, Busy
<1>4. ASSUME NEW j \in Jobs, Call(j) PROVE RunStays(u)
  <2>1. CASE \E analysis : Spawned(j, analysis)
    BY <2>1, SpawnedRuns
  <2> QED
    BY <1>2, <1>4, <2>1
       DEF Call, Create, Route, Start, Pause, Resume, Automatic, Cancel, NotSpawned
<1> QED
  BY <1>2, <1>3, <1>4, StepRuns DEF Next, Edit, Cleanup, vars

LEMMA UneditedCheckpoints ==
  ASSUME IInv, Unedited, [Next]_vars, NEW j \in Jobs, NEW i \in 1..MaxChunks, cp'[j][i] # None
  PROVE  cp'[j][i][1] = Original
<1>1. cp[j][i] # None => cp[j][i][1] = Original
  BY DEF Unedited, UneditedJob
<1>2. CASE cp' = cp
  BY <1>1, <1>2
<1>3. ASSUME NEW t \in Threads, Work(t) PROVE cp'[j][i][1] = Original
  <2>1. Busy(t) /\ w[t].pc = "work"
    BY <1>3 DEF Work, At
  <2>2. TypeOK /\ w[t].plan \in Versions
    BY <2>1, AtWork DEF InPlace, Begun, Places
  <2>3. w[t].plan = Original
    BY <2>1, <2>2, BatchAssumption DEF Unedited, UneditedRun, FirstPlan
  <2>4. PICK piece : piece = Piece(Kind(t), w[t].plan, w[t].idx)
    OBVIOUS
  <2>5. piece[1] = Original
    BY <2>3, <2>4 DEF Piece
  <2>6. cp' = cp \/ cp' = [cp EXCEPT ![w[t].job][w[t].idx] = piece]
    BY <1>3, <2>4 DEF Work
  <2>7. cp'[j][i] = piece \/ cp'[j][i] = cp[j][i]
    <3>1. cp \in [Jobs -> [1..MaxChunks -> Texts \cup {None}]]
      BY <2>2 DEF TypeOK
    <3>2. PICK k, n : k = w[t].job /\ n = w[t].idx
      OBVIOUS
    <3>3. cp' = cp \/ cp' = [cp EXCEPT ![k] = [cp[k] EXCEPT ![n] = piece]]
      BY <2>6, <3>2
    <3>4. k # j => cp'[j] = cp[j]
      BY <3>1, <3>3
    <3>5. k = j => cp'[j] = cp[j] \/ cp'[j] = [cp[j] EXCEPT ![n] = piece]
      BY <3>1, <3>3
    <3>6. cp[j] \in [1..MaxChunks -> Texts \cup {None}]
      BY <3>1
    <3> QED
      BY <3>4, <3>5, <3>6
  <2> QED
    BY <1>1, <2>5, <2>7
<1> QED
  BY <1>2, <1>3
     DEF Next, Call, Step, vars, files, Create, Route, Start, Pause, Resume, Automatic, Cancel,
         Cleanup, Edit, Begin, BeginUnsaved, Prepare, Reuse, Poll, Progress, Assemble, Answer, Write, WriteFails, Replace,
         Unlink, Complete, Raise, Fail, Close, Restart

LEMMA UneditedOutputs ==
  ASSUME IInv, Unedited, [Next]_vars, NEW f \in Files
  PROVE  /\ tmp'[f] # None => ~tmp'[f].stale
         /\ out'[f] # None => ~out'[f].stale
<1>1. /\ tmp[f] # None => ~tmp[f].stale
      /\ out[f] # None => ~out[f].stale
      /\ tmp \in [Files -> Outputs \cup {None}] /\ out \in [Files -> Outputs \cup {None}]
  BY DEF Unedited, UneditedFile, IInv, TypeOK
<1>2. CASE tmp' = tmp /\ out' = out
  BY <1>1, <1>2
<1>3. \A t \in Threads : Busy(t) => /\ ~w[t].stale /\ w[t] \in Workers
                                  /\ FileOf[w[t].job] \in Files
  BY AtWork, BatchAssumption DEF Unedited, UneditedRun
<1>4. ASSUME NEW t \in Threads, Assemble(t)
      PROVE  (tmp'[f] # None => ~tmp'[f].stale) /\ out'[f] = out[f]
  <2>1. ~w[t].stale
    BY <1>3, <1>4 DEF Assemble, At
  <2>2. PICK o : o = [by |-> w[t].job, text |-> <<>>, stale |-> w[t].stale,
                      open |-> Writers(tmp[FileOf[w[t].job]]) \cup {t}]
    OBVIOUS
  <2>3. ~o.stale /\ tmp' = [tmp EXCEPT ![FileOf[w[t].job]] = o] /\ out' = out
    BY <1>4, <2>1, <2>2 DEF Assemble
  <2> QED
    BY <1>1, <2>3
<1>5. ASSUME NEW t \in Threads, Write(t)
      PROVE  (tmp'[f] # None => ~tmp'[f].stale) /\ (out'[f] # None => ~out'[f].stale)
  <2>1. ~w[t].stale
    BY <1>3, <1>5 DEF Write, At
  <2>2. \A o : \A n \in Written(t, o) : ~n.stale
    BY <2>1 DEF Written
  <2>3. CASE tmp' = tmp /\ out' = out
    BY <1>1, <2>3
  <2>4. CASE out' = out /\ \E o : \E n \in Written(t, o) : tmp' = [tmp EXCEPT ![FileOf[w[t].job]] = n]
    <3>1. PICK n : ~n.stale /\ tmp' = [tmp EXCEPT ![FileOf[w[t].job]] = n]
      BY <2>2, <2>4
    <3> QED
      BY <1>1, <2>4, <3>1
  <2>5. CASE tmp' = tmp /\ \E o : \E n \in Written(t, o) : out' = [out EXCEPT ![FileOf[w[t].job]] = n]
    <3>1. PICK n : ~n.stale /\ out' = [out EXCEPT ![FileOf[w[t].job]] = n]
      BY <2>2, <2>5
    <3> QED
      BY <1>1, <2>5, <3>1
  <2> QED
    BY <1>5, <2>3, <2>4, <2>5 DEF Write
<1>6. ASSUME NEW ts, tmp'[f] = Closed(tmp[f], ts), out'[f] = Closed(out[f], ts)
      PROVE  (tmp'[f] # None => ~tmp'[f].stale) /\ (out'[f] # None => ~out'[f].stale)
  <2>1. tmp[f] \in Outputs \cup {None} /\ out[f] \in Outputs \cup {None}
    BY <1>1
  <2> QED
    BY <1>1, <1>6, <2>1, ClosedFields
<1>7. ASSUME NEW t \in Threads, Replace(t) \/ Unlink(t)
      PROVE  tmp'[f] \in {tmp[f], None} /\ out'[f] \in {out[f], tmp[f]}
  BY <1>1, <1>7 DEF Replace, Unlink
<1>8. CASE Restart \/ \E t \in Threads : WriteFails(t)
  BY <1>6, <1>8 DEF Restart, WriteFails
<1>9. \/ tmp' = tmp /\ out' = out
      \/ \E t \in Threads : Assemble(t) \/ Write(t) \/ Replace(t) \/ Unlink(t)
      \/ Restart \/ \E t \in Threads : WriteFails(t)
  <2>1. ASSUME NEW j \in Jobs, Call(j) PROVE tmp' = tmp /\ out' = out
    BY <2>1 DEF Call, files, Create, Route, Start, Pause, Resume, Automatic, Cancel
  <2>2. ASSUME NEW t \in Threads, Step(t)
        PROVE  \/ tmp' = tmp /\ out' = out
               \/ Assemble(t) \/ Write(t) \/ Replace(t) \/ Unlink(t) \/ WriteFails(t)
    BY <2>2 DEF Step, files, Begin, BeginUnsaved, Prepare, Reuse, Poll, Work, Progress, Answer,
           Complete, Raise, Fail, Close
  <2> QED
    BY <2>1, <2>2 DEF Next, vars, files, Cleanup, Edit
<1>10. CASE \E t \in Threads : Assemble(t) \/ Write(t)
  BY <1>1, <1>4, <1>5, <1>10
<1>11. CASE \E t \in Threads : Replace(t) \/ Unlink(t)
  BY <1>1, <1>7, <1>11
<1> QED
  BY <1>2, <1>8, <1>9, <1>10, <1>11

LEMMA NotStale ==
  ASSUME IInv, Unedited, NEW j \in Jobs, Exists(j)
  PROVE  ~Stale(j)
<1>1. SUFFICES ASSUME Stale(j) PROVE FALSE
  OBVIOUS
<1>2. job[j].plan # 0 /\ job[j].plan \in FirstPlan
  BY <1>1 DEF Stale, Unedited, UneditedJob
<1>3. job[j].plan = Original
  BY <1>2 DEF FirstPlan
<1>4. PICK n \in 0..MaxChunks : n = Len(Splits["chunks"][Original])
  BY SplitsTyped, BatchAssumption DEF Kinds
<1>5. PICK i \in 1..n : cp[j][i] # None /\ cp[j][i][1] # Original
  BY <1>1, <1>3, <1>4 DEF Stale
<1>6. i \in 1..MaxChunks
  BY <1>4, <1>5, BatchAssumption
<1> QED
  BY <1>5, <1>6 DEF Unedited, UneditedJob

LEMMA UneditedStep == IInv /\ UneditedInv /\ [Next]_vars => UneditedInv'
<1>1. SUFFICES ASSUME IInv, UneditedInv, [Next]_vars, edits' = 0 PROVE Unedited'
  BY DEF UneditedInv
<1>2. Unedited /\ input' = input
  BY <1>1, OnlyEditEdits DEF UneditedInv
<1>3. \A f \in Files : UneditedFile(f)'
  BY <1>1, <1>2, UneditedOutputs DEF Unedited, UneditedFile
<1>4. \A j \in Jobs : input[FileOf[j]] = Original
  BY <1>2, BatchAssumption DEF Unedited, UneditedFile
<1>5. ASSUME NEW j \in Jobs PROVE UneditedJob(j)'
  <2>1. Exists(j)' => job'[j].plan \in FirstPlan
    <3>1. PlanStays(j) /\ UneditedJob(j)
      BY <1>1, <1>2, PlansStay DEF Unedited
    <3> QED
      BY <1>4, <3>1 DEF PlanStays, UneditedJob, FirstPlan
  <2> QED
    BY <1>1, <1>2, <2>1, UneditedCheckpoints DEF UneditedJob
<1>6. ASSUME NEW t \in Threads PROVE UneditedRun(t)'
  <2>1. RunStays(t) /\ UneditedRun(t)
    BY <1>1, <1>2, RunsStay DEF Unedited
  <2>2. Busy(t) => w[t].job \in Jobs /\ ~Stale(w[t].job)
    BY <1>1, <1>2, AtWork, NotStale
  <2> QED
    BY <1>4, <2>1, <2>2 DEF RunStays, UneditedRun, FirstPlan
<1> QED
  BY <1>3, <1>5, <1>6 DEF Unedited

\* As long as no input file is edited, a transform that is completed and has its
\* file for itself has an output, it is its own and it is whole, through pauses,
\* cancels, failures, resumed runs and crashes in the middle of a write
\* (run_batch_transform_job, write_text_atomic of BatchStateStore).
THEOREM BatchWholeUnlessEdited ==
  Spec => [](edits = 0 => \A j \in Jobs :
                /\ Status(j) = "completed" /\ job[j].kind \in Transforms
                /\ \A k \in Jobs \ {j} : FileOf[k] = FileOf[j] => job[k] = None
                => LET o == out[FileOf[j]]
                   IN  o # None /\ o.by = j /\ Whole(o.text))
<1>1. Init => UneditedInv
  BY DEF Init, UneditedInv, Unedited, UneditedFile, UneditedJob, UneditedRun, Exists, Busy
<1>2. Spec => []UneditedInv
  BY <1>1, UneditedStep, Always, PTL DEF Spec
<1>3. UneditedInv /\ OutputsInv /\ CompletedIsWhole =>
        (edits = 0 => \A j \in Jobs :
                /\ Status(j) = "completed" /\ job[j].kind \in Transforms
                /\ \A k \in Jobs \ {j} : FileOf[k] = FileOf[j] => job[k] = None
                => LET o == out[FileOf[j]]
                   IN  o # None /\ o.by = j /\ Whole(o.text))
  <2> SUFFICES ASSUME UneditedInv, OutputsInv, CompletedIsWhole, edits = 0, NEW j \in Jobs,
                      Status(j) = "completed", job[j].kind \in Transforms,
                      \A k \in Jobs \ {j} : FileOf[k] = FileOf[j] => job[k] = None
               PROVE  LET o == out[FileOf[j]]
                      IN  o # None /\ o.by = j /\ Whole(o.text)
    OBVIOUS
  <2>1. PICK f \in Files : f = FileOf[j]
    BY BatchAssumption
  <2>2. out[f] # None => ~out[f].stale
    BY DEF UneditedInv, Unedited, UneditedFile
  <2>3. ~clash[f]
    <3>1. ~Shared(f)
      BY <2>1 DEF Shared
    <3> QED
      BY <3>1 DEF OutputsInv, FileInv
  <2> QED
    BY <2>1, <2>2, <2>3 DEF CompletedIsWhole
<1> QED
  BY <1>2, <1>3, BatchCompletedIsWhole, AlwaysOutputs, PTL

=============================================================================
