---------------------------- MODULE LuaGC_proofs ----------------------------
(***************************************************************************)
(* Proofs about LuaGC, for any finite set of objects of each kind and any  *)
(* bounds: memory is safe at every moment, the marks keep the tri-colour   *)
(* invariant, nothing the program or a finalizer can reach is ever taken   *)
(* for garbage, and no userdata with a __gc is freed before its call.      *)
(***************************************************************************)
EXTENDS LuaGC, FiniteSetTheorems, WellFoundedInduction, TLAPS

Colours == Whites \cup {"gray", "black"}
Sweeps == {"sweepstring", "sweep"}
Marks == {"propagate"} \cup AtomicStages

(* What lasts as long as x does.  A table keeps its weak values, too, until *)
(* they are cleared.                                                        *)
Keeps(x) == IF x \in Threads THEN Stack(x) ELSE refs[x]

(* Only a sweep has objects left to look at, and they are in use; open     *)
(* upvalues and userdata that wait for __gc are in no list the sweep walks. *)
SweepOK ==
    /\ tosweep \subseteq alloc \ (DOMAIN open \cup tmudata)
    /\ gcstate \notin Sweeps => tosweep = {}
    /\ \A v \in DOMAIN open : open[v] \in alloc

(* What each kind of object can refer to, and the colours it never has: a   *)
(* userdata is never gray, and nothing that is traversed in the atomic step *)
(* again - a weak table, a thread, an open upvalue - is ever black.         *)
Shape ==
    /\ \A x \in Objects \ alloc : refs[x] = {} /\ colour[x] = "white"
    /\ \A x \in Objects \ Closures : refs[x] \subseteq Values
    /\ \A x \in Strings : refs[x] = {}
    /\ \A x \in Userdata : refs[x] \subseteq Tables /\ colour[x] # "gray"
    /\ \A x \in WeakTables \cup Threads \cup DOMAIN open : ~Black(x)

(* A userdata waits for its __gc once, and is dead only after it is marked  *)
(* finalized.                                                               *)
Finalizers ==
    /\ tmudata \subseteq finalized /\ finalized \subseteq Taken \cup tmudata
    /\ Taken \cap tmudata = {}
    /\ gcstate = "preserve" => \A u \in udlist : White(u) => u \in finalized
    /\ \A u \in Userdata \cap alloc : Dead(u) => u \in finalized

(* What is not dead refers to nothing dead, and only a sweep finds dead     *)
(* objects.  This is NoDangling made inductive: the marks do not appear.    *)
Safe ==
    /\ \A x \in Roots \cup tmudata : ~Dead(x)
    /\ \A x \in alloc : ~Dead(x) => \A y \in Keeps(x) : y \in alloc /\ ~Dead(y)
    /\ gcstate \notin Sweeps => \A x \in alloc : ~Dead(x)

(* The gray lists hold objects in use of the right kinds, none of them twice. *)
Lists ==
    /\ gray \cup grayagain \cup weak \subseteq alloc
    /\ gray \cap grayagain = {} /\ gray \cap weak = {}
    /\ gray \subseteq Tables \cup Closures \cup Threads
    /\ grayagain \subseteq (Tables \ WeakTables) \cup Threads
    /\ weak \subseteq WeakTables
    /\ \A x \in gray \cup grayagain \cup weak : ~Dead(x)

(* While the collector marks: the gray objects are those the lists hold, and *)
(* no black object refers to a white one.  In the atomic step this extends  *)
(* by stages to open upvalues, to the stacks of the threads that were       *)
(* traversed again, and to the userdata kept for their __gc, so that all    *)
(* that is white when the white flips is garbage.                           *)
BlackOK(E) == \A x \in alloc \ E : Black(x) => \A y \in refs[x] : ~White(y)
Marking ==
    /\ gcstate \in Marks =>
        /\ \A x \in Roots : ~White(x)
        /\ \A x \in gray \cup grayagain \cup weak : colour[x] = "gray"
        /\ \A x \in Tables \cup Closures \cup Threads :
              colour[x] = "gray" => x \in gray \cup grayagain \cup weak
        /\ \A v \in Upvals : colour[v] = "gray" => v \in DOMAIN open
        /\ BlackOK(tmudata)
    /\ gcstate \in AtomicStages => \A v \in DOMAIN open : ~White(v) => \A y \in refs[v] : ~White(y)
    /\ gcstate \in {"regray", "preserve"} =>
          grayagain \subseteq Threads /\ \A t \in grayagain : \A y \in Stack(t) : ~White(y)
    /\ gcstate = "preserve" => BlackOK({}) /\ \A u \in tmudata : Black(u)

(* Outside the mark phase only what the sweep has yet to reach is not white. *)
Sweeping ==
    gcstate \notin Marks =>
        /\ gray = {}
        /\ \A x \in alloc : \/ colour[x] = "white"
                            \/ x \in tosweep \cup tmudata
                            \/ x \in DOMAIN open /\ open[x] \in tosweep

(* The inductive invariant. *)
IInv == TypeOK /\ SweepOK /\ Shape /\ Finalizers /\ Safe /\ Lists /\ Marking /\ Sweeping

LEMMA MarkedFacts ==
    ASSUME NEW X \in SUBSET Objects, NEW col \in [Objects -> Colours],
           refs \in [Objects -> SUBSET Objects],
           \A x \in Upvals : refs[x] \subseteq Values, \A x \in Userdata : refs[x] \subseteq Tables,
           NEW M, M = MarkedFrom(X, col)
    PROVE  /\ M \in SUBSET Objects /\ \A x \in M : col[x] \in Whites
           /\ \A x \in X : col[x] \in Whites => x \in M
           /\ \A x \in M \cap (Userdata \cup Upvals) : \A y \in refs[x] : col[y] \in Whites => y \in M
           /\ \A A : X \subseteq A /\ (\A x \in Objects : refs[x] \subseteq A) => M \subseteq A
<1> DEFINE given  == {y \in X : col[y] \in Whites}
           valsof == UNION {refs[v] : v \in given \cap Upvals}
           values == given \cup {y \in valsof : col[y] \in Whites}
           tabsof == UNION {refs[u] : u \in values \cap Userdata}
<1>1. M = values \cup {y \in tabsof : col[y] \in Whites}
  BY DEF MarkedFrom
<1>2. \A y : y \in valsof <=> \E v \in given \cap Upvals : y \in refs[v]
  OBVIOUS
<1>3. \A y : y \in tabsof <=> \E u \in values \cap Userdata : y \in refs[u]
  OBVIOUS
<1>4. Upvals \cup Userdata \subseteq Objects
  BY DEF Objects
<1>5. \A y \in valsof : y \in Values
  BY <1>2
<1>6. \A y \in tabsof : y \in Tables
  BY <1>3
<1>7. \A y : y \in Tables => y \in Objects /\ y \notin Upvals /\ y \notin Userdata
  BY KindsAssumption DEF Objects
<1>8. \A y : y \in Values => y \in Objects /\ y \notin Upvals
  BY DEF Values
<1> HIDE DEF valsof, tabsof
<1>9. M \in SUBSET Objects /\ \A x \in M : col[x] \in Whites
  BY <1>1, <1>5, <1>6, <1>7, <1>8
<1>10. \A x \in X : col[x] \in Whites => x \in M
  BY <1>1
<1>11. ASSUME NEW x \in M \cap Upvals, NEW y \in refs[x], col[y] \in Whites
       PROVE  y \in M
  <2>1. x \in given
    BY <1>1, <1>5, <1>6, <1>7, <1>8, <1>11
  <2> QED BY <1>1, <1>2, <1>11, <2>1
<1>12. ASSUME NEW x \in M \cap Userdata, NEW y \in refs[x], col[y] \in Whites
       PROVE  y \in M
  <2>1. x \in values
    BY <1>1, <1>6, <1>7, <1>12
  <2> QED BY <1>1, <1>3, <1>12, <2>1
<1>13. ASSUME NEW A, X \subseteq A, \A x \in Objects : refs[x] \subseteq A
       PROVE  M \subseteq A
  BY <1>1, <1>2, <1>3, <1>4, <1>13
<1> QED BY <1>9, <1>10, <1>11, <1>12, <1>13

LEMMA PaintedFacts ==
    ASSUME NEW M \in SUBSET Objects, NEW col \in [Objects -> Colours]
    PROVE  /\ Painted(M, col) \in [Objects -> Colours]
           /\ \A x \in Objects \ M : Painted(M, col)[x] = col[x]
           /\ \A x \in M : Painted(M, col)[x] = IF x \in Userdata \cup (Upvals \ DOMAIN open)
                                               THEN "black" ELSE "gray"
BY DEF Painted, Colours

(* What one call of markobject and its like does to the marks: col before, *)
(* new after it, and what joins the gray list.                             *)
MarkedAs(X, col, new, queued) ==
    /\ new \in [Objects -> Colours]
    /\ queued \subseteq (Tables \cup Closures \cup Threads) \cap alloc
    /\ \A x \in X : new[x] \notin Whites
    /\ \A x \in Objects : col[x] \notin Whites => new[x] = col[x]
    /\ \A x \in Objects : new[x] # col[x] => x \in alloc /\ new[x] \in {"gray", "black"}
    /\ \A x \in Objects : col[x] \in Whites /\ new[x] = "black" =>
          x \in Userdata \cup (Upvals \ DOMAIN open) /\ \A y \in refs[x] : new[y] \notin Whites
    /\ \A x \in Objects : col[x] \in Whites /\ new[x] = "gray" => x \notin Userdata
    /\ \A x \in Upvals : col[x] \in Whites /\ new[x] = "gray" =>
          x \in DOMAIN open /\ \A y \in refs[x] : new[y] \notin Whites
    /\ \A x \in Tables \cup Closures \cup Threads :
          x \in queued <=> col[x] \in Whites /\ new[x] = "gray"

LEMMA MarkedAsFacts ==
    ASSUME TypeOK, Shape, \A x \in Objects : refs[x] \subseteq alloc,
           NEW X, X \subseteq alloc, NEW col \in [Objects -> Colours],
           NEW M, M = MarkedFrom(X, col)
    PROVE  MarkedAs(X, col, Painted(M, col), Queued(M))
<1> DEFINE new == Painted(M, col)
<1>1. Upvals \subseteq Objects /\ Userdata \subseteq Objects
  BY DEF Objects
<1>2. /\ \A x \in Upvals : refs[x] \subseteq Values
      /\ \A x \in Userdata : refs[x] \subseteq Tables
  BY <1>1, KindsAssumption DEF Shape
<1>3. alloc \in SUBSET Objects /\ refs \in [Objects -> SUBSET Objects]
  BY DEF TypeOK
<1>4. /\ M \in SUBSET Objects /\ \A x \in M : col[x] \in Whites
      /\ \A x \in X : col[x] \in Whites => x \in M
      /\ \A x \in M \cap (Userdata \cup Upvals) : \A y \in refs[x] : col[y] \in Whites => y \in M
      /\ \A A : X \subseteq A /\ (\A x \in Objects : refs[x] \subseteq A) => M \subseteq A
  <2>1. X \in SUBSET Objects
    BY <1>3
  <2> QED BY <1>2, <1>3, <2>1, MarkedFacts
<1>5. M \subseteq alloc
  BY <1>4
<1>6. /\ new \in [Objects -> Colours]
      /\ \A x \in Objects \ M : new[x] = col[x]
      /\ \A x \in M : new[x] = IF x \in Userdata \cup (Upvals \ DOMAIN open) THEN "black" ELSE "gray"
  BY <1>4, PaintedFacts
<1> HIDE DEF new
<1>7. \A x \in Objects : new[x] \notin Whites <=> x \in M \/ col[x] \notin Whites
  BY <1>4, <1>6 DEF Whites
<1>8. \A x \in Objects : col[x] \in Whites /\ new[x] \notin Whites => x \in M
  BY <1>7
<1>9. \A x \in M \cap (Userdata \cup Upvals) : \A y \in refs[x] : new[y] \notin Whites
  BY <1>3, <1>4, <1>7
<1>10. Queued(M) = M \cap (Tables \cup Closures \cup Threads)
  BY DEF Queued
<1>11. \A x \in X : new[x] \notin Whites
  BY <1>3, <1>4, <1>7
<1>12. \A x \in Objects : col[x] \notin Whites => new[x] = col[x]
  BY <1>4, <1>6
<1>13. \A x \in Objects : new[x] # col[x] => x \in alloc /\ new[x] \in {"gray", "black"}
  BY <1>5, <1>6
<1>14. \A x \in Objects : col[x] \in Whites /\ new[x] = "black" =>
          x \in Userdata \cup (Upvals \ DOMAIN open) /\ \A y \in refs[x] : new[y] \notin Whites
  BY <1>6, <1>8, <1>9 DEF Whites
<1>15. \A x \in Objects : col[x] \in Whites /\ new[x] = "gray" => x \notin Userdata
  BY <1>6, <1>8 DEF Whites
<1>16. \A x \in Upvals : col[x] \in Whites /\ new[x] = "gray" =>
          x \in DOMAIN open /\ \A y \in refs[x] : new[y] \notin Whites
  BY <1>1, <1>6, <1>8, <1>9 DEF Whites
<1>17. \A x \in Tables \cup Closures \cup Threads :
          x \in Queued(M) <=> col[x] \in Whites /\ new[x] = "gray"
  <2>1. \A x \in Tables \cup Closures \cup Threads : x \in Objects /\ x \notin Userdata \cup Upvals
    BY KindsAssumption DEF Objects
  <2> QED BY <1>4, <1>6, <1>8, <1>10, <2>1 DEF Whites
<1> QED
  BY <1>5, <1>6, <1>10, <1>11, <1>12, <1>13, <1>14, <1>15, <1>16, <1>17 DEF MarkedAs, new

LEMMA StackFacts ==
    /\ \A t, y : y \in Stack(t) <=> y \in refs[t] \/ \E v \in DOMAIN open : open[v] = t /\ y \in refs[v]
    /\ \A t, y : y \in Stack(t)' <=> y \in refs'[t] \/ \E v \in DOMAIN open' : open'[v] = t /\ y \in refs'[v]
BY DEF Stack

(* Outside the sweeps no field at all points to freed memory. *)
LEMMA HeapClosed ==
    ASSUME TypeOK, Shape, Safe, gcstate \notin Sweeps
    PROVE  /\ \A x \in Objects : refs[x] \subseteq alloc
           /\ \A x \in Threads : Stack(x) \subseteq alloc
           /\ \A x \in alloc : colour[x] # "dead"
<1>1. alloc \subseteq Objects
  BY DEF TypeOK
<1>2. \A x \in alloc : ~Dead(x) /\ \A y \in Keeps(x) : y \in alloc
  BY DEF Safe
<1>3. \A x \in alloc : refs[x] \subseteq Keeps(x)
  BY DEF Keeps, Stack
<1>4. \A x \in Objects : refs[x] \subseteq alloc
  BY <1>2, <1>3 DEF Shape
<1>5. \A x \in Threads : Stack(x) \subseteq alloc
  <2>1. Threads \cup DOMAIN open \subseteq Objects
    BY <1>1 DEF Objects, TypeOK
  <2> QED BY <1>4, <2>1, StackFacts
<1> QED BY <1>2, <1>4, <1>5 DEF Dead

LEMMA InitInv == Init => IInv
<1> SUFFICES ASSUME Init PROVE IInv
  OBVIOUS
<1>1. Roots \subseteq Objects /\ Roots \subseteq Threads \cup Tables
  BY RootsAssumption DEF Roots, Objects
<1>2. DOMAIN open = {} /\ \A x \in Objects : refs[x] = {} /\ colour[x] = "white"
  BY DEF Init
<1>3. Threads \cup Tables \cup Closures \cup Upvals \cup Strings \cup Userdata \cup WeakTables \subseteq Objects
  BY WeakAssumption DEF Objects
<1>4. TypeOK
  <2>1. Userdata \cap alloc = {}
    BY <1>1, KindsAssumption DEF Init
  <2> QED BY <1>1, <1>2, <2>1 DEF Init, TypeOK, Taken, Whites
<1>5. SweepOK /\ Shape /\ Finalizers
  BY <1>2, <1>3 DEF Init, SweepOK, Shape, Finalizers, Black, Dead
<1>6. Safe
  <2>1. \A x \in alloc : Keeps(x) = {}
    BY <1>1, <1>2 DEF Init, Keeps, Stack
  <2> QED BY <1>1, <1>2, <2>1 DEF Init, Safe, Dead
<1>7. Lists /\ Marking /\ Sweeping
  BY <1>1, <1>2 DEF Init, Lists, Marking, Sweeping, Marks, AtomicStages
<1> QED BY <1>4, <1>5, <1>6, <1>7 DEF IInv

-----------------------------------------------------------------------------
(* The mark phase. *)

(* Marks only get darker. *)
Darkened ==
    /\ colour' \in [Objects -> Colours]
    /\ \A x \in Objects : colour'[x] # colour[x] => x \in alloc /\ colour'[x] \in {"gray", "black"}
    /\ \A x \in Userdata : colour'[x] # "gray"
    /\ \A x \in WeakTables \cup Threads \cup DOMAIN open : colour'[x] # "black"

LEMMA DarkenedHeap ==
    ASSUME IInv, Darkened, UNCHANGED <<heap, tosweep>>, tmudata' \subseteq alloc,
           gcstate \notin Sweeps, gcstate' \in Marks
    PROVE  /\ SweepOK' /\ Shape' /\ Safe' /\ Sweeping'
           /\ \A u \in alloc' : ~Dead(u)'
<1>1. UNCHANGED <<alloc, refs, open, tosweep>>
  BY DEF heap
<1>2. gcstate' \notin Sweeps
  BY DEF Marks, Sweeps, AtomicStages
<1>3. alloc \subseteq Objects /\ Roots \subseteq alloc /\ udlist \cup tmudata \subseteq alloc
  BY DEF IInv, TypeOK
<1>4. \A x \in alloc : colour'[x] # "dead"
  BY <1>3, HeapClosed DEF IInv, Darkened
<1>5. SweepOK'
  <2>1. tosweep' = {}
    BY <1>1 DEF IInv, SweepOK
  <2> QED BY <1>1, <2>1 DEF IInv, SweepOK
<1>6. Shape'
  BY <1>1 DEF IInv, Shape, Darkened, Black
<1>7. \A u \in alloc' : ~Dead(u)'
  BY <1>1, <1>4 DEF Dead
<1>8. Safe'
  <2>1. \A x : Keeps(x)' = Keeps(x)
    BY <1>1 DEF Keeps, Stack
  <2>2. \A x \in alloc : ~Dead(x) /\ ~Dead(x)'
    BY <1>4, HeapClosed DEF IInv, Dead
  <2> QED BY <1>1, <1>3, <2>1, <2>2 DEF IInv, Safe
<1>9. Sweeping'
  BY DEF Sweeping
<1> QED BY <1>5, <1>6, <1>7, <1>8, <1>9

LEMMA DarkenedStep ==
    ASSUME IInv, Darkened, UNCHANGED <<heap, udata, tosweep>>,
           gcstate \notin Sweeps, gcstate' \in Marks, gcstate' = "preserve" => gcstate = "preserve"
    PROVE  SweepOK' /\ Shape' /\ Finalizers' /\ Safe' /\ Sweeping'
<1>1. UNCHANGED <<alloc, finalized, Taken, udlist, tmudata>>
  BY DEF heap, udata, Taken
<1>2. udlist \subseteq Objects /\ tmudata \subseteq alloc /\ alloc \subseteq Objects
  BY DEF IInv, TypeOK
<1>3. SweepOK' /\ Shape' /\ Safe' /\ Sweeping' /\ \A u \in alloc' : ~Dead(u)'
  BY <1>1, <1>2, DarkenedHeap
<1>4. \A u \in udlist : colour'[u] \in Whites => colour[u] \in Whites
  BY <1>2 DEF Darkened, Whites
<1>5. Finalizers'
  BY <1>1, <1>3, <1>4 DEF IInv, Finalizers, White
<1> QED BY <1>3, <1>5

(* What MarkedAs says of the marks that are left. *)
LEMMA MarkedAsDarkened ==
    ASSUME TypeOK, Shape, NEW X, NEW new, NEW Q, MarkedAs(X, colour, new, Q), colour' = new
    PROVE  Darkened
<1>1. WeakTables \cup Threads \cup DOMAIN open \subseteq Objects /\ Userdata \subseteq Objects
  BY WeakAssumption DEF Objects, TypeOK
<1>2. \A x \in WeakTables \cup Threads \cup DOMAIN open : x \notin Userdata \cup (Upvals \ DOMAIN open)
  BY WeakAssumption, KindsAssumption DEF TypeOK
<1>3. \A x \in Userdata : new[x] # "gray"
  BY <1>1 DEF MarkedAs, Shape, Whites
<1>4. \A x \in WeakTables \cup Threads \cup DOMAIN open : new[x] # "black"
  BY <1>1, <1>2 DEF MarkedAs, Shape, Whites, Black
<1> QED BY <1>3, <1>4 DEF MarkedAs, Darkened

(* Before a cycle begins everything is white, but for tmudata. *)
LEMMA AllWhite ==
    ASSUME IInv, gcstate \in {"pause", "finalize"}
    PROVE  \A x \in Objects : x \notin Userdata => colour[x] = "white"
<1>1. gcstate \notin Marks /\ gcstate \notin Sweeps
  BY DEF Marks, Sweeps, AtomicStages
<1>2. tosweep = {}
  BY <1>1 DEF IInv, SweepOK
<1>3. tmudata \subseteq Userdata
  BY DEF IInv, TypeOK
<1>4. \A x \in alloc : colour[x] = "white" \/ x \in tmudata
  BY <1>1, <1>2 DEF IInv, Sweeping
<1>5. \A x \in Objects \ alloc : colour[x] = "white"
  BY DEF IInv, Shape
<1> QED BY <1>3, <1>4, <1>5

LEMMA MarkRootStep ==
    ASSUME IInv, MarkRoot, gcstate \in {"pause", "finalize"},
           UNCHANGED <<heap, udata, tosweep>>, full' \in {"no", "sweep", "mark"}
    PROVE  IInv'
<1> DEFINE new == Painted(MarkedFrom(Roots, colour), colour)
           Q   == Queued(MarkedFrom(Roots, colour))
<1>1. UNCHANGED <<alloc, refs, open, finalized, Taken, udlist, tmudata, tosweep>>
  BY DEF heap, udata, Taken
<1>2. gcstate' = "propagate" /\ gcstate' \in Marks /\ gcstate \notin Sweeps
  BY DEF MarkRoot, Marks, Sweeps
<1>3. TypeOK /\ Shape /\ Safe /\ Roots \subseteq alloc /\ alloc \subseteq Objects
  BY DEF IInv, TypeOK
<1>4. \A x \in Objects : refs[x] \subseteq alloc
  BY <1>2, <1>3, HeapClosed
<1>5. colour \in [Objects -> Colours]
  BY DEF IInv, TypeOK, Colours
<1>6. MarkedAs(Roots, colour, new, Q)
  BY <1>3, <1>4, <1>5, MarkedAsFacts
<1>7. colour' = new /\ gray' = Q /\ grayagain' = {} /\ weak' = {}
  BY DEF MarkRoot
<1> HIDE DEF new, Q
<1>8. Darkened
  BY <1>3, <1>6, <1>7, MarkedAsDarkened
<1>9. SweepOK' /\ Shape' /\ Finalizers' /\ Safe' /\ Sweeping'
  BY <1>2, <1>8, DarkenedStep
<1>10. TypeOK'
  BY <1>1, <1>2, <1>3, <1>6, <1>7 DEF IInv, TypeOK, MarkedAs, Colours
<1>11. Tables \cup Closures \cup Threads \cup Upvals \subseteq Objects \ Userdata
  BY KindsAssumption DEF Objects
<1>12. \A x \in Objects : x \notin Userdata => colour[x] = "white"
  BY AllWhite
<1>13. \A x \in Q : colour'[x] = "gray"
  BY <1>6, <1>7 DEF MarkedAs
<1>14. Lists'
  BY <1>1, <1>6, <1>7, <1>13 DEF Lists, MarkedAs, Dead
<1>15. Marking'
  <2>1. \A x \in Roots : ~White(x)'
    BY <1>6, <1>7 DEF MarkedAs, White
  <2>2. \A x \in Tables \cup Closures \cup Threads : colour'[x] = "gray" => x \in gray'
    BY <1>6, <1>7, <1>11, <1>12 DEF MarkedAs, Whites
  <2>3. \A v \in Upvals : colour'[v] = "gray" => v \in DOMAIN open'
    BY <1>1, <1>6, <1>7, <1>11, <1>12 DEF MarkedAs, Whites
  <2>4. BlackOK(tmudata)'
    <3>1. \A x \in alloc \ tmudata : colour[x] \in Whites
      <4>1. gcstate \notin Marks /\ tosweep = {}
        BY <1>2 DEF IInv, SweepOK, Marks, AtomicStages
      <4> QED BY <4>1 DEF IInv, Sweeping, Whites
    <3> QED BY <1>1, <1>3, <1>6, <1>7, <3>1 DEF BlackOK, MarkedAs, Black, White
  <2> QED BY <1>2, <1>7, <1>13, <2>1, <2>2, <2>3, <2>4 DEF Marking, AtomicStages
<1> QED BY <1>9, <1>10, <1>14, <1>15 DEF IInv

LEMMA StartStep == ASSUME IInv, Start PROVE IInv'
<1>1. full' \in {"no", "sweep", "mark"}
  BY DEF IInv, TypeOK, Start
<1> QED BY <1>1, MarkRootStep DEF Start

LEMMA FullRestartStep == ASSUME IInv, FullRestart PROVE IInv'
BY MarkRootStep DEF FullRestart

LEMMA TraverseStep ==
    ASSUME IInv, gcstate \in Marks, NEW x \in gray, Traverse(x),
           UNCHANGED <<heap, udata, gcstate, tosweep, full>>
    PROVE  IInv'
<1> DEFINE new == Painted(MarkedFrom(Children(x), colour), colour)
           Q   == Queued(MarkedFrom(Children(x), colour))
<1>1. UNCHANGED <<alloc, refs, open, finalized, Taken, udlist, tmudata, tosweep, gcstate, full>>
  BY DEF heap, udata, Taken
<1>2. gcstate \notin Sweeps
  BY DEF Marks, AtomicStages, Sweeps
<1>3. TypeOK /\ Shape /\ Safe /\ Lists /\ Roots \subseteq alloc /\ alloc \subseteq Objects
  BY DEF IInv, TypeOK
<1>4. x \in alloc /\ x \in Objects /\ x \in Tables \cup Closures \cup Threads
  BY <1>3 DEF Lists
<1>5. /\ colour[x] = "gray"
      /\ \A y \in Roots : ~White(y)
      /\ \A y \in gray \cup grayagain \cup weak : colour[y] = "gray"
      /\ \A y \in Tables \cup Closures \cup Threads :
            colour[y] = "gray" => y \in gray \cup grayagain \cup weak
      /\ \A v \in Upvals : colour[v] = "gray" => v \in DOMAIN open
      /\ BlackOK(tmudata)
  BY DEF IInv, Marking
<1>6. x \in Threads => x \notin WeakTables
  BY WeakAssumption, KindsAssumption
<1>7. /\ x \in WeakTables => Children(x) = {}
      /\ x \in Threads => Children(x) = Stack(x)
      /\ x \notin WeakTables \cup Threads => Children(x) = refs[x]
  BY <1>6 DEF Children
<1>8. \A y \in Objects : refs[y] \subseteq alloc
  BY <1>2, <1>3, HeapClosed
<1>9. Children(x) \subseteq alloc
  BY <1>2, <1>3, <1>4, <1>7, <1>8, HeapClosed
<1>10. colour \in [Objects -> Colours]
  BY DEF IInv, TypeOK, Colours
<1>11. MarkedAs(Children(x), colour, new, Q)
  BY <1>3, <1>8, <1>9, <1>10, MarkedAsFacts
<1>12. /\ colour' = [new EXCEPT ![x] = IF x \in WeakTables \cup Threads THEN "gray" ELSE "black"]
       /\ gray' = (gray \ {x}) \cup Q
       /\ weak' = IF x \in WeakTables THEN weak \cup {x} ELSE weak
       /\ grayagain' = IF x \in Threads THEN grayagain \cup {x} ELSE grayagain
  BY DEF Traverse
<1> HIDE DEF new, Q
<1>13. new \in [Objects -> Colours] /\ new[x] = "gray" /\ x \notin Q
  BY <1>4, <1>5, <1>11 DEF MarkedAs, Whites
<1>14. /\ colour' \in [Objects -> Colours]
       /\ \A y \in Objects \ {x} : colour'[y] = new[y]
       /\ colour'[x] = IF x \in WeakTables \cup Threads THEN "gray" ELSE "black"
  BY <1>4, <1>12, <1>13 DEF Colours
<1>15. \A y \in Objects : colour'[y] \in Whites <=> new[y] \in Whites
  BY <1>13, <1>14 DEF Whites
<1>16. \A y \in Objects : colour[y] \notin Whites => colour'[y] \notin Whites
  BY <1>11, <1>15 DEF MarkedAs
<1>17. Darkened
  <2>1. x \notin Userdata /\ x \notin DOMAIN open
    BY <1>4, KindsAssumption DEF IInv, TypeOK
  <2>2. WeakTables \cup Threads \cup DOMAIN open \subseteq Objects /\ Userdata \subseteq Objects
    BY WeakAssumption DEF Objects, IInv, TypeOK
  <2>3. /\ \A y \in Userdata : new[y] # "gray"
        /\ \A y \in WeakTables \cup Threads \cup DOMAIN open : new[y] # "black"
    <3>1. \A y \in WeakTables \cup Threads \cup DOMAIN open : y \notin Userdata \cup (Upvals \ DOMAIN open)
      BY WeakAssumption, KindsAssumption DEF IInv, TypeOK
    <3> QED BY <1>3, <1>11, <2>2, <3>1 DEF MarkedAs, Shape, Whites, Black
  <2>4. \A y \in Objects : colour'[y] # colour[y] => y \in alloc /\ colour'[y] \in {"gray", "black"}
    BY <1>4, <1>11, <1>14 DEF MarkedAs
  <2> QED BY <1>4, <1>14, <2>1, <2>2, <2>3, <2>4 DEF Darkened
<1>18. SweepOK' /\ Shape' /\ Finalizers' /\ Safe' /\ Sweeping'
  BY <1>1, <1>2, <1>17, DarkenedStep
<1>19. Q \subseteq (Tables \cup Closures \cup Threads) \cap alloc
  BY <1>11 DEF MarkedAs
<1>20. \A y \in Q : colour[y] \in Whites
  BY <1>11, <1>19 DEF MarkedAs
<1>21. TypeOK'
  BY <1>1, <1>3, <1>4, <1>12, <1>14, <1>19 DEF IInv, TypeOK, Colours
<1>22. \A y \in gray' \cup grayagain' \cup weak' : colour'[y] = "gray"
  <2>1. \A y \in Q : new[y] = "gray" /\ y \in Objects
    BY <1>3, <1>11, <1>19 DEF MarkedAs
  <2>2. \A y \in (gray \cup grayagain \cup weak) \ {x} : colour'[y] = "gray"
    BY <1>3, <1>5, <1>11, <1>14 DEF MarkedAs, Lists, Whites
  <2>3. x \notin grayagain \cup weak
    BY <1>3 DEF Lists
  <2> QED BY <1>12, <1>13, <1>14, <2>1, <2>2, <2>3
<1>23. Lists'
  <2>1. Q \cap (grayagain \cup weak) = {}
    BY <1>5, <1>20 DEF Whites
  <2>2. gray' \cup grayagain' \cup weak' \subseteq alloc'
    BY <1>1, <1>3, <1>4, <1>12, <1>19 DEF Lists
  <2>3. gray' \cap grayagain' = {} /\ gray' \cap weak' = {}
    BY <1>3, <1>12, <1>13, <2>1 DEF Lists
  <2>4. \A y \in gray' \cup grayagain' \cup weak' : ~Dead(y)'
    BY <1>22 DEF Dead
  <2> QED BY <1>3, <1>12, <1>19, <2>2, <2>3, <2>4 DEF Lists
<1>24. \A y \in Tables \cup Closures \cup Threads :
          colour'[y] = "gray" => y \in gray' \cup grayagain' \cup weak'
  <2> SUFFICES ASSUME NEW y \in Tables \cup Closures \cup Threads, colour'[y] = "gray"
               PROVE  y \in gray' \cup grayagain' \cup weak'
    OBVIOUS
  <2>1. CASE y = x
    BY <1>12, <1>14, <2>1
  <2>2. CASE y # x
    <3>1. new[y] = "gray" /\ y \in Objects
      BY <1>14, <2>2 DEF Objects
    <3>2. colour[y] = "gray" \/ y \in Q
      BY <1>11, <3>1 DEF MarkedAs
    <3> QED BY <1>5, <1>12, <2>2, <3>2
  <2> QED BY <2>1, <2>2
<1>25. \A v \in Upvals : colour'[v] = "gray" => v \in DOMAIN open'
  <2>1. \A v \in Upvals : v # x /\ v \in Objects
    BY <1>4, KindsAssumption DEF Objects
  <2>2. \A v \in Upvals : new[v] = "gray" => colour[v] = "gray" \/ v \in DOMAIN open
    BY <1>11, <2>1 DEF MarkedAs
  <2> QED BY <1>1, <1>5, <1>14, <2>1, <2>2
<1>26. \A y \in alloc : /\ \A z \in refs[y] : z \in Objects
                        /\ colour'[y] = "black" =>
                              colour[y] = "black" \/ \A z \in refs[y] : colour'[z] \notin Whites
  <2> SUFFICES ASSUME NEW y \in alloc, colour'[y] = "black", colour[y] # "black"
               PROVE  \A z \in refs[y] : colour'[z] \notin Whites
    BY <1>3, <1>8
  <2>1. \A z \in refs[y] : z \in Objects
    BY <1>3, <1>8
  <2>2. CASE y = x
    <3>1. Children(x) = refs[x]
      BY <1>7, <1>14, <2>2
    <3> QED BY <1>11, <1>15, <2>1, <2>2, <3>1 DEF MarkedAs
  <2>3. CASE y # x
    <3>1. new[y] = "black" /\ y \in Objects
      BY <1>3, <1>14, <2>3
    <3>2. colour[y] \in Whites
      BY <1>11, <3>1 DEF MarkedAs
    <3>3. \A z \in refs[y] : new[z] \notin Whites
      BY <1>11, <3>1, <3>2 DEF MarkedAs
    <3> QED BY <1>15, <2>1, <3>3
  <2> QED BY <2>2, <2>3
<1>27. BlackOK(tmudata)'
  BY <1>1, <1>3, <1>5, <1>16, <1>26 DEF BlackOK, Black, White
<1>28. gcstate \in AtomicStages =>
          \A v \in DOMAIN open : colour'[v] \notin Whites => \A y \in refs[v] : colour'[y] \notin Whites
  <2> SUFFICES ASSUME gcstate \in AtomicStages, NEW v \in DOMAIN open, colour'[v] \notin Whites
               PROVE  \A y \in refs[v] : colour'[y] \notin Whites
    OBVIOUS
  <2>1. v \in Upvals /\ v \in Objects /\ \A y \in refs[v] : y \in Objects
    BY <1>3, <1>8 DEF IInv, TypeOK
  <2>2. CASE colour[v] \in Whites
    <3>1. new[v] \notin Whites /\ new[v] \in Colours
      BY <1>13, <1>15, <2>1
    <3>2. new[v] = "gray"
      BY <1>11, <2>1, <2>2, <3>1, KindsAssumption DEF MarkedAs, Colours
    <3> QED BY <1>11, <1>15, <2>1, <2>2, <3>2 DEF MarkedAs
  <2>3. CASE colour[v] \notin Whites
    <3>1. \A y \in refs[v] : colour[y] \notin Whites
      BY <2>3 DEF IInv, Marking, White
    <3> QED BY <1>16, <2>1, <3>1
  <2> QED BY <2>2, <2>3
<1>29. gcstate \in {"regray", "preserve"} =>
          grayagain' \subseteq Threads /\ \A t \in grayagain' : \A y \in Stack(t) : colour'[y] \notin Whites
  <2> SUFFICES ASSUME gcstate \in {"regray", "preserve"}
               PROVE  grayagain' \subseteq Threads /\ \A t \in grayagain' : \A y \in Stack(t) : colour'[y] \notin Whites
    OBVIOUS
  <2>1. grayagain \subseteq Threads /\ \A t \in grayagain : \A y \in Stack(t) : colour[y] \notin Whites
    BY DEF IInv, Marking, White
  <2>2. grayagain' \subseteq Threads
    BY <1>12, <2>1
  <2>3. \A t \in Threads : \A y \in Stack(t) : y \in Objects
    BY <1>2, <1>3, HeapClosed
  <2>4. x \in Threads => \A y \in Stack(x) : colour'[y] \notin Whites
    BY <1>7, <1>11, <1>15, <2>3 DEF MarkedAs
  <2> QED BY <1>12, <1>16, <2>1, <2>2, <2>3, <2>4
<1>30. gcstate = "preserve" => BlackOK({})' /\ \A u \in tmudata' : Black(u)'
  <2> SUFFICES ASSUME gcstate = "preserve" PROVE BlackOK({})' /\ \A u \in tmudata' : Black(u)'
    OBVIOUS
  <2>1. BlackOK({}) /\ \A u \in tmudata : colour[u] = "black" /\ u \in Objects
    BY <1>3 DEF IInv, Marking, Black, TypeOK
  <2>2. BlackOK({})'
    BY <1>1, <1>3, <1>16, <1>26, <2>1 DEF BlackOK, Black, White
  <2>3. \A u \in tmudata : u # x /\ new[u] = "black"
    BY <1>5, <1>11, <2>1 DEF MarkedAs, Whites
  <2> QED BY <1>1, <1>14, <2>1, <2>2, <2>3 DEF Black
<1>31. \A y \in Roots : ~White(y)'
  BY <1>3, <1>5, <1>16 DEF White
<1>32. \A t : Stack(t)' = Stack(t)
  BY <1>1 DEF Stack
<1>33. Marking'
  BY <1>1, <1>22, <1>24, <1>25, <1>27, <1>28, <1>29, <1>30, <1>31, <1>32 DEF Marking, White
<1> QED BY <1>18, <1>21, <1>23, <1>33 DEF IInv

LEMMA PropagateStep == ASSUME IInv, Propagate PROVE IInv'
<1>1. gcstate \in Marks /\ \E x \in gray : Traverse(x)
  BY DEF Propagate, Marks
<1> QED BY <1>1, TraverseStep DEF Propagate

(* A step of the mark phase that marks X, and moves objects from one list  *)
(* to another.                                                             *)
LEMMA MarkedMarking ==
    ASSUME IInv, gcstate \in Marks, NEW X, NEW Q, MarkedAs(X, colour, colour', Q),
           UNCHANGED <<heap, udata>>,
           gray' \cup grayagain' \cup weak' = gray \cup grayagain \cup weak \cup Q
    PROVE  /\ \A x \in Objects : colour[x] \notin Whites => colour'[x] \notin Whites
           /\ \A x \in Roots : ~White(x)'
           /\ \A x \in gray' \cup grayagain' \cup weak' : colour'[x] = "gray" /\ ~Dead(x)'
           /\ \A x \in Tables \cup Closures \cup Threads :
                 colour'[x] = "gray" => x \in gray' \cup grayagain' \cup weak'
           /\ \A v \in Upvals : colour'[v] = "gray" => v \in DOMAIN open'
           /\ BlackOK(tmudata)'
           /\ \A v \in DOMAIN open : colour[v] \in Whites /\ colour'[v] \notin Whites =>
                 \A y \in refs[v] : colour'[y] \notin Whites
<1>1. UNCHANGED <<alloc, refs, open, tmudata>>
  BY DEF heap, udata, Taken
<1>2. gcstate \notin Sweeps
  BY DEF Marks, AtomicStages, Sweeps
<1>3. TypeOK /\ Shape /\ Safe /\ Lists /\ Roots \subseteq alloc /\ alloc \subseteq Objects
  BY DEF IInv, TypeOK
<1>4. /\ \A y \in Roots : ~White(y)
      /\ \A y \in gray \cup grayagain \cup weak : colour[y] = "gray"
      /\ \A y \in Tables \cup Closures \cup Threads :
            colour[y] = "gray" => y \in gray \cup grayagain \cup weak
      /\ \A v \in Upvals : colour[v] = "gray" => v \in DOMAIN open
      /\ BlackOK(tmudata)
  BY DEF IInv, Marking
<1>5. \A y \in Objects : refs[y] \subseteq alloc
  BY <1>2, <1>3, HeapClosed
<1>6. Tables \cup Closures \cup Threads \cup Upvals \subseteq Objects
  BY DEF Objects
<1>7. \A x \in Objects : colour[x] \notin Whites => colour'[x] \notin Whites
  BY DEF MarkedAs
<1>8. \A x \in Roots : ~White(x)'
  BY <1>3, <1>4, <1>7 DEF White
<1>9. \A x \in gray' \cup grayagain' \cup weak' : colour'[x] = "gray" /\ ~Dead(x)'
  <2>1. gray \cup grayagain \cup weak \subseteq Objects
    BY <1>3 DEF Lists
  <2>2. \A x \in gray \cup grayagain \cup weak : colour'[x] = "gray"
    BY <1>4, <2>1 DEF MarkedAs, Whites
  <2>3. \A x \in Q : colour'[x] = "gray"
    BY DEF MarkedAs
  <2> QED BY <2>2, <2>3 DEF Dead
<1>10. \A x \in Tables \cup Closures \cup Threads :
          colour'[x] = "gray" => x \in gray' \cup grayagain' \cup weak'
  <2>1. \A x \in Tables \cup Closures \cup Threads :
           colour'[x] = "gray" => x \in Q \/ colour[x] = "gray"
    BY <1>6 DEF MarkedAs
  <2> QED BY <1>4, <2>1
<1>11. \A v \in Upvals : colour'[v] = "gray" => v \in DOMAIN open'
  <2>1. \A v \in Upvals : colour'[v] = "gray" => v \in DOMAIN open \/ colour[v] = "gray"
    BY <1>6 DEF MarkedAs
  <2> QED BY <1>1, <1>4, <2>1
<1>12. BlackOK(tmudata)'
  <2>1. \A x \in alloc : colour'[x] = "black" =>
           colour[x] = "black" \/ \A z \in refs[x] : colour'[z] \notin Whites
    BY <1>3 DEF MarkedAs
  <2>2. \A x \in alloc : \A z \in refs[x] : z \in Objects
    BY <1>3, <1>5
  <2> QED BY <1>1, <1>4, <1>7, <2>1, <2>2 DEF BlackOK, Black, White
<1>13. ASSUME NEW v \in DOMAIN open, colour[v] \in Whites, colour'[v] \notin Whites
       PROVE  \A y \in refs[v] : colour'[y] \notin Whites
  <2>1. v \in Upvals /\ v \in Objects
    BY <1>3 DEF TypeOK
  <2>2. colour'[v] = "gray"
    BY <1>13, <2>1, KindsAssumption DEF MarkedAs, Colours
  <2> QED BY <1>13, <2>1, <2>2 DEF MarkedAs
<1> QED BY <1>7, <1>8, <1>9, <1>10, <1>11, <1>12, <1>13

LEMMA RemarkUpvalsStep == ASSUME IInv, RemarkUpvals PROVE IInv'
<1> DEFINE X   == UNION {refs[v] : v \in {u \in DOMAIN open : colour[u] = "gray"}}
           Q   == Queued(MarkedFrom(X, colour))
<1>1. /\ UNCHANGED <<heap, udata, grayagain, weak, tosweep, full>>
      /\ UNCHANGED <<alloc, refs, open, finalized, Taken, udlist, tmudata>>
      /\ gcstate = "propagate" /\ gray = {} /\ gcstate' = "remark"
      /\ colour' = Painted(MarkedFrom(X, colour), colour) /\ gray' = Q
  BY DEF RemarkUpvals, heap, udata, Taken
<1>2. gcstate \in Marks /\ gcstate \notin Sweeps /\ gcstate' \in Marks
  BY <1>1 DEF Marks, AtomicStages, Sweeps
<1>3. TypeOK /\ Shape /\ Safe /\ Lists /\ alloc \subseteq Objects
  BY DEF IInv, TypeOK
<1>4. \A x \in Objects : refs[x] \subseteq alloc
  BY <1>2, <1>3, HeapClosed
<1>5. DOMAIN open \subseteq Objects
  BY <1>3 DEF TypeOK
<1>6. \A v \in DOMAIN open : colour[v] = "gray" => refs[v] \subseteq X
  OBVIOUS
<1>7. X \subseteq alloc
  BY <1>4, <1>5
<1> HIDE DEF X
<1>8. colour \in [Objects -> Colours]
  BY DEF IInv, TypeOK, Colours
<1>9. MarkedAs(X, colour, colour', Q)
  BY <1>1, <1>3, <1>4, <1>7, <1>8, MarkedAsFacts
<1> HIDE DEF Q
<1>10. SweepOK' /\ Shape' /\ Finalizers' /\ Safe' /\ Sweeping'
  BY <1>1, <1>2, <1>3, <1>9, MarkedAsDarkened, DarkenedStep
<1>11. gray' \cup grayagain' \cup weak' = gray \cup grayagain \cup weak \cup Q
  BY <1>1
<1>12. /\ \A x \in Objects : colour[x] \notin Whites => colour'[x] \notin Whites
       /\ \A x \in Roots : ~White(x)'
       /\ \A x \in gray' \cup grayagain' \cup weak' : colour'[x] = "gray" /\ ~Dead(x)'
       /\ \A x \in Tables \cup Closures \cup Threads :
             colour'[x] = "gray" => x \in gray' \cup grayagain' \cup weak'
       /\ \A v \in Upvals : colour'[v] = "gray" => v \in DOMAIN open'
       /\ BlackOK(tmudata)'
       /\ \A v \in DOMAIN open : colour[v] \in Whites /\ colour'[v] \notin Whites =>
             \A y \in refs[v] : colour'[y] \notin Whites
  BY <1>1, <1>2, <1>9, <1>11, MarkedMarking
<1>13. TypeOK'
  BY <1>1, <1>3, <1>9 DEF TypeOK, MarkedAs, Colours, AtomicStages
<1>14. \A y \in grayagain \cup weak : y \notin Q
  <2>1. \A y \in grayagain \cup weak : colour[y] = "gray"
    BY <1>2 DEF IInv, Marking
  <2> QED BY <2>1, <1>9 DEF MarkedAs, Whites
<1>15. Lists'
  BY <1>1, <1>3, <1>9, <1>12, <1>14 DEF Lists, MarkedAs
<1>16. Marking'
  <2>1. \A v \in DOMAIN open : colour[v] \notin Whites => colour[v] = "gray"
    BY <1>3, <1>5 DEF Shape, TypeOK, Black
  <2>2. \A v \in DOMAIN open : colour[v] \notin Whites => \A y \in refs[v] : colour'[y] \notin Whites
    BY <1>6, <1>9, <2>1 DEF MarkedAs
  <2>3. \A v \in DOMAIN open' : ~White(v)' => \A y \in refs'[v] : ~White(y)'
    BY <1>1, <1>12, <2>2 DEF White
  <2> QED BY <1>1, <1>12, <2>3 DEF Marking
<1> QED BY <1>10, <1>13, <1>15, <1>16 DEF IInv

(* The program finds nothing dead on the stack of the running thread. *)
LEMMA RunningAlive ==
    ASSUME IInv, NEW L \in RunningThreads
    PROVE  /\ L \in Threads /\ L \in alloc /\ ~Dead(L)
           /\ \A y \in Stack(L) : y \in alloc /\ ~Dead(y)
<1>1. MainThread \in Threads /\ MainThread \in alloc /\ ~Dead(MainThread)
  BY RootsAssumption DEF IInv, TypeOK, Safe, Roots
<1>2. L \in Threads /\ L \in alloc /\ ~Dead(L)
  BY <1>1 DEF RunningThreads, IInv, Safe, Keeps
<1> QED BY <1>2 DEF IInv, Safe, Keeps

LEMMA RemarkWeakStep == ASSUME IInv, RemarkWeak PROVE IInv'
<1>1. PICK L \in RunningThreads : /\ colour' = Painted(MarkedFrom({L}, colour), colour)
                                  /\ gray' = weak \cup Queued(MarkedFrom({L}, colour))
  BY DEF RemarkWeak
<1> DEFINE Q == Queued(MarkedFrom({L}, colour))
<1>2. /\ UNCHANGED <<heap, udata, grayagain, tosweep, full>>
      /\ UNCHANGED <<alloc, refs, open, finalized, Taken, udlist, tmudata>>
      /\ gcstate = "remark" /\ gray = {} /\ gcstate' = "reweak" /\ weak' = {}
  BY DEF RemarkWeak, heap, udata, Taken
<1>3. gcstate \in Marks /\ gcstate \notin Sweeps /\ gcstate' \in Marks
  BY <1>2 DEF Marks, AtomicStages, Sweeps
<1>4. TypeOK /\ Shape /\ Safe /\ Lists /\ alloc \subseteq Objects
  BY DEF IInv, TypeOK
<1>5. \A x \in Objects : refs[x] \subseteq alloc
  BY <1>3, <1>4, HeapClosed
<1>6. {L} \subseteq alloc
  BY RunningAlive
<1>7. colour \in [Objects -> Colours]
  BY DEF IInv, TypeOK, Colours
<1>8. MarkedAs({L}, colour, colour', Q)
  BY <1>1, <1>4, <1>5, <1>6, <1>7, MarkedAsFacts
<1>9. gray' = weak \cup Q
  BY <1>1
<1> HIDE DEF Q
<1>10. SweepOK' /\ Shape' /\ Finalizers' /\ Safe' /\ Sweeping'
  BY <1>2, <1>3, <1>4, <1>8, MarkedAsDarkened, DarkenedStep
<1>11. gray' \cup grayagain' \cup weak' = gray \cup grayagain \cup weak \cup Q
  BY <1>2, <1>9
<1>12. /\ \A x \in Objects : colour[x] \notin Whites => colour'[x] \notin Whites
       /\ \A x \in Roots : ~White(x)'
       /\ \A x \in gray' \cup grayagain' \cup weak' : colour'[x] = "gray" /\ ~Dead(x)'
       /\ \A x \in Tables \cup Closures \cup Threads :
             colour'[x] = "gray" => x \in gray' \cup grayagain' \cup weak'
       /\ \A v \in Upvals : colour'[v] = "gray" => v \in DOMAIN open'
       /\ BlackOK(tmudata)'
       /\ \A v \in DOMAIN open : colour[v] \in Whites /\ colour'[v] \notin Whites =>
             \A y \in refs[v] : colour'[y] \notin Whites
  BY <1>2, <1>3, <1>8, <1>11, MarkedMarking
<1>13. weak \subseteq WeakTables /\ WeakTables \subseteq Tables
  BY <1>4, WeakAssumption DEF Lists
<1>14. TypeOK'
  BY <1>2, <1>4, <1>8, <1>9 DEF TypeOK, MarkedAs, Colours, AtomicStages
<1>15. \A y \in grayagain : y \notin Q /\ y \notin weak
  <2>1. \A y \in grayagain : colour[y] = "gray"
    BY <1>3 DEF IInv, Marking
  <2>2. grayagain \cap weak = {}
    BY <1>4, WeakAssumption, KindsAssumption DEF Lists
  <2> QED BY <2>1, <2>2, <1>8 DEF MarkedAs, Whites
<1>16. Lists'
  BY <1>2, <1>4, <1>8, <1>9, <1>12, <1>13, <1>15 DEF Lists, MarkedAs
<1>17. Marking'
  <2>1. \A v \in DOMAIN open : colour[v] \notin Whites => \A y \in refs[v] : colour[y] \notin Whites
    BY <1>2 DEF IInv, Marking, AtomicStages, White
  <2>2. \A v \in DOMAIN open : \A y \in refs[v] : y \in Objects
    BY <1>4, <1>5 DEF TypeOK
  <2>3. \A v \in DOMAIN open' : ~White(v)' => \A y \in refs'[v] : ~White(y)'
    BY <1>2, <1>12, <2>1, <2>2 DEF White
  <2> QED BY <1>2, <1>12, <2>3 DEF Marking
<1> QED BY <1>10, <1>14, <1>16, <1>17 DEF IInv

LEMMA RemarkGrayAgainStep == ASSUME IInv, RemarkGrayAgain PROVE IInv'
<1>1. /\ UNCHANGED <<heap, udata, colour, weak, tosweep, full>>
      /\ UNCHANGED <<alloc, refs, open, finalized, Taken, udlist, tmudata>>
      /\ gcstate = "reweak" /\ gray = {} /\ gcstate' = "regray"
      /\ gray' = grayagain /\ grayagain' = {}
  BY DEF RemarkGrayAgain, heap, udata, Taken
<1>2. gcstate \in Marks /\ gcstate \notin Sweeps /\ gcstate' \in Marks
  BY <1>1 DEF Marks, AtomicStages, Sweeps
<1>3. TypeOK /\ Shape /\ Lists
  BY DEF IInv
<1>4. Darkened
  <2>1. Userdata \subseteq Objects
    BY DEF Objects
  <2> QED BY <1>1, <1>3, <2>1 DEF Darkened, TypeOK, Shape, Black, Colours
<1>5. SweepOK' /\ Shape' /\ Finalizers' /\ Safe' /\ Sweeping'
  BY <1>1, <1>2, <1>4, DarkenedStep
<1>6. TypeOK'
  BY <1>1, <1>3 DEF TypeOK, AtomicStages
<1>7. grayagain \cap weak = {}
  BY <1>3, WeakAssumption, KindsAssumption DEF Lists
<1>8. Lists'
  BY <1>1, <1>3, <1>7 DEF Lists, Dead
<1>9. Marking'
  <2>1. /\ \A x \in Roots : ~White(x)
        /\ \A x \in grayagain \cup weak : colour[x] = "gray"
        /\ \A x \in Tables \cup Closures \cup Threads : colour[x] = "gray" => x \in grayagain \cup weak
        /\ \A v \in Upvals : colour[v] = "gray" => v \in DOMAIN open
        /\ BlackOK(tmudata)
    BY <1>1, <1>2 DEF IInv, Marking
  <2>2. \A v \in DOMAIN open : ~White(v) => \A y \in refs[v] : ~White(y)
    BY <1>1 DEF IInv, Marking, AtomicStages
  <2> QED BY <1>1, <2>1, <2>2 DEF Marking, White, Black, BlackOK
<1> QED BY <1>5, <1>6, <1>8, <1>9 DEF IInv

LEMMA SeparateUdataStep == ASSUME IInv, SeparateUdata PROVE IInv'
<1> DEFINE dead   == {u \in udlist : Due(u)}
           later  == tmudata \cup dead
           remade == [x \in Objects |-> IF x \in later THEN "white" ELSE colour[x]]
           Q      == Queued(MarkedFrom(later, remade))
<1>1. /\ UNCHANGED <<heap, Taken, grayagain, weak, tosweep, full>>
      /\ UNCHANGED <<alloc, refs, open>>
      /\ gcstate = "regray" /\ gray = {} /\ gcstate' = "preserve"
      /\ udlist' = udlist \ dead /\ tmudata' = later /\ finalized' = finalized \cup dead
      /\ colour' = Painted(MarkedFrom(later, remade), remade) /\ gray' = Q
  BY DEF SeparateUdata, heap, Taken
<1>2. gcstate \in Marks /\ gcstate \notin Sweeps /\ gcstate' \in Marks
  BY <1>1 DEF Marks, AtomicStages, Sweeps
<1>3. TypeOK /\ Shape /\ Safe /\ Lists /\ Finalizers /\ Roots \subseteq alloc /\ alloc \subseteq Objects
  BY DEF IInv, TypeOK
<1>4. \A x \in Objects : refs[x] \subseteq alloc
  BY <1>2, <1>3, HeapClosed
<1>5. /\ dead \subseteq udlist /\ dead \cap finalized = {}
      /\ \A u \in udlist \ dead : colour[u] \in Whites => u \in finalized
  BY DEF Due, White
<1>6. later \subseteq Userdata \cap alloc /\ tmudata \subseteq later /\ dead \subseteq later
      /\ later \cap udlist = dead
  BY <1>3, <1>5 DEF TypeOK
<1> HIDE DEF dead
<1>7. remade \in [Objects -> Colours]
  BY <1>3 DEF TypeOK, Colours, Whites
<1>8. MarkedAs(later, remade, colour', Q)
  BY <1>1, <1>3, <1>4, <1>6, <1>7, MarkedAsFacts
<1>9. /\ \A x \in later : remade[x] = "white"
      /\ \A x \in Objects : x \notin later => remade[x] = colour[x]
  BY <1>3, <1>6
<1> HIDE DEF later, remade, Q
<1>10. later \subseteq Objects /\ Userdata \subseteq Objects /\ WeakTables \subseteq Tables
       /\ Tables \cup Closures \cup Threads \cup Upvals \subseteq Objects
  BY <1>3, <1>6, WeakAssumption DEF Objects
<1>11. \A x \in Tables \cup Closures \cup Threads \cup Upvals :
          x \notin Userdata /\ x \notin later /\ remade[x] = colour[x]
  BY <1>6, <1>9, <1>10, KindsAssumption
<1>12. \A x \in later : colour'[x] = "black"
  BY <1>6, <1>8, <1>9, <1>10 DEF MarkedAs, Colours, Whites
<1>13. \A x \in Objects : colour[x] \notin Whites => colour'[x] \notin Whites
  BY <1>8, <1>9, <1>12 DEF MarkedAs, Whites
<1>14. Darkened
  <2>1. \A x \in Objects : colour'[x] # colour[x] => x \in alloc /\ colour'[x] \in {"gray", "black"}
    BY <1>6, <1>8, <1>9, <1>12 DEF MarkedAs
  <2>2. \A x \in Userdata : colour'[x] # "gray"
    <3>1. \A x \in Userdata : remade[x] # "gray"
      BY <1>3, <1>9, <1>10 DEF Shape
    <3> QED BY <1>8, <1>10, <3>1 DEF MarkedAs, Whites
  <2>3. \A x \in WeakTables \cup Threads \cup DOMAIN open : colour'[x] # "black"
    <3>1. \A x \in WeakTables \cup Threads \cup DOMAIN open :
             x \in Tables \cup Threads \cup Upvals /\ x \notin Userdata \cup (Upvals \ DOMAIN open)
      BY <1>3, <1>10, KindsAssumption DEF TypeOK
    <3>2. \A x \in WeakTables \cup Threads \cup DOMAIN open : remade[x] # "black"
      BY <1>3, <1>11, <3>1 DEF Shape, Black
    <3> QED BY <1>8, <1>10, <3>1, <3>2 DEF MarkedAs, Whites
  <2>4. colour' \in [Objects -> Colours]
    BY <1>8 DEF MarkedAs
  <2> QED BY <2>1, <2>2, <2>3, <2>4 DEF Darkened
<1>15. SweepOK' /\ Shape' /\ Safe' /\ Sweeping' /\ \A u \in alloc' : ~Dead(u)'
  BY <1>1, <1>2, <1>6, <1>14, DarkenedHeap
<1>16. Finalizers'
  <2>1. Taken \cap later = {}
    <3>1. Taken \cap dead = {}
      BY <1>3, <1>5 DEF TypeOK
    <3> QED BY <1>3, <3>1 DEF later, Finalizers
  <2>2. later \subseteq finalized \cup dead /\ finalized \cup dead \subseteq Taken \cup later
    BY <1>3 DEF later, Finalizers
  <2>3. \A u \in udlist \ dead : colour'[u] \in Whites => u \in finalized
    <3>1. \A u \in udlist \ dead : u \in Objects /\ u \notin later
      BY <1>3, <1>6 DEF TypeOK
    <3> QED BY <1>5, <1>13, <3>1
  <2> QED BY <1>1, <1>15, <2>1, <2>2, <2>3 DEF Finalizers, White
<1>17. TypeOK'
  <2>1. Taken \subseteq finalized \cup dead /\ finalized \cup dead \subseteq Userdata
    BY <1>3, <1>5 DEF TypeOK
  <2>2. (udlist \ dead) \cap later = {} /\ (udlist \ dead) \cup later = Userdata \cap alloc
    BY <1>3, <1>5, <1>6 DEF TypeOK, later
  <2> QED BY <1>1, <1>3, <1>8, <2>1, <2>2 DEF TypeOK, MarkedAs, Colours, AtomicStages
<1>18. /\ \A x \in Roots : ~White(x)
       /\ \A x \in grayagain \cup weak : colour[x] = "gray"
       /\ \A x \in Tables \cup Closures \cup Threads : colour[x] = "gray" => x \in grayagain \cup weak
       /\ \A v \in Upvals : colour[v] = "gray" => v \in DOMAIN open
       /\ BlackOK(tmudata)
       /\ \A v \in DOMAIN open : colour[v] \notin Whites => \A y \in refs[v] : colour[y] \notin Whites
       /\ grayagain \subseteq Threads /\ \A t \in grayagain : \A y \in Stack(t) : colour[y] \notin Whites
  BY <1>1, <1>2 DEF IInv, Marking, AtomicStages, White
<1>19. \A x \in grayagain \cup weak : colour'[x] = "gray" /\ x \notin Q
  <2>1. \A x \in grayagain \cup weak : remade[x] = "gray" /\ x \in Objects
    BY <1>3, <1>10, <1>11, <1>18 DEF Lists
  <2> QED BY <1>8, <2>1 DEF MarkedAs, Whites
<1>20. \A x \in Q : colour'[x] = "gray"
  BY <1>8 DEF MarkedAs
<1>21. Lists'
  BY <1>1, <1>3, <1>8, <1>19, <1>20 DEF Lists, MarkedAs, Dead
<1>22. BlackOK({})'
  <2> SUFFICES ASSUME NEW x \in alloc, colour'[x] = "black"
               PROVE  \A y \in refs[x] : colour'[y] \notin Whites
    BY <1>1 DEF BlackOK, Black, White
  <2>1. x \in Objects /\ \A y \in refs[x] : y \in Objects
    BY <1>3, <1>4
  <2>2. CASE remade[x] \in Whites
    BY <1>8, <2>1, <2>2 DEF MarkedAs
  <2>3. CASE remade[x] \notin Whites
    <3>1. colour[x] = "black" /\ x \notin tmudata
      BY <1>6, <1>8, <1>9, <2>1, <2>3 DEF MarkedAs, Whites
    <3>2. \A y \in refs[x] : colour[y] \notin Whites
      BY <1>18, <3>1 DEF BlackOK, Black, White
    <3> QED BY <1>13, <2>1, <3>2
  <2> QED BY <2>2, <2>3
<1>23. Marking'
  <2>1. \A x \in Roots : ~White(x)'
    BY <1>3, <1>13, <1>18 DEF White
  <2>2. \A x \in Tables \cup Closures \cup Threads :
           colour'[x] = "gray" => x \in Q \cup grayagain \cup weak
    BY <1>8, <1>10, <1>11, <1>18 DEF MarkedAs
  <2>3. \A v \in Upvals : colour'[v] = "gray" => v \in DOMAIN open
    BY <1>8, <1>10, <1>11, <1>18 DEF MarkedAs
  <2>4. ASSUME NEW v \in DOMAIN open, colour'[v] \notin Whites
        PROVE  \A y \in refs[v] : colour'[y] \notin Whites
    <3>1. v \in Upvals /\ v \in Objects /\ \A y \in refs[v] : y \in Objects
      BY <1>3, <1>4 DEF TypeOK
    <3>2. CASE colour[v] \in Whites
      <4>1. remade[v] \in Whites /\ colour'[v] = "gray"
        BY <1>8, <1>11, <2>4, <3>1, <3>2, KindsAssumption DEF MarkedAs, Colours
      <4> QED BY <1>8, <3>1, <4>1 DEF MarkedAs
    <3>3. CASE colour[v] \notin Whites
      BY <1>13, <1>18, <3>1, <3>3
    <3> QED BY <3>2, <3>3
  <2>5. \A t \in grayagain : \A y \in Stack(t) : colour'[y] \notin Whites
    <3>1. \A t \in grayagain : \A y \in Stack(t) : y \in Objects
      BY <1>2, <1>3, <1>18, HeapClosed
    <3> QED BY <1>13, <1>18, <3>1
  <2>6. \A t : Stack(t)' = Stack(t)
    BY <1>1 DEF Stack
  <2>7. BlackOK(tmudata)'
    BY <1>22 DEF BlackOK
  <2> QED BY <1>1, <1>12, <1>18, <1>19, <1>20, <1>22, <2>1, <2>2, <2>3, <2>4, <2>5, <2>6, <2>7
          DEF Marking, White, Black
<1> QED BY <1>15, <1>16, <1>17, <1>21, <1>23 DEF IInv

LEMMA FinishAtomicStep == ASSUME IInv, FinishAtomic PROVE IInv'
<1> DEFINE held == UNION {refs[h] : h \in weak}
           S    == {s \in Strings \cap held : White(s)}
           p    == Painted(S, colour)
<1>1. /\ UNCHANGED <<alloc, open, finalized, Taken, udlist, tmudata, gray, grayagain, weak, full>>
      /\ gcstate = "preserve" /\ gray = {} /\ gcstate' = "sweepstring"
      /\ colour' = Flipped(p)
      /\ refs' = [h \in Objects |-> IF h \in weak THEN {y \in refs[h] : ~Cleared(y)} ELSE refs[h]]
      /\ tosweep' = alloc \ (DOMAIN open \cup tmudata)
  BY DEF FinishAtomic, udata, lists, Taken
<1>2. /\ gcstate \in Marks /\ gcstate \notin Sweeps
      /\ gcstate' \notin Marks /\ gcstate' \in Sweeps
  BY <1>1 DEF Marks, AtomicStages, Sweeps
<1>3. TypeOK /\ Shape /\ Safe /\ Lists /\ Finalizers /\ Roots \subseteq alloc /\ alloc \subseteq Objects
  BY DEF IInv, TypeOK
<1>4. /\ \A x \in Objects : refs[x] \subseteq alloc
      /\ \A x \in alloc : colour[x] # "dead"
  BY <1>2, <1>3, HeapClosed
<1>5. /\ \A x \in Roots : ~White(x)
      /\ \A x \in grayagain \cup weak : colour[x] = "gray"
      /\ \A x \in Tables \cup Closures \cup Threads : colour[x] = "gray" => x \in grayagain \cup weak
      /\ \A v \in Upvals : colour[v] = "gray" => v \in DOMAIN open
      /\ BlackOK({}) /\ \A u \in tmudata : Black(u)
      /\ \A v \in DOMAIN open : ~White(v) => \A y \in refs[v] : ~White(y)
      /\ grayagain \subseteq Threads /\ \A t \in grayagain : \A y \in Stack(t) : ~White(y)
  BY <1>1, <1>2 DEF IInv, Marking, AtomicStages
<1>6. weak \subseteq WeakTables /\ WeakTables \subseteq Tables /\ weak \subseteq alloc
  BY <1>3, WeakAssumption DEF Lists
<1>7. \A y : y \in held <=> \E h \in weak : y \in refs[h]
  OBVIOUS
<1> HIDE DEF held
<1>8. S \subseteq Strings /\ S \subseteq alloc /\ S \in SUBSET Objects
  BY <1>3, <1>4, <1>6, <1>7
<1>9. /\ p \in [Objects -> Colours]
      /\ \A x \in Objects \ S : p[x] = colour[x]
      /\ \A x \in S : p[x] = "gray" /\ colour[x] \in Whites
  <2>1. colour \in [Objects -> Colours]
    BY <1>3 DEF TypeOK, Colours
  <2>2. \A x \in S : x \notin Userdata \cup (Upvals \ DOMAIN open)
    BY <1>8, KindsAssumption
  <2>3. \A x \in S : colour[x] \in Whites
    BY DEF White
  <2> HIDE DEF S
  <2>4. /\ p \in [Objects -> Colours]
        /\ \A x \in Objects \ S : p[x] = colour[x]
        /\ \A x \in S : p[x] = IF x \in Userdata \cup (Upvals \ DOMAIN open) THEN "black" ELSE "gray"
    BY <1>8, <2>1, PaintedFacts
  <2> QED BY <2>2, <2>3, <2>4
<1>10. \A s \in Strings : s \in held => s \in S \/ ~White(s)
  OBVIOUS
<1> HIDE DEF S, p
<1>11. /\ colour' \in [Objects -> Colours]
       /\ \A x \in Objects \ alloc : colour'[x] = colour[x]
       /\ \A x \in alloc : /\ p[x] \in {"white", "gray", "black"}
                           /\ colour'[x] = IF p[x] = "white" THEN "dead" ELSE p[x]
  <2>1. \A x \in alloc : p[x] \in {"white", "gray", "black"}
    BY <1>3, <1>4, <1>9 DEF Colours, Whites
  <2>2. \A x \in Objects \ alloc : colour'[x] = p[x] /\ p[x] = colour[x]
    BY <1>1, <1>8, <1>9 DEF Flipped
  <2>3. \A x \in alloc : colour'[x] = IF p[x] = "white" THEN "dead" ELSE p[x]
    BY <1>1, <1>3, <2>1 DEF Flipped, Whites
  <2>4. DOMAIN colour' = Objects /\ colour' = [x \in Objects |-> colour'[x]]
    BY <1>1 DEF Flipped
  <2>5. \A x \in Objects : colour'[x] \in Colours
    BY <1>9, <2>1, <2>2, <2>3 DEF Colours, Whites
  <2> QED BY <2>1, <2>2, <2>3, <2>4, <2>5
<1>12. \A x \in Objects : colour[x] \notin Whites => p[x] = colour[x]
  BY <1>9
<1>13. /\ refs' \in [Objects -> SUBSET Objects]
       /\ \A x \in Objects : refs'[x] \subseteq refs[x]
       /\ \A x \in weak : refs'[x] = {y \in refs[x] : ~Cleared(y)}
  <2>1. \A x \in Objects : refs[x] \in SUBSET Objects
    BY <1>3 DEF TypeOK
  <2>2. \A x \in Objects : refs'[x] = IF x \in weak THEN {y \in refs[x] : ~Cleared(y)} ELSE refs[x]
    BY <1>1
  <2>3. \A x \in Objects : refs'[x] \subseteq refs[x]
    BY <2>2
  <2> QED BY <1>1, <1>3, <1>6, <2>1, <2>2, <2>3
<1>14. ASSUME NEW x \in alloc, p[x] \notin Whites, NEW y \in Keeps(x)'
       PROVE  y \in alloc /\ p[y] \notin Whites
  <2> SUFFICES y \in alloc /\ (~White(y) \/ p[y] \notin Whites)
    BY <1>3, <1>12 DEF White
  <2>1. CASE x \in Threads
    <3>1. x \notin S /\ x \notin WeakTables
      BY <1>6, <1>8, <2>1, KindsAssumption
    <3>2. colour[x] = "gray"
      BY <1>3, <1>9, <1>14, <2>1, <3>1 DEF Shape, Black, Colours
    <3>3. x \in grayagain
      BY <1>5, <1>6, <2>1, <3>1, <3>2
    <3>4. y \in Stack(x)'
      BY <2>1, <1>14 DEF Keeps
    <3>5. y \in Stack(x)
      <4>1. DOMAIN open \subseteq Objects /\ open' = open
        BY <1>1, <1>3 DEF TypeOK
      <4> QED BY <1>3, <1>13, <3>4, <4>1, StackFacts
    <3> QED BY <1>2, <1>3, <1>5, <2>1, <3>3, <3>5, HeapClosed
  <2>2. CASE x \notin Threads
    <3>1. y \in refs'[x] /\ y \in refs[x] /\ x \in Objects /\ y \in alloc
      BY <1>3, <1>4, <1>13, <1>14, <2>2 DEF Keeps
    <3>2. CASE x \in weak
      <4>1. ~Cleared(y)
        BY <1>13, <3>1, <3>2
      <4>2. y \in Strings => y \in S \/ ~White(y)
        BY <1>7, <1>10, <3>1, <3>2
      <4> QED BY <1>9, <3>1, <4>1, <4>2 DEF Cleared, Whites
    <3>3. CASE x \notin weak
      <4>1. x \notin S
        BY <1>3, <1>8, <3>1 DEF Shape
      <4>2. colour[x] = "black" \/ colour[x] = "gray"
        BY <1>9, <1>14, <3>1, <4>1 DEF Colours
      <4>3. colour[x] = "black" => ~White(y)
        BY <1>5, <3>1 DEF BlackOK, Black
      <4>4. colour[x] = "gray" => x \notin Tables \cup Closures \cup Userdata
        BY <1>3, <1>5, <2>2, <3>3 DEF Shape
      <4>5. colour[x] = "gray" => x \in Upvals
        BY <1>3, <2>2, <3>1, <4>4 DEF Shape, Objects
      <4>6. colour[x] = "gray" => ~White(y)
        BY <1>5, <3>1, <4>5 DEF White, Whites
      <4> QED BY <3>1, <4>2, <4>3, <4>6
    <3> QED BY <3>2, <3>3
  <2> QED BY <2>1, <2>2
<1>15. \A x \in Objects : colour'[x] = "dead" => x \in alloc /\ p[x] = "white" /\ colour[x] = "white"
  BY <1>3, <1>9, <1>11 DEF Shape, Whites
<1>16. \A x \in alloc : colour'[x] # "dead" => p[x] \notin Whites
  BY <1>11 DEF Whites
<1>17. TypeOK'
  BY <1>1, <1>3, <1>11, <1>13 DEF TypeOK, Colours
<1>18. SweepOK'
  BY <1>1, <1>2, <1>3 DEF IInv, SweepOK
<1>19. Shape'
  <2>1. \A x \in Objects : refs'[x] \subseteq refs[x] /\ (colour'[x] = "black" => colour[x] = "black")
    BY <1>3, <1>9, <1>11, <1>13
  <2>2. \A x \in Userdata : x \in Objects /\ colour'[x] # "gray"
    <3>1. \A x \in Userdata : x \in Objects /\ x \notin S /\ colour[x] # "gray"
      BY <1>3, <1>8, KindsAssumption DEF Shape, Objects
    <3> QED BY <1>9, <1>11, <3>1
  <2>3. WeakTables \cup Threads \cup DOMAIN open \cup Strings \subseteq Objects
    BY <1>3, <1>6 DEF Objects, TypeOK
  <2>4. \A x \in Objects \ alloc' : refs'[x] = {} /\ colour'[x] = "white"
    BY <1>1, <1>3, <1>11, <2>1 DEF Shape
  <2>5. \A x \in WeakTables \cup Threads \cup DOMAIN open' : colour'[x] # "black"
    BY <1>1, <1>3, <2>1, <2>3 DEF Shape, Black
  <2>6. /\ \A x \in Objects \ Closures : refs'[x] \subseteq Values
        /\ \A x \in Strings : refs'[x] = {}
        /\ \A x \in Userdata : refs'[x] \subseteq Tables
    BY <1>3, <2>1, <2>2, <2>3 DEF Shape
  <2> QED BY <2>2, <2>4, <2>5, <2>6 DEF Shape, Black
<1>20. Finalizers'
  <2>1. ASSUME NEW u \in Userdata \cap alloc, colour'[u] = "dead" PROVE u \in finalized
    <3>1. White(u) /\ u \notin tmudata
      BY <1>3, <1>5, <1>15, <2>1 DEF White, Whites, Black
    <3>2. u \in udlist
      BY <1>3, <3>1 DEF TypeOK
    <3> QED BY <1>1, <1>3, <3>1, <3>2 DEF Finalizers
  <2> QED BY <1>1, <1>3, <2>1 DEF Finalizers, Dead
<1>21. Safe'
  <2>1. \A x \in Roots \cup tmudata : x \in Objects /\ ~White(x)
    BY <1>3, <1>5 DEF TypeOK, Black, White, Whites
  <2>2. \A x \in Roots \cup tmudata' : ~Dead(x)'
    BY <1>1, <1>15, <2>1 DEF Dead, White, Whites
  <2>3. \A x \in alloc' : ~Dead(x)' => \A y \in Keeps(x)' : y \in alloc' /\ ~Dead(y)'
    <3> SUFFICES ASSUME NEW x \in alloc, colour'[x] # "dead", NEW y \in Keeps(x)'
                 PROVE  y \in alloc /\ colour'[y] # "dead"
      BY <1>1 DEF Dead
    <3>1. y \in alloc /\ p[y] \notin Whites
      BY <1>14, <1>16
    <3> QED BY <1>3, <1>15, <3>1 DEF Whites
  <2> QED BY <1>2, <2>2, <2>3 DEF Safe
<1>22. Lists'
  <2>1. \A x \in gray \cup grayagain \cup weak : x \in Objects /\ colour[x] = "gray"
    BY <1>1, <1>3, <1>5 DEF Lists
  <2>2. \A x \in gray' \cup grayagain' \cup weak' : ~Dead(x)'
    BY <1>1, <1>15, <2>1 DEF Dead
  <2> QED BY <1>1, <1>3, <2>2 DEF Lists
<1>23. Marking'
  <2>1. gcstate' \notin AtomicStages \cup {"regray", "preserve"}
    BY <1>1 DEF AtomicStages
  <2> QED BY <1>2, <2>1 DEF Marking
<1>24. Sweeping'
  <2>1. \A v \in DOMAIN open : open[v] \in alloc /\ open[v] \notin DOMAIN open \cup tmudata
    <3>1. \A v \in DOMAIN open : open[v] \in alloc /\ open[v] \in Threads
      BY <1>3 DEF IInv, SweepOK, TypeOK
    <3>2. DOMAIN open \cup tmudata \subseteq Upvals \cup Userdata
      BY <1>3 DEF TypeOK
    <3> QED BY <3>1, <3>2, KindsAssumption
  <2> QED BY <1>1, <2>1 DEF Sweeping
<1> QED BY <1>17, <1>18, <1>19, <1>20, <1>21, <1>22, <1>23, <1>24 DEF IInv

-----------------------------------------------------------------------------
(* The sweep. *)

LEMMA SweepObjectStep ==
    ASSUME IInv, gcstate \in Sweeps, NEW x \in tosweep, SweepObject(x),
           UNCHANGED <<tmudata, lists, full>>,
           gcstate' \in {"sweepstring", "sweep", "finalize"}, gcstate' = "finalize" => tosweep' = {}
    PROVE  /\ IInv'
           /\ \A u \in Userdata : u \in alloc \ alloc' => u \in Taken
<1> DEFINE upvals == {v \in DOMAIN open : open[v] = x}
           freed  == {y \in upvals \cup {x} : Dead(y)}
           closed == IF x \in freed THEN upvals ELSE upvals \cap freed
           late   == UNION {refs[v] : v \in freed \cap upvals}
<1>1. /\ UNCHANGED <<tmudata, gray, grayagain, weak, full>>
      /\ alloc' = alloc \ freed
      /\ refs' = [y \in Objects |-> IF y \in freed THEN {}
                                    ELSE IF y = x /\ x \in Threads THEN refs[x] \cup late ELSE refs[y]]
      /\ open' = [v \in DOMAIN open \ closed |-> open[v]]
      /\ colour' = Whitened(upvals \cup {x})
      /\ udlist' = udlist \ freed /\ finalized' = finalized \ freed
      /\ Taken' = Taken \ freed /\ tosweep' = tosweep \ {x}
  BY DEF SweepObject, lists, Taken
<1>2. TypeOK /\ Shape /\ Safe /\ Lists /\ Finalizers /\ SweepOK /\ Roots \subseteq alloc /\ alloc \subseteq Objects
  BY DEF IInv, TypeOK
<1>3. x \in alloc /\ x \in Objects /\ x \notin DOMAIN open /\ x \notin tmudata
  BY <1>2 DEF SweepOK
<1>4. /\ \A v : v \in upvals <=> v \in DOMAIN open /\ open[v] = x
      /\ \A y : y \in freed <=> (y \in upvals \/ y = x) /\ colour[y] = "dead"
      /\ closed \subseteq upvals /\ \A v \in upvals : v \in closed <=> x \in freed \/ v \in freed
      /\ \A y : y \in late <=> \E v \in freed \cap upvals : y \in refs[v]
  BY DEF Dead
<1> HIDE DEF upvals, freed, closed, late
<1>5. /\ \A v \in DOMAIN open : v \in Upvals /\ v \in alloc /\ v \in Objects
      /\ \A v \in DOMAIN open : open[v] \in Threads /\ open[v] \in alloc
      /\ upvals \subseteq Upvals \cap alloc
  BY <1>2, <1>4 DEF TypeOK, SweepOK
<1>6. \A v \in Upvals : v \notin Threads \cup Tables \cup Closures \cup Userdata \cup Strings
  BY KindsAssumption
<1>7. \A y \in Objects : /\ y \in upvals \cup {x} => colour'[y] = "white"
                         /\ y \notin upvals \cup {x} => colour'[y] = colour[y]
  BY <1>1 DEF Whitened
<1>8. colour' \in [Objects -> Colours]
  <2>1. \A y \in Objects : colour[y] \in Colours
    BY <1>2 DEF TypeOK, Colours
  <2> QED BY <1>1, <2>1 DEF Whitened, Colours, Whites
<1>9. \A y \in alloc : y \notin freed => (colour'[y] = "dead" <=> colour[y] = "dead")
  BY <1>2, <1>4, <1>7
<1>10. \A y \in Roots \cup tmudata \cup gray \cup grayagain \cup weak : y \notin freed /\ y \in alloc'
  <2>1. \A y \in Roots \cup tmudata \cup gray \cup grayagain \cup weak : y \in alloc /\ colour[y] # "dead"
    BY <1>2 DEF TypeOK, Safe, Lists, Dead
  <2> QED BY <1>1, <1>4, <2>1
<1>11. /\ DOMAIN open' = DOMAIN open \ closed
       /\ \A v \in DOMAIN open' : v \in DOMAIN open /\ open'[v] = open[v] /\ v \notin freed
  <2>1. DOMAIN open' = DOMAIN open \ closed /\ \A v \in DOMAIN open' : open'[v] = open[v]
    BY <1>1
  <2> QED BY <1>3, <1>4, <2>1
<1>12. /\ refs' \in [Objects -> SUBSET Objects]
       /\ \A y \in freed : refs'[y] = {}
       /\ \A y \in Objects : y \notin Threads \/ y # x => refs'[y] \subseteq refs[y]
       /\ x \in Threads => refs'[x] \subseteq Stack(x)
       /\ refs'[x] \subseteq refs[x] \cup late
  <2>1. \A y \in Objects : refs'[y] = IF y \in freed THEN {}
                             ELSE IF y = x /\ x \in Threads THEN refs[x] \cup late ELSE refs[y]
    BY <1>1
  <2>2. \A y \in Objects : refs[y] \subseteq Objects
    BY <1>2 DEF TypeOK
  <2>3. late \subseteq Objects
    BY <1>4, <1>5, <2>2
  <2>4. \A y \in late : y \in Stack(x)
    BY <1>4, StackFacts
  <2>5. \A y \in refs[x] : y \in Stack(x)
    BY StackFacts
  <2>6. \A y \in freed : y \in Objects
    BY <1>3, <1>4, <1>5
  <2>7. \A y \in Objects : refs'[y] \subseteq Objects
    BY <2>1, <2>2, <2>3
  <2>8. refs' \in [Objects -> SUBSET Objects]
    BY <1>1, <2>7
  <2> QED BY <1>3, <2>1, <2>4, <2>5, <2>6, <2>8
<1>13. \A u \in Userdata \cap freed : u = x /\ u \in finalized /\ u \in Taken
  <2>1. \A u \in Userdata \cap freed : u = x /\ colour[u] = "dead"
    BY <1>4, <1>5, <1>6
  <2>2. \A u \in Userdata \cap alloc : colour[u] = "dead" => u \in finalized
    BY <1>2 DEF Finalizers, Dead
  <2> QED BY <1>2, <1>3, <2>1, <2>2 DEF Finalizers
<1>14. TypeOK'
  <2>1. Roots \subseteq alloc' /\ alloc' \subseteq Objects
    BY <1>1, <1>2, <1>10
  <2>2. DOMAIN open' \subseteq Upvals \cap alloc' /\ \A v \in DOMAIN open' : open'[v] \in Threads
    BY <1>1, <1>5, <1>11
  <2>3. Taken' \subseteq finalized' /\ finalized' \subseteq Userdata
    BY <1>1, <1>2 DEF TypeOK
  <2>4. udlist' \cap tmudata' = {} /\ udlist' \cup tmudata' = Userdata \cap alloc'
    BY <1>1, <1>2, <1>10 DEF TypeOK
  <2>5. gray' \cup grayagain' \cup weak' \subseteq Objects /\ tosweep' \subseteq Objects /\ full' \in {"no", "sweep", "mark"}
    BY <1>1, <1>2 DEF TypeOK
  <2> QED BY <1>8, <1>12, <2>1, <2>2, <2>3, <2>4, <2>5 DEF TypeOK, Colours
<1>15. SweepOK'
  <2>1. tosweep' \subseteq alloc' \ (DOMAIN open' \cup tmudata')
    BY <1>1, <1>2, <1>4, <1>11 DEF SweepOK
  <2>2. ASSUME NEW v \in DOMAIN open' PROVE open'[v] \in alloc'
    <3>1. open[v] \in alloc /\ open[v] \notin upvals /\ v \in DOMAIN open /\ v \notin closed
      BY <1>5, <1>6, <1>11
    <3>2. open[v] = x => x \notin freed
      BY <1>4, <3>1
    <3> QED BY <1>1, <1>4, <1>11, <3>1, <3>2
  <2> QED BY <2>1, <2>2 DEF SweepOK, Sweeps
<1>16. Shape'
  <2>1. \A y \in Objects \ alloc' : refs'[y] = {} /\ colour'[y] = "white"
    <3>1. \A y \in Objects \ alloc : y \notin upvals \cup {x} /\ refs[y] = {} /\ colour[y] = "white"
      BY <1>2, <1>3, <1>5 DEF Shape
    <3>2. \A y \in freed : colour'[y] = "white" /\ refs'[y] = {}
      BY <1>3, <1>4, <1>5, <1>7, <1>12
    <3> QED BY <1>1, <1>3, <1>7, <1>12, <3>1, <3>2
  <2>2. late \subseteq Values
    BY <1>2, <1>4, <1>5, <1>6 DEF Shape
  <2>3. x \in Threads => refs[x] \subseteq Values
    BY <1>2, <1>3, KindsAssumption DEF Shape
  <2>4. \A y \in Objects \ Closures : refs'[y] \subseteq Values
    BY <1>2, <1>12, <2>2, <2>3 DEF Shape
  <2>5. \A y \in Strings \cup Userdata : y \in Objects /\ refs'[y] \subseteq refs[y]
    <3>1. \A y \in Strings \cup Userdata : y \in Objects /\ y \notin Threads
      BY KindsAssumption DEF Objects
    <3> QED BY <1>12, <3>1
  <2>6. \A y \in Userdata : colour'[y] # "gray"
    BY <1>2, <1>7, <2>5 DEF Shape
  <2>7. \A y \in WeakTables \cup Threads \cup DOMAIN open' : colour'[y] # "black"
    <3>1. WeakTables \cup Threads \cup DOMAIN open \subseteq Objects
      BY <1>5, WeakAssumption DEF Objects
    <3> QED BY <1>2, <1>7, <1>11, <3>1 DEF Shape, Black
  <2>8. /\ \A y \in Strings : refs'[y] = {}
        /\ \A y \in Userdata : refs'[y] \subseteq Tables
    BY <1>2, <2>5 DEF Shape
  <2> QED BY <2>1, <2>4, <2>6, <2>7, <2>8 DEF Shape, Black
<1>17. Finalizers'
  <2>1. ASSUME NEW u \in Userdata \cap alloc', colour'[u] = "dead" PROVE u \in finalized'
    <3>1. u \in alloc /\ u \notin freed /\ colour[u] = "dead"
      BY <1>1, <1>9, <2>1
    <3> QED BY <1>1, <1>2, <3>1 DEF Finalizers, Dead
  <2>2. tmudata' \subseteq finalized' /\ finalized' \subseteq Taken' \cup tmudata' /\ Taken' \cap tmudata' = {}
    BY <1>1, <1>2, <1>10 DEF Finalizers
  <2> QED BY <2>1, <2>2 DEF Finalizers, Dead
<1>18. ASSUME NEW y \in alloc', colour'[y] # "dead", NEW z \in Keeps(y)'
       PROVE  z \in alloc' /\ colour'[z] # "dead"
  <2>1. y \in alloc /\ y \in Objects /\ colour[y] # "dead"
    BY <1>1, <1>2, <1>9, <1>18
  <2>2. z \in Keeps(y)
    <3>1. CASE y \in Threads
      <4>1. z \in refs'[y] \/ \E v \in DOMAIN open' : open'[v] = y /\ z \in refs'[v]
        BY <1>18, <3>1, StackFacts DEF Keeps
      <4>2. z \in refs'[y] => z \in Stack(y)
        BY <1>12, <2>1, <3>1, StackFacts
      <4>3. \A v \in DOMAIN open' : open'[v] = y /\ z \in refs'[v] => z \in Stack(y)
        <5>1. \A v \in DOMAIN open' : refs'[v] \subseteq refs[v]
          BY <1>5, <1>6, <1>11, <1>12
        <5> QED BY <1>11, <5>1, StackFacts
      <4> QED BY <3>1, <4>1, <4>2, <4>3 DEF Keeps
    <3>2. CASE y \notin Threads
      BY <1>12, <1>18, <2>1, <3>2 DEF Keeps
    <3> QED BY <3>1, <3>2
  <2>3. z \in alloc /\ colour[z] # "dead"
    BY <1>2, <2>1, <2>2 DEF Safe, Dead
  <2> QED BY <1>1, <1>4, <1>9, <2>3
<1>19. Sweeping'
  <2> SUFFICES ASSUME NEW y \in alloc'
               PROVE  /\ gray' = {}
                      /\ \/ colour'[y] = "white"
                         \/ y \in tosweep' \cup tmudata'
                         \/ y \in DOMAIN open' /\ open'[y] \in tosweep'
    <3>1. gray' = {}
      BY <1>1 DEF IInv, Sweeping, Marks, Sweeps, AtomicStages
    <3> QED BY <3>1 DEF Sweeping
  <2>1. y \in alloc /\ y \in Objects
    BY <1>1, <1>2
  <2>2. /\ gray = {}
        /\ \/ colour[y] = "white"
           \/ y \in tosweep \cup tmudata
           \/ y \in DOMAIN open /\ open[y] \in tosweep
    BY <2>1 DEF IInv, Sweeping, Marks, Sweeps, AtomicStages
  <2>3. CASE y \in upvals \cup {x}
    BY <1>1, <1>7, <2>1, <2>2, <2>3
  <2>4. CASE y \notin upvals \cup {x}
    <3>1. y \in DOMAIN open => y \in DOMAIN open' /\ open'[y] = open[y] /\ open[y] # x
      BY <1>4, <1>11, <2>4
    <3> QED BY <1>1, <1>7, <2>1, <2>2, <2>4, <3>1
  <2> QED BY <2>3, <2>4
<1>20. Safe'
  <2>1. \A y \in Roots \cup tmudata' : ~Dead(y)'
    BY <1>1, <1>2, <1>9, <1>10 DEF Safe, Dead
  <2>2. \A y \in alloc' : ~Dead(y)' => \A z \in Keeps(y)' : z \in alloc' /\ ~Dead(z)'
    BY <1>18 DEF Dead
  <2>3. gcstate' \notin Sweeps => \A y \in alloc' : ~Dead(y)'
    <3> SUFFICES ASSUME gcstate' = "finalize", NEW y \in alloc' PROVE ~Dead(y)'
      BY DEF Sweeps
    <3>1. tosweep' = {} /\ gcstate' \notin Marks
      BY DEF Marks, AtomicStages
    <3>2. colour'[y] = "white" \/ y \in tmudata'
      BY <1>19, <3>1 DEF Sweeping
    <3> QED BY <2>1, <3>2 DEF Dead
  <2> QED BY <2>1, <2>2, <2>3 DEF Safe
<1>21. Lists'
  <2>1. \A y \in gray \cup grayagain \cup weak : ~Dead(y)'
    BY <1>2, <1>9, <1>10 DEF Lists, Dead
  <2> QED BY <1>1, <1>2, <1>10, <2>1 DEF Lists
<1>22. Marking'
  <2>1. gcstate' \notin Marks \cup AtomicStages \cup {"regray", "preserve"}
    BY DEF AtomicStages, Marks
  <2> QED BY <2>1 DEF Marking
<1> QED BY <1>1, <1>13, <1>14, <1>15, <1>16, <1>17, <1>19, <1>20, <1>21, <1>22 DEF IInv

LEMMA SweepStringStep ==
    ASSUME IInv, SweepString
    PROVE  IInv' /\ \A u \in Userdata : u \in alloc \ alloc' => u \in Taken
<1>1. gcstate = "sweepstring" /\ gcstate \in Sweeps /\ UNCHANGED <<lists, full>>
  BY DEF SweepString, Sweeps
<1>2. CASE tosweep \cap Strings = {}
  <2>1. /\ gcstate' = "sweep"
        /\ UNCHANGED <<alloc, refs, open, colour, finalized, Taken, udlist, tmudata,
                       gray, grayagain, weak, tosweep, full>>
    BY <1>1, <1>2 DEF SweepString, heap, udata, lists, Taken
  <2>2. TypeOK' /\ SweepOK' /\ Shape' /\ Lists'
    BY <1>1, <2>1 DEF IInv, TypeOK, SweepOK, Shape, Lists, Sweeps, Black, Dead
  <2>3. Finalizers'
    BY <1>1, <2>1 DEF IInv, Finalizers, White, Dead
  <2>4. Safe'
    <3>1. \A x : Keeps(x)' = Keeps(x)
      BY <2>1 DEF Keeps, Stack
    <3> QED BY <1>1, <2>1, <3>1 DEF IInv, Safe, Sweeps, Dead
  <2>5. Marking' /\ Sweeping'
    BY <1>1, <2>1 DEF IInv, Marking, Sweeping, Marks, AtomicStages
  <2> QED BY <2>1, <2>2, <2>3, <2>4, <2>5 DEF IInv
<1>3. CASE tosweep \cap Strings # {}
  <2>1. PICK x \in tosweep : SweepObject(x) /\ UNCHANGED <<gcstate, tmudata>>
    BY <1>3 DEF SweepString
  <2> QED BY <1>1, <2>1, SweepObjectStep
<1> QED BY <1>2, <1>3

LEMMA SweepStep ==
    ASSUME IInv, Sweep
    PROVE  IInv' /\ \A u \in Userdata : u \in alloc \ alloc' => u \in Taken
<1>1. /\ gcstate \in Sweeps /\ UNCHANGED <<tmudata, lists, full>>
      /\ gcstate' \in {"sweepstring", "sweep", "finalize"} /\ (gcstate' = "finalize" => tosweep' = {})
  BY DEF Sweep, Sweeps
<1>2. PICK x \in tosweep : SweepObject(x)
  BY DEF Sweep
<1> QED BY <1>1, <1>2, SweepObjectStep

LEMMA EndCycleStep == ASSUME IInv, EndCycle PROVE IInv'
<1>1. /\ gcstate = "finalize" /\ gcstate' = "pause" /\ full' = "no"
      /\ UNCHANGED <<alloc, refs, open, colour, finalized, Taken, udlist, tmudata,
                     gray, grayagain, weak, tosweep>>
  BY DEF EndCycle, heap, udata, lists, Taken
<1>2. TypeOK' /\ SweepOK' /\ Shape' /\ Lists'
  BY <1>1 DEF IInv, TypeOK, SweepOK, Shape, Lists, Sweeps, Black, Dead
<1>3. Finalizers'
  BY <1>1 DEF IInv, Finalizers, White, Dead
<1>4. Safe'
  <2>1. \A x : Keeps(x)' = Keeps(x)
    BY <1>1 DEF Keeps, Stack
  <2> QED BY <1>1, <2>1 DEF IInv, Safe, Sweeps, Dead
<1>5. Marking' /\ Sweeping'
  BY <1>1 DEF IInv, Marking, Sweeping, Marks, AtomicStages
<1> QED BY <1>1, <1>2, <1>3, <1>4, <1>5 DEF IInv

(* GCTM: the userdata of a __gc that is Taken is on the stack again. *)
LEMMA CallGCTMStep == ASSUME IInv, CallGCTM \/ CallGCTMFails PROVE IInv'
<1>1. PICK u \in tmudata :
        /\ tmudata' = tmudata \ {u} /\ udlist' = udlist \cup {u} /\ Taken' = Taken \cup {u}
        /\ colour' = [colour EXCEPT ![u] = "white"]
        /\ \E L \in RunningThreads : refs' = [refs EXCEPT ![L] = @ \cup {u}] \/ refs' = refs
        /\ full' \in {full, "no"}
  BY DEF CallGCTM, CallGCTMFails, TakeDue, Taken, RunningThreads
<1>2. PICK L \in RunningThreads : refs' = [refs EXCEPT ![L] = @ \cup {u}] \/ refs' = refs
  BY <1>1
<1>3. /\ gcstate = "finalize" /\ gcstate' = gcstate
      /\ UNCHANGED <<alloc, open, finalized, gray, grayagain, weak, tosweep>>
  BY DEF CallGCTM, CallGCTMFails, TakeDue, lists
<1>4. gcstate \notin Sweeps /\ gcstate \notin Marks /\ tosweep = {}
  BY <1>3 DEF IInv, SweepOK, Sweeps, Marks, AtomicStages
<1>5. TypeOK /\ Shape /\ Safe /\ Lists /\ Finalizers /\ SweepOK /\ Roots \subseteq alloc /\ alloc \subseteq Objects
  BY DEF IInv, TypeOK
<1>6. u \in Userdata /\ u \in alloc /\ u \in Objects /\ u \in Values /\ u \in finalized
  BY <1>5, KindsAssumption DEF TypeOK, Values, Finalizers
<1>7. L \in Threads /\ L \in alloc /\ L \in Objects
  BY <1>5, RunningAlive
<1>8. /\ \A x \in Objects : refs[x] \subseteq alloc
      /\ \A x \in Threads : Stack(x) \subseteq alloc
      /\ \A x \in alloc : colour[x] # "dead"
  BY <1>4, <1>5, HeapClosed
<1>9. /\ colour' \in [Objects -> Colours] /\ colour'[u] = "white"
      /\ \A x \in Objects : x # u => colour'[x] = colour[x]
  BY <1>1, <1>5, <1>6 DEF TypeOK, Colours, Whites
<1>10. /\ refs' \in [Objects -> SUBSET Objects] /\ refs'[L] \subseteq refs[L] \cup {u}
       /\ \A x \in Objects : x # L => refs'[x] = refs[x]
  BY <1>2, <1>5, <1>6, <1>7 DEF TypeOK
<1>11. \A x \in Objects : refs'[x] \subseteq alloc
  BY <1>6, <1>8, <1>10
<1>12. TypeOK'
  <2>1. Taken' \subseteq finalized' /\ finalized' \subseteq Userdata
    BY <1>1, <1>3, <1>5, <1>6 DEF TypeOK
  <2>2. udlist' \cap tmudata' = {} /\ udlist' \cup tmudata' = Userdata \cap alloc'
    BY <1>1, <1>3, <1>5, <1>6 DEF TypeOK
  <2>3. full' \in {"no", "sweep", "mark"}
    BY <1>1, <1>5 DEF TypeOK
  <2> QED BY <1>3, <1>5, <1>9, <1>10, <2>1, <2>2, <2>3 DEF TypeOK, Colours
<1>13. SweepOK'
  BY <1>3, <1>4, <1>5 DEF SweepOK
<1>14. Shape'
  <2>1. \A x \in Strings \cup Userdata : x \in Objects /\ x # L
    BY <1>7, KindsAssumption DEF Objects
  <2>2. \A x \in WeakTables \cup Threads \cup DOMAIN open : x \in Objects /\ x # u
    BY <1>5, <1>6, WeakAssumption, KindsAssumption DEF TypeOK, Objects
  <2>3. \A x \in Objects \ alloc' : refs'[x] = {} /\ colour'[x] = "white"
    BY <1>3, <1>5, <1>6, <1>7, <1>9, <1>10 DEF Shape
  <2>4. \A x \in Objects \ Closures : refs'[x] \subseteq Values
    BY <1>5, <1>6, <1>10 DEF Shape
  <2>5. /\ \A x \in Strings : refs'[x] = {}
        /\ \A x \in Userdata : refs'[x] \subseteq Tables
    BY <1>5, <1>10, <2>1 DEF Shape
  <2>6. \A x \in Userdata : colour'[x] # "gray"
    BY <1>5, <1>9, <2>1 DEF Shape
  <2>7. \A x \in WeakTables \cup Threads \cup DOMAIN open' : colour'[x] # "black"
    BY <1>3, <1>5, <1>9, <2>2 DEF Shape, Black
  <2> QED BY <2>3, <2>4, <2>5, <2>6, <2>7 DEF Shape, Black
<1>15. \A x \in alloc' : ~Dead(x)'
  BY <1>3, <1>5, <1>8, <1>9 DEF Dead
<1>16. Finalizers'
  BY <1>1, <1>3, <1>5, <1>6, <1>15 DEF Finalizers
<1>17. Safe'
  <2>1. \A x \in alloc : \A y \in Keeps(x)' : y \in alloc
    <3>1. \A v \in DOMAIN open' : v \in Objects
      BY <1>3, <1>5 DEF TypeOK
    <3> QED BY <1>5, <1>11, <3>1, StackFacts DEF Keeps
  <2>2. Roots \cup tmudata' \subseteq alloc'
    BY <1>1, <1>3, <1>5 DEF TypeOK
  <2> QED BY <1>3, <1>15, <2>1, <2>2 DEF Safe
<1>18. Lists'
  <2>1. \A x \in gray \cup grayagain \cup weak : x \in alloc'
    BY <1>3, <1>5 DEF Lists
  <2> QED BY <1>3, <1>5, <1>15, <2>1 DEF Lists
<1>19. Marking'
  BY <1>3, <1>4 DEF Marking, AtomicStages
<1>20. Sweeping'
  <2>1. gray = {} /\ \A x \in alloc : colour[x] = "white" \/ x \in tmudata
    BY <1>4 DEF IInv, Sweeping
  <2> QED BY <1>1, <1>3, <1>5, <1>9, <2>1 DEF Sweeping
<1> QED BY <1>12, <1>13, <1>14, <1>16, <1>17, <1>18, <1>19, <1>20 DEF IInv

-----------------------------------------------------------------------------
(* The program. *)

(* What every step of the program does, but for luaF_close: it allocates,  *)
(* opens upvalues of new memory, and puts into fields what is not dead.    *)
(* Whatever was dead and is used again points to nothing dead.             *)
Mutates ==
    /\ gcstate \notin AtomicStages /\ UNCHANGED collector
    /\ alloc \subseteq alloc' /\ alloc' \subseteq Objects
    /\ refs' \in [Objects -> SUBSET Objects] /\ colour' \in [Objects -> Colours]
    /\ udlist' = udlist \cup (Userdata \cap (alloc' \ alloc))
    /\ DOMAIN open \subseteq DOMAIN open' /\ \A v \in DOMAIN open : open'[v] = open[v]
    /\ \A v \in DOMAIN open' \ DOMAIN open : v \in Upvals \cap (alloc' \ alloc) /\ open'[v] \in Threads \cap alloc
    /\ \A x \in Objects : colour'[x] = "dead" => colour[x] = "dead"
    /\ \A x \in alloc' \ alloc : colour'[x] = "white"
    /\ \A x \in Objects \ alloc' : colour'[x] = colour[x] /\ refs'[x] = refs[x]
    /\ \A x \in Userdata : colour'[x] # "gray"
    /\ \A x \in WeakTables \cup Threads \cup DOMAIN open : colour'[x] # "black"
    /\ gcstate # "propagate" => gray' = gray /\ \A x \in alloc : colour[x] = "white" => colour'[x] = "white"
    /\ \A x \in Objects : \A y \in refs'[x] : y \notin refs[x] =>
          /\ y \in alloc' /\ colour'[y] # "dead" /\ x \notin Strings
          /\ x \notin Closures => y \in Values
          /\ x \in Userdata => y \in Tables
    /\ \A x \in alloc : colour[x] = "dead" /\ colour'[x] # "dead" =>
          x \notin Threads /\ \A y \in refs'[x] : y \in alloc' /\ colour'[y] # "dead"

LEMMA MutatesStep ==
    ASSUME IInv, Mutates
    PROVE  SweepOK' /\ Shape' /\ Finalizers' /\ Safe' /\ Sweeping'
<1>1. /\ UNCHANGED <<finalized, Taken, tmudata, gcstate, weak, tosweep, full>>
      /\ gcstate \notin AtomicStages /\ gcstate # "preserve"
  BY DEF Mutates, collector, AtomicStages, Taken
<1>2. TypeOK /\ Shape /\ Safe /\ Finalizers /\ SweepOK /\ Roots \subseteq alloc /\ alloc \subseteq Objects
  BY DEF IInv, TypeOK
<1>3. alloc \subseteq alloc' /\ alloc' \subseteq Objects
  BY DEF Mutates
<1>4. \A v \in DOMAIN open : v \in Upvals /\ v \in alloc /\ open[v] \in Threads /\ open[v] \in alloc
  BY <1>2 DEF TypeOK, SweepOK
<1>5. \A x \in alloc' \ alloc : refs[x] = {}
  BY <1>2, <1>3 DEF Shape
<1>6. SweepOK'
  <2>1. tosweep' \subseteq alloc' \ (DOMAIN open' \cup tmudata')
    BY <1>1, <1>2, <1>3 DEF SweepOK, Mutates
  <2>2. \A v \in DOMAIN open' : open'[v] \in alloc'
    BY <1>3, <1>4 DEF Mutates
  <2> QED BY <1>1, <1>2, <2>1, <2>2 DEF SweepOK
<1>7. Shape'
  <2>1. \A x \in Objects \ alloc' : refs'[x] = {} /\ colour'[x] = "white"
    BY <1>2, <1>3 DEF Mutates, Shape
  <2>2. Strings \cup Userdata \subseteq Objects
    BY DEF Objects
  <2>3. \A x \in Objects \ Closures : refs'[x] \subseteq Values
    BY <1>2 DEF Mutates, Shape
  <2>4. \A x \in Strings : refs'[x] = {}
    BY <1>2, <2>2 DEF Mutates, Shape
  <2>5. \A x \in Userdata : refs'[x] \subseteq Tables /\ colour'[x] # "gray"
    BY <1>2, <2>2 DEF Mutates, Shape
  <2>6. \A x \in WeakTables \cup Threads \cup DOMAIN open' : colour'[x] # "black"
    BY DEF Mutates
  <2> QED BY <2>1, <2>3, <2>4, <2>5, <2>6 DEF Shape, Black
<1>8. Finalizers'
  <2>1. \A u \in Userdata \cap alloc' : colour'[u] = "dead" => u \in finalized
    BY <1>2, <1>3 DEF Mutates, Finalizers, Dead
  <2> QED BY <1>1, <1>2, <2>1 DEF Finalizers, Dead
<1>9. ASSUME NEW x \in alloc', colour'[x] # "dead", NEW y \in Keeps(x)'
      PROVE  y \in alloc' /\ colour'[y] # "dead"
  <2>1. x \in Objects
    BY <1>3
  <2>2. \A w \in Objects : \A z \in refs'[w] : z \notin refs[w] => z \in alloc' /\ colour'[z] # "dead"
    BY DEF Mutates
  <2>3. \A z \in alloc : colour[z] # "dead" => z \in alloc' /\ colour'[z] # "dead"
    BY <1>2, <1>3 DEF Mutates
  <2>4. CASE x \in Threads
    <3>1. y \in refs'[x] \/ \E v \in DOMAIN open' : open'[v] = x /\ y \in refs'[v]
      BY <1>9, <2>4, StackFacts DEF Keeps
    <3>2. x \in alloc => \A z \in Stack(x) : z \in alloc' /\ colour'[z] # "dead"
      <4> SUFFICES ASSUME x \in alloc PROVE \A z \in Stack(x) : z \in alloc' /\ colour'[z] # "dead"
        OBVIOUS
      <4>1. colour[x] # "dead"
        BY <1>9, <2>4 DEF Mutates
      <4>2. \A z \in Stack(x) : z \in alloc /\ colour[z] # "dead"
        BY <1>2, <2>4, <4>1 DEF Safe, Keeps, Dead
      <4> QED BY <2>3, <4>2
    <3>3. CASE y \in refs'[x]
      <4>1. y \in refs[x] => x \in alloc /\ y \in Stack(x)
        BY <1>5, StackFacts
      <4> QED BY <2>1, <2>2, <3>2, <3>3, <4>1
    <3>4. CASE \E v \in DOMAIN open' : open'[v] = x /\ y \in refs'[v]
      <4>1. PICK v \in DOMAIN open' : open'[v] = x /\ y \in refs'[v]
        BY <3>4
      <4>2. CASE v \in DOMAIN open
        <5>1. open[v] = x /\ x \in alloc /\ v \in Objects
          BY <1>2, <1>4, <4>1, <4>2 DEF Mutates
        <5>2. y \in refs[v] => y \in Stack(x)
          BY <4>2, <5>1, StackFacts
        <5> QED BY <2>2, <3>2, <4>1, <5>1, <5>2
      <4>3. CASE v \notin DOMAIN open
        <5>1. v \in alloc' \ alloc
          BY <4>1, <4>3 DEF Mutates
        <5> QED BY <1>3, <1>5, <2>2, <4>1, <5>1
      <4> QED BY <4>2, <4>3
    <3> QED BY <3>1, <3>3, <3>4
  <2>5. CASE x \notin Threads
    <3>1. y \in refs'[x]
      BY <1>9, <2>5 DEF Keeps
    <3>2. CASE y \notin refs[x]
      BY <2>1, <2>2, <3>1, <3>2
    <3>3. CASE y \in refs[x]
      <4>1. x \in alloc
        BY <1>5, <3>3
      <4>2. CASE colour[x] = "dead"
        BY <1>9, <3>1, <4>1, <4>2 DEF Mutates
      <4>3. CASE colour[x] # "dead"
        BY <1>2, <2>3, <2>5, <3>3, <4>1, <4>3 DEF Safe, Keeps, Dead
      <4> QED BY <4>2, <4>3
    <3> QED BY <3>2, <3>3
  <2> QED BY <2>4, <2>5
<1>10. Safe'
  <2>1. \A x \in Roots \cup tmudata' : ~Dead(x)'
    <3>1. \A x \in Roots \cup tmudata : x \in Objects /\ colour[x] # "dead"
      BY <1>2 DEF TypeOK, Safe, Dead
    <3> QED BY <1>1, <3>1 DEF Mutates, Dead
  <2>2. gcstate' \notin Sweeps => \A x \in alloc' : ~Dead(x)'
    BY <1>1, <1>2, <1>3 DEF Mutates, Safe, Dead
  <2> QED BY <1>9, <2>1, <2>2 DEF Safe, Dead
<1>11. Sweeping'
  <2> SUFFICES ASSUME gcstate \notin Marks, NEW x \in alloc'
               PROVE  /\ gray' = {}
                      /\ \/ colour'[x] = "white"
                         \/ x \in tosweep \cup tmudata
                         \/ x \in DOMAIN open' /\ open'[x] \in tosweep
    <3>1. gcstate \notin Marks => gray' = {}
      BY DEF Mutates, IInv, Sweeping, Marks
    <3> QED BY <1>1, <3>1 DEF Sweeping
  <2>1. gcstate # "propagate"
    BY DEF Marks
  <2>2. gray' = {}
    BY <2>1 DEF Mutates, IInv, Sweeping
  <2>3. CASE x \in alloc
    <3>1. \/ colour[x] = "white"
          \/ x \in tosweep \cup tmudata
          \/ x \in DOMAIN open /\ open[x] \in tosweep
      BY <2>3 DEF IInv, Sweeping
    <3> QED BY <2>1, <2>2, <2>3, <3>1 DEF Mutates
  <2>4. CASE x \notin alloc
    BY <2>2, <2>4 DEF Mutates
  <2> QED BY <2>3, <2>4
<1> QED BY <1>6, <1>7, <1>8, <1>10, <1>11

LEMMA MutatesTypes ==
    ASSUME IInv, Mutates, gray' \cup grayagain' \subseteq Objects
    PROVE  TypeOK'
<1>1. UNCHANGED <<finalized, Taken, tmudata, gcstate, weak, tosweep, full>>
  BY DEF Mutates, collector, Taken
<1>2. TypeOK
  BY DEF IInv
<1>3. Roots \subseteq alloc' /\ alloc' \subseteq Objects
  BY <1>2 DEF Mutates, TypeOK
<1>4. DOMAIN open' \subseteq Upvals \cap alloc' /\ \A v \in DOMAIN open' : open'[v] \in Threads
  BY <1>2 DEF Mutates, TypeOK
<1>5. udlist' \cap tmudata' = {} /\ udlist' \cup tmudata' = Userdata \cap alloc'
  <2>1. alloc \subseteq alloc' /\ udlist' = udlist \cup (Userdata \cap (alloc' \ alloc))
    BY DEF Mutates
  <2>2. udlist \cap tmudata = {} /\ udlist \cup tmudata = Userdata \cap alloc
    BY <1>2 DEF TypeOK
  <2> QED BY <1>1, <2>1, <2>2
<1> QED BY <1>1, <1>2, <1>3, <1>4, <1>5 DEF TypeOK, Mutates, Colours

(* A step of the program that needs no mark: what is black gets nothing   *)
(* white.                                                                 *)
LEMMA PlainStep ==
    ASSUME IInv, Mutates, UNCHANGED <<gray, grayagain>>,
           gcstate = "propagate" => \A x \in alloc : colour[x] # "dead" => colour'[x] = colour[x],
           gcstate = "propagate" => \A x \in alloc : colour[x] = "black" =>
              \A y \in refs'[x] : y \in refs[x] \/ colour'[y] \notin Whites
    PROVE  IInv'
<1>1. /\ UNCHANGED <<tmudata, gcstate, weak>> /\ gcstate \notin AtomicStages
      /\ gcstate \notin {"regray", "preserve"}
  BY DEF Mutates, collector, AtomicStages, Taken
<1>2. TypeOK /\ Shape /\ Safe /\ Lists /\ Roots \subseteq alloc /\ alloc \subseteq Objects
  BY DEF IInv, TypeOK
<1>3. alloc \subseteq alloc' /\ alloc' \subseteq Objects
  BY DEF Mutates
<1>4. \A x \in gray \cup grayagain \cup weak : x \in alloc /\ colour[x] # "dead" /\ colour'[x] # "dead"
  BY <1>2 DEF Lists, Dead, Mutates
<1>5. Lists'
  BY <1>1, <1>2, <1>3, <1>4 DEF Lists, Dead
<1>6. gray' \cup grayagain' \subseteq Objects
  BY <1>2 DEF Lists
<1>7. Marking'
  <2> SUFFICES ASSUME gcstate = "propagate"
               PROVE  /\ \A x \in Roots : colour'[x] \notin Whites
                      /\ \A x \in gray \cup grayagain \cup weak : colour'[x] = "gray"
                      /\ \A x \in Tables \cup Closures \cup Threads :
                            colour'[x] = "gray" => x \in gray \cup grayagain \cup weak
                      /\ \A v \in Upvals : colour'[v] = "gray" => v \in DOMAIN open'
                      /\ \A x \in alloc' \ tmudata : colour'[x] = "black" =>
                            \A y \in refs'[x] : colour'[y] \notin Whites
    BY <1>1 DEF Marking, Marks, White, Black, BlackOK
  <2>1. /\ \A x \in Roots : colour[x] \notin Whites
        /\ \A x \in gray \cup grayagain \cup weak : colour[x] = "gray"
        /\ \A x \in Tables \cup Closures \cup Threads : colour[x] = "gray" => x \in gray \cup grayagain \cup weak
        /\ \A v \in Upvals : colour[v] = "gray" => v \in DOMAIN open
        /\ \A x \in alloc \ tmudata : colour[x] = "black" => \A y \in refs[x] : colour[y] \notin Whites
    BY DEF IInv, Marking, Marks, White, Black, BlackOK
  <2>2. \A x \in Objects : refs[x] \subseteq alloc /\ (x \in alloc => colour'[x] = colour[x])
    BY <1>2, HeapClosed DEF Sweeps
  <2>3. \A x \in alloc' \ alloc : colour'[x] = "white"
    BY DEF Mutates
  <2>4. \A x \in Objects \ alloc' : colour'[x] = colour[x]
    BY DEF Mutates
  <2>5. Tables \cup Closures \cup Threads \cup Upvals \subseteq Objects
    BY DEF Objects
  <2>6. DOMAIN open \subseteq DOMAIN open'
    BY DEF Mutates
  <2>7. \A x \in Objects : colour'[x] = "gray" => colour[x] = "gray"
    BY <2>2, <2>3, <2>4
  <2>8. ASSUME NEW x \in alloc' \ tmudata, colour'[x] = "black", NEW y \in refs'[x]
        PROVE  colour'[y] \notin Whites
    <3>1. x \in alloc /\ colour[x] = "black"
      BY <1>2, <2>2, <2>3, <2>8
    <3>2. y \in refs[x] \/ colour'[y] \notin Whites
      BY <2>8, <3>1
    <3>3. y \in refs[x] => y \in alloc /\ y \in Objects /\ colour[y] \notin Whites
      BY <1>2, <2>1, <2>2, <2>8, <3>1
    <3> QED BY <2>2, <3>2, <3>3
  <2> QED BY <1>2, <1>4, <2>1, <2>2, <2>5, <2>6, <2>7, <2>8
<1> QED BY <1>5, <1>6, <1>7, MutatesStep, MutatesTypes DEF IInv

LEMMA PushedFacts ==
    ASSUME TypeOK, NEW L \in Objects, NEW y \in Objects
    PROVE  /\ Pushed(L, y) \in [Objects -> SUBSET Objects]
           /\ Pushed(L, y)[L] = refs[L] \cup {y}
           /\ \A x \in Objects : x # L => Pushed(L, y)[x] = refs[x]
BY DEF Pushed, TypeOK

(* What the program finds on its stack, in the globals and behind them is  *)
(* not dead.                                                               *)
LEMMA ReadableAlive ==
    ASSUME IInv, NEW x \in alloc, ~Dead(x)
    PROVE  \A y \in Readable(x) : y \in alloc /\ y \in Values /\ ~Dead(y)
<1>1. TypeOK /\ Shape /\ Safe /\ alloc \subseteq Objects
  BY DEF IInv, TypeOK
<1>2. \A z \in alloc : ~Dead(z) => \A y \in refs[z] : y \in alloc /\ ~Dead(y)
  <2>1. \A z : \A y \in refs[z] : y \in Keeps(z)
    BY StackFacts DEF Keeps
  <2> QED BY <1>1, <2>1 DEF Safe
<1>3. \A y : y \in Readable(x) <=> y \in refs[x] \ Upvals \/ \E v \in refs[x] \cap Upvals : y \in refs[v]
  BY DEF Readable
<1>4. \A v \in Upvals : v \in Objects \ Closures
  BY KindsAssumption DEF Objects
<1>5. \A v \in Upvals : refs[v] \subseteq Values
  BY <1>1, <1>4 DEF Shape
<1>6. \A y \in refs[x] \ Upvals : y \in alloc /\ y \in Values /\ ~Dead(y)
  BY <1>1, <1>2 DEF Values
<1>7. \A v \in refs[x] \cap Upvals : \A y \in refs[v] : y \in alloc /\ y \in Values /\ ~Dead(y)
  BY <1>2, <1>5
<1> QED BY <1>3, <1>6, <1>7

LEMMA StackAlive ==
    ASSUME IInv, NEW L \in RunningThreads
    PROVE  /\ L \in Threads /\ L \in alloc /\ L \in Objects /\ colour[L] # "dead" /\ colour[L] # "black"
           /\ L \notin Tables \cup Closures \cup Upvals \cup Userdata \cup Strings
           /\ \A y \in Stack(L) : y \in alloc /\ y \in Objects /\ y \in Values /\ colour[y] # "dead"
<1>1. TypeOK /\ Shape /\ alloc \subseteq Objects
  BY DEF IInv, TypeOK
<1>2. /\ L \in Threads /\ L \in alloc /\ colour[L] # "dead"
      /\ \A y \in Stack(L) : y \in alloc /\ y \in Objects /\ colour[y] # "dead"
  BY <1>1, RunningAlive DEF Dead
<1>3. \A x \in Threads \cup Upvals : x \in Objects \ Closures
  BY KindsAssumption DEF Objects
<1>4. \A y \in Stack(L) : y \in Values
  BY <1>1, <1>2, <1>3, StackFacts DEF Shape, TypeOK
<1> QED BY <1>1, <1>2, <1>4, KindsAssumption DEF Shape, Black

LEMMA AtHandAlive ==
    ASSUME IInv, NEW L \in RunningThreads, NEW x \in AtHand(L)
    PROVE  x \in alloc /\ x \in Objects /\ x \in Values /\ colour[x] # "dead"
<1>1. alloc \subseteq Objects
  BY DEF IInv, TypeOK
<1>2. Registry \in alloc /\ ~Dead(Registry)
  BY DEF IInv, TypeOK, Safe, Roots
<1>3. Registry \in Values
  BY <1>1, <1>2, RootsAssumption, KindsAssumption DEF Values
<1> QED BY <1>1, <1>2, <1>3, StackAlive, ReadableAlive DEF AtHand, Dead

LEMMA ProgramStage == ProgramRuns => gcstate \notin AtomicStages
BY DEF ProgramRuns, AtomicStages

(* Types of the marks, for the steps that recolour few objects. *)
LEMMA ColourFacts ==
    ASSUME IInv
    PROVE  /\ colour \in [Objects -> Colours]
           /\ \A x \in Userdata : colour[x] # "gray"
           /\ \A x \in WeakTables \cup Threads \cup DOMAIN open : colour[x] # "black"
           /\ \A x \in Objects : refs[x] \subseteq Objects
           /\ \A x \in Objects \ alloc : refs[x] = {} /\ colour[x] = "white"
BY DEF IInv, TypeOK, Shape, Colours, Black

(* A field or a slot of o changes, and nothing else. *)
LEMMA FieldStep ==
    ASSUME IInv, ProgramRuns, UNCHANGED <<alloc, open, udlist, colour, gray, grayagain, collector>>,
           refs' \in [Objects -> SUBSET Objects],
           NEW o \in alloc, \A x \in Objects : x # o => refs'[x] = refs[x],
           \A y \in refs'[o] : y \notin refs[o] => y \in alloc /\ y \in Values /\ colour[y] # "dead",
           o \in Threads \cup DOMAIN open \/ refs'[o] \subseteq refs[o]
    PROVE  IInv'
<1>1. alloc \subseteq Objects /\ DOMAIN open \subseteq Upvals
  BY DEF IInv, TypeOK
<1>2. o \in Threads \cup DOMAIN open => o \notin Strings \cup Userdata
  BY <1>1, KindsAssumption
<1>3. \A x \in alloc : colour[x] = "black" => refs'[x] \subseteq refs[x]
  BY <1>1, ColourFacts
<1>4. \A x \in Objects : \A y \in refs'[x] : y \notin refs[x] =>
        /\ y \in alloc' /\ colour'[y] # "dead" /\ x \notin Strings
        /\ x \notin Closures => y \in Values
        /\ x \in Userdata => y \in Tables
  BY <1>2
<1>5. Mutates
  BY <1>1, <1>4, ColourFacts, ProgramStage DEF Mutates
<1> QED BY <1>3, <1>5, PlainStep

LEMMA LoadStep ==
    ASSUME IInv, NEW L \in RunningThreads, NEW x \in AtHand(L), NEW y \in Readable(x), Load(L, x, y)
    PROVE  IInv'
<1>1. x \in alloc /\ colour[x] # "dead"
  BY AtHandAlive
<1>2. y \in alloc /\ y \in Values /\ colour[y] # "dead" /\ y \in Objects
  BY <1>1, ReadableAlive DEF Dead, Values
<1>3. TypeOK /\ L \in Threads /\ L \in alloc /\ L \in Objects
  BY StackAlive DEF IInv
<1> QED BY <1>2, <1>3, PushedFacts, FieldStep DEF Load

LEMMA XMoveStep ==
    ASSUME IInv, NEW L \in RunningThreads, NEW c \in Stack(L) \cap Threads, NEW y \in Stack(L), XMove(L, c, y)
    PROVE  IInv'
<1>1. /\ y \in alloc /\ y \in Values /\ colour[y] # "dead" /\ y \in Objects
      /\ c \in Threads /\ c \in alloc /\ c \in Objects
  BY StackAlive
<1>2. TypeOK
  BY DEF IInv
<1> QED BY <1>1, <1>2, PushedFacts, FieldStep DEF XMove

LEMMA PopStep ==
    ASSUME IInv, NEW L \in RunningThreads, NEW y \in refs[L], Pop(L, y)
    PROVE  IInv'
<1>1. L \in alloc /\ L \in Objects
  BY StackAlive
<1>2. /\ refs' = [refs EXCEPT ![L] = @ \ {y}] /\ ProgramRuns
      /\ UNCHANGED <<alloc, open, udlist, colour, gray, grayagain, collector>>
  BY DEF Pop
<1>3. /\ refs' \in [Objects -> SUBSET Objects] /\ refs'[L] \subseteq refs[L]
      /\ \A x \in Objects : x # L => refs'[x] = refs[x]
  BY <1>1, <1>2 DEF IInv, TypeOK
<1> QED BY <1>1, <1>2, <1>3, FieldStep

LEMMA ClearStep ==
    ASSUME IInv, NEW L \in RunningThreads, NEW x \in AtHand(L), NEW y \in refs[x], Clear(L, x, y)
    PROVE  IInv'
<1>1. x \in alloc /\ x \in Objects
  BY AtHandAlive
<1>2. /\ refs' = [refs EXCEPT ![x] = @ \ {y}] /\ ProgramRuns
      /\ UNCHANGED <<alloc, open, udlist, colour, gray, grayagain, collector>>
  BY DEF Clear
<1>3. /\ refs' \in [Objects -> SUBSET Objects] /\ refs'[x] \subseteq refs[x]
      /\ \A o \in Objects : o # x => refs'[o] = refs[o]
  BY <1>1, <1>2 DEF IInv, TypeOK
<1> QED BY <1>1, <1>2, <1>3, FieldStep

LEMMA SetLocalStep ==
    ASSUME IInv, NEW L \in RunningThreads, NEW v \in OpenIn(L), NEW X \in Locals(L), SetLocal(v, X)
    PROVE  IInv'
<1>1. \A y \in X : y \in alloc /\ y \in Values /\ colour[y] # "dead" /\ y \in Objects
  BY StackAlive DEF Locals
<1>2. v \in DOMAIN open /\ v \in alloc /\ v \in Objects
  BY DEF OpenIn, IInv, TypeOK
<1>3. /\ refs' = [refs EXCEPT ![v] = X] /\ ProgramRuns
      /\ UNCHANGED <<alloc, open, udlist, colour, gray, grayagain, collector>>
  BY DEF SetLocal
<1>4. /\ refs' \in [Objects -> SUBSET Objects] /\ refs'[v] = X
      /\ \A o \in Objects : o # v => refs'[o] = refs[o]
  BY <1>1, <1>2, <1>3 DEF IInv, TypeOK
<1> QED BY <1>1, <1>2, <1>3, <1>4, FieldStep

(* Allocation. *)
LEMMA NewObjectStep ==
    ASSUME IInv, NEW L \in RunningThreads, NEW x \in Values \ (alloc \cup Strings), NewObject(L, x)
    PROVE  IInv'
<1>1. /\ UNCHANGED <<open, gray, grayagain, collector>>
      /\ gcstate \notin AtomicStages /\ alloc' = alloc \cup {x}
      /\ colour' = [colour EXCEPT ![x] = "white"] /\ refs' = Pushed(L, x)
      /\ udlist' = IF x \in Userdata THEN udlist \cup {x} ELSE udlist
  BY ProgramStage DEF NewObject
<1>2. x \in Objects /\ x \notin alloc /\ x \in Values
  BY DEF Values
<1>3. TypeOK /\ alloc \subseteq Objects
  BY DEF IInv, TypeOK
<1>4. /\ L \in Threads /\ L \in alloc /\ L \in Objects /\ colour[L] # "black"
      /\ L \notin Tables \cup Closures \cup Upvals \cup Userdata \cup Strings
  BY StackAlive
<1>5. /\ refs' \in [Objects -> SUBSET Objects] /\ refs'[L] = refs[L] \cup {x}
      /\ \A o \in Objects : o # L => refs'[o] = refs[o]
  BY <1>1, <1>2, <1>3, <1>4, PushedFacts
<1>6. /\ colour' \in [Objects -> Colours] /\ colour'[x] = "white"
      /\ \A o \in Objects : o # x => colour'[o] = colour[o]
  BY <1>1, <1>2, ColourFacts DEF Colours, Whites
<1>7. /\ \A o \in Userdata : colour'[o] # "gray"
      /\ \A o \in WeakTables \cup Threads \cup DOMAIN open : colour'[o] # "black"
  BY <1>1, <1>2, ColourFacts
<1>8. \A o \in Objects : \A y \in refs'[o] : y \notin refs[o] =>
        /\ y \in alloc' /\ colour'[y] # "dead" /\ o \notin Strings
        /\ o \notin Closures => y \in Values
        /\ o \in Userdata => y \in Tables
  BY <1>1, <1>2, <1>4, <1>5, <1>6
<1>9. udlist' = udlist \cup (Userdata \cap (alloc' \ alloc))
  BY <1>1, <1>2
<1>10. Mutates
  BY <1>1, <1>2, <1>3, <1>4, <1>5, <1>6, <1>7, <1>8, <1>9 DEF Mutates
<1>11. /\ \A o \in alloc : colour[o] # "dead" => colour'[o] = colour[o]
       /\ \A o \in alloc : colour[o] = "black" => refs'[o] \subseteq refs[o]
  BY <1>2, <1>3, <1>4, <1>5, <1>6
<1> QED BY <1>1, <1>10, <1>11, PlainStep

LEMMA NewStringStep ==
    ASSUME IInv, NEW L \in RunningThreads, NEW s \in Strings, NewString(L, s)
    PROVE  IInv'
<1>1. /\ UNCHANGED <<open, udlist, gray, grayagain, collector>>
      /\ gcstate \notin AtomicStages /\ alloc' = alloc \cup {s}
      /\ colour' = IF s \notin alloc \/ Dead(s) THEN [colour EXCEPT ![s] = "white"] ELSE colour
      /\ refs' = Pushed(L, s)
  BY ProgramStage DEF NewString
<1>2. /\ s \in Objects /\ s \in Values
      /\ s \notin Threads \cup Tables \cup Closures \cup Upvals \cup Userdata
  BY KindsAssumption DEF Values, Objects
<1>3. TypeOK /\ alloc \subseteq Objects /\ refs[s] = {}
  BY DEF IInv, TypeOK, Shape
<1>4. /\ L \in Threads /\ L \in alloc /\ L \in Objects /\ colour[L] # "black"
      /\ L \notin Tables \cup Closures \cup Upvals \cup Userdata \cup Strings
  BY StackAlive
<1>5. /\ refs' \in [Objects -> SUBSET Objects] /\ refs'[L] = refs[L] \cup {s}
      /\ \A o \in Objects : o # L => refs'[o] = refs[o]
  BY <1>1, <1>2, <1>3, <1>4, PushedFacts
<1>6. /\ colour' \in [Objects -> Colours]
      /\ \A o \in Objects : o # s => colour'[o] = colour[o]
      /\ s \notin alloc \/ colour[s] = "dead" => colour'[s] = "white"
      /\ s \in alloc /\ colour[s] # "dead" => colour'[s] = colour[s]
  BY <1>1, <1>2, ColourFacts DEF Colours, Whites, Dead
<1>7. /\ \A o \in Userdata : colour'[o] # "gray"
      /\ \A o \in WeakTables \cup Threads \cup DOMAIN open : colour'[o] # "black"
  BY <1>1, <1>2, ColourFacts
<1>8. colour'[s] # "dead"
  BY <1>6
<1>9. \A o \in Objects : \A y \in refs'[o] : y \notin refs[o] =>
        /\ y \in alloc' /\ colour'[y] # "dead" /\ o \notin Strings
        /\ o \notin Closures => y \in Values
        /\ o \in Userdata => y \in Tables
  BY <1>1, <1>2, <1>4, <1>5, <1>8
<1>10. udlist' = udlist \cup (Userdata \cap (alloc' \ alloc))
  BY <1>1, <1>2
<1>11. \A o \in alloc : colour[o] = "dead" /\ colour'[o] # "dead" => o = s
  BY <1>3, <1>6
<1>12. refs'[s] = {}
  BY <1>2, <1>3, <1>4, <1>5
<1>13. Mutates
  BY <1>1, <1>2, <1>3, <1>4, <1>5, <1>6, <1>7, <1>8, <1>9, <1>10, <1>11, <1>12 DEF Mutates
<1>14. /\ \A o \in alloc : colour[o] # "dead" => colour'[o] = colour[o]
       /\ \A o \in alloc : colour[o] = "black" => refs'[o] \subseteq refs[o]
  BY <1>2, <1>3, <1>4, <1>5, <1>6
<1> QED BY <1>1, <1>13, <1>14, PlainStep

LEMMA NewClosureSharingStep ==
    ASSUME IInv, NEW L \in RunningThreads, NEW f \in Closures \ alloc,
           NEW g \in Stack(L) \cap Closures, NEW v \in UpvalsOf(g), NewClosureSharing(L, f, v)
    PROVE  IInv'
<1>1. /\ UNCHANGED <<open, udlist, gray, grayagain, collector>>
      /\ gcstate \notin AtomicStages /\ alloc' = alloc \cup {f}
      /\ colour' = [colour EXCEPT ![f] = "white"] /\ refs' = [Pushed(L, f) EXCEPT ![f] = {v}]
  BY ProgramStage DEF NewClosureSharing
<1>2. /\ f \in Objects /\ f \in Values /\ f \notin alloc
      /\ f \notin Threads \cup Tables \cup Upvals \cup Userdata \cup Strings
  BY KindsAssumption DEF Values, Objects
<1>3. TypeOK /\ alloc \subseteq Objects
  BY DEF IInv, TypeOK
<1>4. /\ L \in Threads /\ L \in alloc /\ L \in Objects /\ colour[L] # "black"
      /\ L \notin Tables \cup Closures \cup Upvals \cup Userdata \cup Strings
      /\ g \in alloc /\ colour[g] # "dead"
  BY StackAlive
<1>5. v \in alloc /\ colour[v] # "dead"
  <2>1. v \in Keeps(g)
    BY KindsAssumption DEF UpvalsOf, Keeps
  <2> QED BY <1>4, <2>1 DEF IInv, Safe, Dead
<1>6. /\ refs' \in [Objects -> SUBSET Objects] /\ refs'[L] = refs[L] \cup {f} /\ refs'[f] = {v}
      /\ \A o \in Objects : o # L /\ o # f => refs'[o] = refs[o]
  <2>1. /\ Pushed(L, f) \in [Objects -> SUBSET Objects] /\ Pushed(L, f)[L] = refs[L] \cup {f}
        /\ \A o \in Objects : o # L => Pushed(L, f)[o] = refs[o]
    BY <1>2, <1>3, <1>4, PushedFacts
  <2> QED BY <1>1, <1>2, <1>3, <1>4, <1>5, <2>1
<1>7. /\ colour' \in [Objects -> Colours] /\ colour'[f] = "white"
      /\ \A o \in Objects : o # f => colour'[o] = colour[o]
  BY <1>1, <1>2, ColourFacts DEF Colours, Whites
<1>8. /\ \A o \in Userdata : colour'[o] # "gray"
      /\ \A o \in WeakTables \cup Threads \cup DOMAIN open : colour'[o] # "black"
  BY <1>1, <1>2, ColourFacts
<1>9. \A o \in Objects : \A y \in refs'[o] : y \notin refs[o] =>
        /\ y \in alloc' /\ colour'[y] # "dead" /\ o \notin Strings
        /\ o \notin Closures => y \in Values
        /\ o \in Userdata => y \in Tables
  BY <1>1, <1>2, <1>3, <1>4, <1>5, <1>6, <1>7
<1>10. udlist' = udlist \cup (Userdata \cap (alloc' \ alloc))
  BY <1>1, <1>2
<1>11. Mutates
  BY <1>1, <1>2, <1>3, <1>4, <1>6, <1>7, <1>8, <1>9, <1>10 DEF Mutates
<1>12. /\ \A o \in alloc : colour[o] # "dead" => colour'[o] = colour[o]
       /\ \A o \in alloc : colour[o] = "black" => refs'[o] \subseteq refs[o]
  BY <1>2, <1>3, <1>4, <1>6, <1>7
<1> QED BY <1>1, <1>11, <1>12, PlainStep

LEMMA NewClosureOverStep ==
    ASSUME IInv, NEW L \in RunningThreads, NEW f \in Closures \ alloc,
           NEW v \in OpenIn(L) \cup (Upvals \ alloc), NEW X \in Locals(L), NewClosureOver(L, f, v, X)
    PROVE  IInv'
<1>1. /\ UNCHANGED <<udlist, gray, grayagain, collector>>
      /\ gcstate \notin AtomicStages /\ alloc' = alloc \cup {f, v}
      /\ v \in alloc => X = refs[v]
      /\ open' = [u \in DOMAIN open \cup {v} |-> IF u = v THEN L ELSE open[u]]
      /\ colour' = [colour EXCEPT ![f] = "white",
                                  ![v] = IF v \notin alloc \/ Dead(v) THEN "white" ELSE @]
      /\ refs' = [Pushed(L, f) EXCEPT ![f] = {v}, ![v] = X]
  BY ProgramStage DEF NewClosureOver
<1>2. /\ f \in Objects /\ f \in Values /\ f \notin alloc
      /\ f \notin Threads \cup Tables \cup Upvals \cup Userdata \cup Strings
  BY KindsAssumption DEF Values, Objects
<1>3. TypeOK /\ alloc \subseteq Objects
  BY DEF IInv, TypeOK
<1>4. /\ L \in Threads /\ L \in alloc /\ L \in Objects /\ colour[L] # "black"
      /\ L \notin Tables \cup Closures \cup Upvals \cup Userdata \cup Strings
  BY StackAlive
<1>5. /\ v \in Upvals /\ v \in Objects
      /\ v \notin Threads \cup Tables \cup Closures \cup Userdata \cup Strings
      /\ v \in alloc <=> v \in DOMAIN open
      /\ v \in DOMAIN open => open[v] = L
  <2>1. v \in Upvals /\ (v \in alloc <=> v \in DOMAIN open) /\ (v \in DOMAIN open => open[v] = L)
    BY <1>3 DEF OpenIn, TypeOK
  <2> QED BY <2>1, KindsAssumption DEF Objects
<1>6. \A y \in X : y \in alloc /\ y \in Objects /\ y \in Values /\ colour[y] # "dead"
  BY StackAlive DEF Locals
<1>7. f # v /\ f # L /\ v # L
  BY <1>2, <1>4, <1>5
<1>8. /\ refs' \in [Objects -> SUBSET Objects]
      /\ refs'[L] = refs[L] \cup {f} /\ refs'[f] = {v} /\ refs'[v] = X
      /\ \A o \in Objects : o # L /\ o # f /\ o # v => refs'[o] = refs[o]
  <2>1. /\ Pushed(L, f) \in [Objects -> SUBSET Objects] /\ Pushed(L, f)[L] = refs[L] \cup {f}
        /\ \A o \in Objects : o # L => Pushed(L, f)[o] = refs[o]
    BY <1>2, <1>3, <1>4, PushedFacts
  <2>2. X \in SUBSET Objects /\ {v} \in SUBSET Objects
    BY <1>5, <1>6
  <2> QED BY <1>1, <1>2, <1>4, <1>5, <1>7, <2>1, <2>2
<1>9. /\ colour' \in [Objects -> Colours] /\ colour'[f] = "white"
      /\ v \notin alloc \/ colour[v] = "dead" => colour'[v] = "white"
      /\ v \in alloc /\ colour[v] # "dead" => colour'[v] = colour[v]
      /\ \A o \in Objects : o # f /\ o # v => colour'[o] = colour[o]
  BY <1>1, <1>2, <1>5, <1>7, ColourFacts DEF Colours, Whites, Dead
<1>10. /\ DOMAIN open' = DOMAIN open \cup {v} /\ open'[v] = L
       /\ \A u \in DOMAIN open : open'[u] = open[u]
  BY <1>1, <1>5
<1>11. /\ \A o \in Userdata : colour'[o] # "gray"
       /\ \A o \in WeakTables \cup Threads \cup DOMAIN open' : colour'[o] # "black"
  <2>1. \A o \in Userdata : o \in Objects /\ o # f /\ o # v
    BY <1>2, <1>5 DEF Objects
  <2>2. \A o \in WeakTables \cup Threads \cup DOMAIN open : o \in Objects /\ o # f
    BY <1>2, <1>3, WeakAssumption, KindsAssumption DEF Objects, TypeOK
  <2>3. colour'[v] # "black"
    BY <1>5, <1>9, ColourFacts
  <2> QED BY <1>9, <1>10, <2>1, <2>2, <2>3, ColourFacts
<1>12. colour'[v] # "dead" /\ v \in alloc' /\ f \in alloc' /\ colour'[f] # "dead"
  BY <1>1, <1>9
<1>13. \A y \in X : y \in alloc' /\ colour'[y] # "dead" /\ y \in Values
  BY <1>1, <1>2, <1>6, <1>9, <1>12
<1>14. \A o \in Objects : \A y \in refs'[o] : y \notin refs[o] =>
         /\ y \in alloc' /\ colour'[y] # "dead" /\ o \notin Strings
         /\ o \notin Closures => y \in Values
         /\ o \in Userdata => y \in Tables
  BY <1>2, <1>4, <1>5, <1>8, <1>12, <1>13
<1>15. \A o \in alloc : colour[o] = "dead" /\ colour'[o] # "dead" => o = v
  BY <1>2, <1>3, <1>9
<1>16. udlist' = udlist \cup (Userdata \cap (alloc' \ alloc))
  BY <1>1, <1>2, <1>5
<1>17. /\ alloc \subseteq alloc' /\ alloc' \subseteq Objects
       /\ \A o \in alloc' \ alloc : colour'[o] = "white"
       /\ \A o \in Objects \ alloc' : colour'[o] = colour[o] /\ refs'[o] = refs[o]
  BY <1>1, <1>2, <1>3, <1>4, <1>5, <1>8, <1>9
<1>18. Mutates
  <2>1. \A o \in Objects : colour'[o] = "dead" => colour[o] = "dead"
    BY <1>9, <1>12
  <2>2. \A o \in alloc : colour[o] = "white" => colour'[o] = "white"
    BY <1>2, <1>3, <1>9
  <2>3. \A u \in DOMAIN open' \ DOMAIN open : u \in Upvals \cap (alloc' \ alloc) /\ open'[u] \in Threads \cap alloc
    BY <1>4, <1>5, <1>10, <1>12
  <2>4. \A o \in alloc : colour[o] = "dead" /\ colour'[o] # "dead" =>
          o \notin Threads /\ \A y \in refs'[o] : y \in alloc' /\ colour'[y] # "dead"
    BY <1>5, <1>8, <1>13, <1>15
  <2> QED BY <1>1, <1>8, <1>9, <1>10, <1>11, <1>14, <1>16, <1>17, <2>1, <2>2, <2>3, <2>4 DEF Mutates
<1>19. /\ \A o \in alloc : colour[o] # "dead" => colour'[o] = colour[o]
       /\ \A o \in alloc : colour[o] = "black" => refs'[o] \subseteq refs[o]
  <2>1. \A o \in alloc : o # f /\ o \in Objects
    BY <1>2, <1>3
  <2>2. v \in alloc => refs'[v] = refs[v]
    BY <1>1, <1>8
  <2> QED BY <1>4, <1>8, <1>9, <2>1, <2>2
<1> QED BY <1>1, <1>18, <1>19, PlainStep

-----------------------------------------------------------------------------
(* Barriers. *)

(* What a store into o of the value y does to the fields. *)
Stores(o, y) ==
    /\ ProgramRuns /\ UNCHANGED <<alloc, open, udlist, collector>>
    /\ o \in alloc \ (Threads \cup Strings) /\ colour[o] # "dead"
    /\ y \in alloc /\ y \in Values /\ colour[y] # "dead" /\ (o \in Userdata => y \in Tables)
    /\ refs' \in [Objects -> SUBSET Objects]
    /\ refs'[o] \subseteq refs[o] \cup {y}
    /\ \A x \in Objects : x # o => refs'[x] = refs[x]

LEMMA StoresMutates ==
    ASSUME IInv, NEW o, NEW y, Stores(o, y),
           colour' \in [Objects -> Colours],
           \A x \in Objects : colour'[x] = "dead" => colour[x] = "dead",
           \A x \in alloc : colour[x] = "dead" => colour'[x] = "dead",
           \A x \in Objects \ alloc : colour'[x] = colour[x],
           \A x \in Userdata : colour'[x] # "gray",
           \A x \in WeakTables \cup Threads \cup DOMAIN open : colour'[x] # "black",
           gcstate # "propagate" => gray' = gray /\ \A x \in alloc : colour[x] = "white" => colour'[x] = "white"
    PROVE  Mutates
<1>1. alloc \subseteq Objects /\ gcstate \notin AtomicStages
  BY ProgramStage DEF IInv, TypeOK, Stores
<1>2. \A x \in Objects : \A z \in refs'[x] : z \notin refs[x] => x = o /\ z = y
  BY <1>1 DEF Stores
<1>3. colour'[y] # "dead"
  BY <1>1 DEF Stores
<1>4. \A x \in Objects : \A z \in refs'[x] : z \notin refs[x] =>
        /\ z \in alloc' /\ colour'[z] # "dead" /\ x \notin Strings
        /\ x \notin Closures => z \in Values
        /\ x \in Userdata => z \in Tables
  BY <1>2, <1>3 DEF Stores
<1>5. \A x \in Objects \ alloc' : refs'[x] = refs[x]
  BY DEF Stores
<1> QED BY <1>1, <1>4, <1>5 DEF Mutates, Stores

LEMMA ForwardStep ==
    ASSUME IInv, NEW o, NEW y, Stores(o, y), o \in Closures \cup Userdata \cup Upvals, BarrierForward(o, y)
    PROVE  IInv'
<1>1. /\ alloc \subseteq Objects /\ o \in Objects /\ y \in Objects /\ o \in alloc /\ y \in alloc
      /\ colour[o] # "dead" /\ colour[y] # "dead" /\ gcstate \notin AtomicStages
      /\ TypeOK /\ Shape /\ Safe /\ Lists
      /\ UNCHANGED <<alloc, open, udlist, collector, grayagain>>
  BY ProgramStage DEF IInv, TypeOK, Stores, BarrierForward
<1>2. o \notin Tables \cup Threads \cup WeakTables
  BY KindsAssumption, WeakAssumption
<1>3. CASE ~(White(y) /\ Black(o))
  <2>1. UNCHANGED <<colour, gray>>
    BY <1>3 DEF BarrierForward
  <2>2. Mutates
    BY <2>1, ColourFacts, StoresMutates
  <2>3. \A x \in alloc : colour[x] = "black" => \A z \in refs'[x] : z \in refs[x] \/ colour'[z] \notin Whites
    BY <1>1, <1>3, <2>1 DEF Stores, White, Black
  <2> QED BY <1>1, <2>1, <2>2, <2>3, PlainStep
<1>4. CASE White(y) /\ Black(o) /\ gcstate # "propagate"
  <2>1. colour' = [colour EXCEPT ![o] = "white"] /\ gray' = gray
    BY <1>4 DEF BarrierForward
  <2>2. /\ colour' \in [Objects -> Colours] /\ colour'[o] = "white"
        /\ \A x \in Objects : x # o => colour'[x] = colour[x]
    BY <1>1, <2>1, ColourFacts DEF Colours, Whites
  <2>3. /\ \A x \in Userdata : colour'[x] # "gray"
        /\ \A x \in WeakTables \cup Threads \cup DOMAIN open : colour'[x] # "black"
    BY <1>1, <2>1, ColourFacts
  <2>4. Mutates
    BY <1>1, <2>1, <2>2, <2>3, StoresMutates
  <2> QED BY <1>1, <1>4, <2>1, <2>4, PlainStep
<1>5. CASE White(y) /\ Black(o) /\ gcstate = "propagate"
  <2> DEFINE new == Painted(MarkedFrom({y}, colour), colour)
             Q   == Queued(MarkedFrom({y}, colour))
  <2>1. colour' = new /\ gray' = gray \cup Q
    BY <1>5 DEF BarrierForward
  <2>2. gcstate \notin Sweeps /\ gcstate' = gcstate /\ gcstate \in Marks /\ UNCHANGED <<tmudata, weak>>
    BY <1>1, <1>5 DEF Sweeps, Marks, collector
  <2>3. \A x \in Objects : refs[x] \subseteq alloc
    BY <1>1, <2>2, HeapClosed
  <2>4. MarkedAs({y}, colour, colour', Q)
    BY <1>1, <2>1, <2>3, ColourFacts, MarkedAsFacts
  <2> HIDE DEF new, Q
  <2>5. Darkened
    BY <1>1, <2>4, MarkedAsDarkened
  <2>6. \A x \in Objects : colour[x] \notin Whites => colour'[x] = colour[x]
    BY <2>4 DEF MarkedAs
  <2>7. Mutates
    <3>1. \A x \in Objects : colour'[x] = "dead" => colour[x] = "dead"
      BY <2>5 DEF Darkened
    <3>2. \A x \in alloc : colour[x] = "dead" => colour'[x] = "dead"
      BY <1>1, <2>2, HeapClosed
    <3>3. \A x \in Objects \ alloc : colour'[x] = colour[x]
      BY <2>5 DEF Darkened
    <3> QED BY <1>5, <2>5, <3>1, <3>2, <3>3, StoresMutates DEF Darkened
  <2>8. SweepOK' /\ Shape' /\ Finalizers' /\ Safe' /\ Sweeping'
    BY <2>7, MutatesStep
  <2>9. /\ \A x \in Roots : colour[x] \notin Whites
        /\ \A x \in gray \cup grayagain \cup weak : colour[x] = "gray"
        /\ \A x \in Tables \cup Closures \cup Threads : colour[x] = "gray" => x \in gray \cup grayagain \cup weak
        /\ \A v \in Upvals : colour[v] = "gray" => v \in DOMAIN open
        /\ \A x \in alloc \ tmudata : colour[x] = "black" => \A z \in refs[x] : colour[z] \notin Whites
    BY <2>2 DEF IInv, Marking, White, Black, BlackOK
  <2>10. Q \subseteq (Tables \cup Closures \cup Threads) \cap alloc /\ \A x \in Q : colour'[x] = "gray"
    BY <2>4 DEF MarkedAs
  <2>11. \A x \in Q : x \notin gray \cup grayagain \cup weak
    <3>1. \A x \in Q : colour[x] \in Whites
      BY <2>4 DEF MarkedAs
    <3> QED BY <2>9, <3>1 DEF Whites
  <2>12. \A x \in gray \cup grayagain \cup weak : colour'[x] = "gray" /\ x \in alloc
    BY <1>1, <2>6, <2>9 DEF Lists, Whites
  <2>13. Lists'
    BY <1>1, <2>1, <2>2, <2>10, <2>11, <2>12 DEF Lists, Dead
  <2>14. TypeOK'
    <3>1. gray' \cup grayagain' \subseteq Objects
      BY <1>1, <2>1, <2>10 DEF Lists
    <3> QED BY <2>7, <3>1, MutatesTypes
  <2>15. Marking'
    <3>1. \A x \in Roots : colour'[x] \notin Whites
      BY <1>1, <2>6, <2>9 DEF TypeOK
    <3>2. \A x \in Tables \cup Closures \cup Threads : x \in Objects /\
             (colour'[x] = "gray" => x \in gray \cup Q \cup grayagain \cup weak)
      <4>1. \A x \in Tables \cup Closures \cup Threads : x \in Objects
        BY DEF Objects
      <4>2. \A x \in Tables \cup Closures \cup Threads : colour'[x] = "gray" => colour[x] = "gray" \/ x \in Q
        BY <2>4, <4>1 DEF MarkedAs
      <4> QED BY <2>9, <4>1, <4>2
    <3>3. \A v \in Upvals : colour'[v] = "gray" => v \in DOMAIN open
      <4>1. \A x \in Upvals : x \in Objects
        BY DEF Objects
      <4> QED BY <2>4, <2>9, <4>1 DEF MarkedAs
    <3>4. ASSUME NEW x \in alloc \ tmudata, colour'[x] = "black", NEW z \in refs'[x]
          PROVE  colour'[z] \notin Whites
      <4>1. colour'[y] \notin Whites
        BY <2>4 DEF MarkedAs
      <4>2. z \in refs[x] \/ z = y
        BY <1>1, <3>4 DEF Stores
      <4>3. ASSUME z \in refs[x] PROVE colour'[z] \notin Whites
        <5>1. z \in Objects /\ x \in Objects
          BY <1>1, <2>3, <4>3
        <5>2. CASE colour[x] \in Whites
          BY <2>4, <3>4, <4>3, <5>1, <5>2 DEF MarkedAs
        <5>3. CASE colour[x] \notin Whites
          BY <2>6, <2>9, <3>4, <4>3, <5>1, <5>3
        <5> QED BY <5>2, <5>3
      <4> QED BY <4>1, <4>2, <4>3
    <3>5. BlackOK(tmudata)'
      BY <1>1, <2>2, <3>4 DEF BlackOK, Black, White
    <3>6. gcstate' \notin AtomicStages \cup {"regray", "preserve"}
      BY <1>1, <2>2 DEF AtomicStages
    <3> QED BY <1>1, <2>1, <2>2, <2>10, <2>12, <3>1, <3>2, <3>3, <3>5, <3>6 DEF Marking, White
  <2> QED BY <2>8, <2>13, <2>14, <2>15 DEF IInv
<1> QED BY <1>3, <1>4, <1>5

LEMMA BackStep ==
    ASSUME IInv, NEW o, NEW y, Stores(o, y), o \in Tables, BarrierBack(o, y)
    PROVE  IInv'
<1>1. /\ alloc \subseteq Objects /\ o \in Objects /\ y \in Objects /\ o \in alloc /\ y \in alloc
      /\ colour[o] # "dead" /\ colour[y] # "dead" /\ gcstate \notin AtomicStages
      /\ TypeOK /\ Shape /\ Safe /\ Lists
      /\ UNCHANGED <<alloc, open, udlist, collector, gray>>
  BY ProgramStage DEF IInv, TypeOK, Stores, BarrierBack
<1>2. o \notin Threads \cup Closures \cup Upvals \cup Userdata \cup Strings
  BY KindsAssumption
<1>3. CASE ~(White(y) /\ Black(o))
  <2>1. UNCHANGED <<colour, gray, grayagain>>
    BY <1>1, <1>3 DEF BarrierBack
  <2>2. Mutates
    BY <2>1, ColourFacts, StoresMutates
  <2>3. \A x \in alloc : colour[x] = "black" => \A z \in refs'[x] : z \in refs[x] \/ colour'[z] \notin Whites
    BY <1>1, <1>3, <2>1 DEF Stores, White, Black
  <2> QED BY <1>1, <2>1, <2>2, <2>3, PlainStep
<1>4. CASE White(y) /\ Black(o)
  <2>1. colour' = [colour EXCEPT ![o] = "gray"] /\ grayagain' = grayagain \cup {o}
    BY <1>4 DEF BarrierBack
  <2>2. /\ colour' \in [Objects -> Colours] /\ colour'[o] = "gray" /\ colour[o] = "black"
        /\ \A x \in Objects : x # o => colour'[x] = colour[x]
    BY <1>1, <1>4, <2>1, ColourFacts DEF Colours, Black
  <2>3. /\ \A x \in Userdata : colour'[x] # "gray"
        /\ \A x \in WeakTables \cup Threads \cup DOMAIN open : colour'[x] # "black"
    <3>1. \A x \in Userdata : x \in Objects /\ x # o
      BY <1>2 DEF Objects
    <3> QED BY <1>1, <2>1, <2>2, <3>1, ColourFacts
  <2>4. Mutates
    BY <1>1, <2>2, <2>3, StoresMutates
  <2>5. SweepOK' /\ Shape' /\ Finalizers' /\ Safe' /\ Sweeping'
    BY <2>4, MutatesStep
  <2>6. TypeOK'
    <3>1. gray' \cup grayagain' \subseteq Objects
      BY <1>1, <2>1 DEF Lists
    <3> QED BY <2>4, <3>1, MutatesTypes
  <2>7. UNCHANGED <<gcstate, tmudata, weak>>
    BY <1>1 DEF collector
  <2>8. o \notin WeakTables /\ o \notin gray
    <3>1. o \notin WeakTables
      BY <2>2, ColourFacts
    <3>2. gcstate \in Marks => \A x \in gray : colour[x] = "gray"
      BY DEF IInv, Marking
    <3>3. gcstate \notin Marks => gray = {}
      BY DEF IInv, Sweeping
    <3> QED BY <2>2, <3>1, <3>2, <3>3
  <2>9. Lists'
    <3>1. \A x \in gray' \cup grayagain' \cup weak' : x \in alloc /\ colour'[x] # "dead"
      BY <1>1, <2>1, <2>2, <2>7 DEF Lists, Dead
    <3> QED BY <1>1, <2>1, <2>7, <2>8, <3>1 DEF Lists, Dead
  <2>10. Marking'
    <3> SUFFICES ASSUME gcstate = "propagate"
                 PROVE  /\ \A x \in Roots : colour'[x] \notin Whites
                        /\ \A x \in gray \cup grayagain' \cup weak : colour'[x] = "gray"
                        /\ \A x \in Tables \cup Closures \cup Threads :
                              colour'[x] = "gray" => x \in gray \cup grayagain' \cup weak
                        /\ \A v \in Upvals : colour'[v] = "gray" => v \in DOMAIN open
                        /\ BlackOK(tmudata)'
      BY <1>1, <2>7 DEF Marking, Marks, White, AtomicStages
    <3>1. /\ \A x \in Roots : colour[x] \notin Whites
          /\ \A x \in gray \cup grayagain \cup weak : colour[x] = "gray"
          /\ \A x \in Tables \cup Closures \cup Threads : colour[x] = "gray" => x \in gray \cup grayagain \cup weak
          /\ \A v \in Upvals : colour[v] = "gray" => v \in DOMAIN open
          /\ \A x \in alloc \ tmudata : colour[x] = "black" => \A z \in refs[x] : colour[z] \notin Whites
      BY DEF IInv, Marking, Marks, White, Black, BlackOK
    <3>2. \A x \in Objects : refs[x] \subseteq alloc
      BY <1>1, HeapClosed DEF Sweeps
    <3>3. \A x \in Objects : colour'[x] \in Whites => colour[x] \in Whites
      BY <2>2 DEF Whites
    <3>4. gray \cup grayagain \cup weak \subseteq Objects
      BY <1>1 DEF Lists
    <3>5. \A x \in gray \cup grayagain' \cup weak : colour'[x] = "gray"
      BY <2>1, <2>2, <3>1, <3>4
    <3>6. \A x \in Tables \cup Closures \cup Threads : colour'[x] = "gray" => x \in gray \cup grayagain' \cup weak
      <4>1. Tables \cup Closures \cup Threads \subseteq Objects
        BY DEF Objects
      <4> QED BY <2>1, <2>2, <3>1, <4>1
    <3>7. \A v \in Upvals : colour'[v] = "gray" => v \in DOMAIN open
      <4>1. \A v \in Upvals : v \in Objects /\ v # o
        BY <1>2 DEF Objects
      <4> QED BY <2>2, <3>1, <4>1
    <3>8. \A x \in Roots : colour'[x] \notin Whites
      BY <1>1, <3>1, <3>3 DEF TypeOK
    <3>9. BlackOK(tmudata)'
      <4> SUFFICES ASSUME NEW x \in alloc \ tmudata, colour'[x] = "black", NEW z \in refs'[x]
                   PROVE  colour'[z] \notin Whites
        BY <1>1, <2>7 DEF BlackOK, Black, White
      <4>1. x # o /\ x \in Objects
        BY <1>1, <2>2
      <4>2. colour[x] = "black" /\ z \in refs[x] /\ z \in Objects
        BY <1>1, <2>2, <3>2, <4>1 DEF Stores
      <4> QED BY <3>1, <3>3, <4>2
    <3> QED BY <3>5, <3>6, <3>7, <3>8, <3>9
  <2> QED BY <2>5, <2>6, <2>9, <2>10 DEF IInv
<1> QED BY <1>3, <1>4

LEMMA StoreStep ==
    ASSUME IInv, NEW L \in RunningThreads, NEW x \in AtHand(L), NEW y \in Stack(L), Store(L, x, y)
    PROVE  IInv'
<1>1. /\ x \in alloc /\ x \in Objects /\ colour[x] # "dead"
      /\ y \in alloc /\ y \in Objects /\ y \in Values /\ colour[y] # "dead"
  BY AtHandAlive, StackAlive
<1>2. /\ ProgramRuns /\ x \in Tables \cup Closures \cup Userdata /\ (x \in Userdata => y \in Tables)
      /\ refs' = [refs EXCEPT ![x] = @ \cup {y}]
      /\ IF x \in Tables THEN BarrierBack(x, y) ELSE BarrierForward(x, y)
      /\ UNCHANGED <<alloc, open, udlist, collector>>
  BY DEF Store
<1>3. /\ refs' \in [Objects -> SUBSET Objects] /\ refs'[x] = refs[x] \cup {y}
      /\ \A o \in Objects : o # x => refs'[o] = refs[o]
  BY <1>1, <1>2 DEF IInv, TypeOK
<1>4. x \notin Threads \cup Strings
  BY <1>2, KindsAssumption
<1>5. Stores(x, y)
  BY <1>1, <1>2, <1>3, <1>4 DEF Stores
<1> QED BY <1>2, <1>5, BackStep, ForwardStep

LEMMA SetUpvalStep ==
    ASSUME IInv, NEW L \in RunningThreads, NEW f \in Stack(L) \cap Closures, NEW v \in UpvalsOf(f),
           NEW y \in Stack(L), SetUpval(v, y)
    PROVE  IInv'
<1>1. /\ f \in alloc /\ colour[f] # "dead"
      /\ y \in alloc /\ y \in Objects /\ y \in Values /\ colour[y] # "dead"
  BY StackAlive
<1>2. v \in Upvals /\ v \in alloc /\ colour[v] # "dead" /\ v \in Objects
  <2>1. v \in Upvals /\ v \in Keeps(f)
    BY KindsAssumption DEF UpvalsOf, Keeps
  <2> QED BY <1>1, <2>1 DEF IInv, Safe, Dead, Objects
<1>3. /\ ProgramRuns /\ refs' = [refs EXCEPT ![v] = {y}] /\ BarrierForward(v, y)
      /\ UNCHANGED <<alloc, open, udlist, collector>>
  BY DEF SetUpval
<1>4. /\ refs' \in [Objects -> SUBSET Objects] /\ refs'[v] = {y}
      /\ \A o \in Objects : o # v => refs'[o] = refs[o]
  BY <1>1, <1>2, <1>3 DEF IInv, TypeOK
<1>5. v \notin Threads \cup Strings \cup Userdata
  BY <1>2, KindsAssumption
<1>6. Stores(v, y)
  BY <1>1, <1>2, <1>3, <1>4, <1>5 DEF Stores
<1> QED BY <1>2, <1>3, <1>6, ForwardStep

-----------------------------------------------------------------------------
(* Upvalues are closed, and full collections. *)

(* Marking values marks no upvalue. *)
LEMMA MarkedValues ==
    ASSUME TypeOK, Shape, NEW X, X \subseteq Values
    PROVE  MarkedFrom(X, colour) \subseteq Values
<1> DEFINE given  == {y \in X : colour[y] \in Whites}
           valsof == UNION {refs[v] : v \in given \cap Upvals}
           values == given \cup {y \in valsof : colour[y] \in Whites}
           tabsof == UNION {refs[u] : u \in values \cap Userdata}
<1>1. MarkedFrom(X, colour) = values \cup {y \in tabsof : colour[y] \in Whites}
  BY DEF MarkedFrom
<1>2. valsof = {}
  BY DEF Values
<1>3. \A y \in tabsof : y \in Tables
  BY DEF Shape
<1>4. Tables \subseteq Values
  BY KindsAssumption DEF Values, Objects
<1> QED BY <1>1, <1>2, <1>3, <1>4

LEMMA CloseUpvalsStep ==
    ASSUME IInv, NEW L \in RunningThreads, NEW V \in SUBSET OpenIn(L), CloseUpvals(L, V)
    PROVE  /\ IInv'
           /\ \A u \in Userdata : u \in alloc \ alloc' => u \in Taken
<1> DEFINE freed  == {v \in V : Dead(v)}
           marked == {v \in V : colour[v] = "gray"}
           X      == UNION {refs[v] : v \in marked}
           M      == IF gcstate = "propagate" THEN MarkedFrom(X, colour) ELSE {}
           base   == Painted(M, colour)
           Q      == Queued(M)
<1>1. /\ ProgramRuns /\ UNCHANGED <<udlist, grayagain, finalized, Taken, tmudata, gcstate, weak, tosweep, full>>
      /\ alloc' = alloc \ freed
      /\ open' = [v \in DOMAIN open \ V |-> open[v]]
      /\ refs' = [x \in Objects |-> IF x \in freed THEN {} ELSE refs[x]]
      /\ colour' = [x \in Objects |->
                       IF x \in freed THEN "white"
                       ELSE IF x \in marked THEN (IF gcstate = "propagate" THEN "black" ELSE "white")
                       ELSE base[x]]
      /\ gray' = gray \cup Q
  BY DEF CloseUpvals, collector, Taken
<1>2. /\ TypeOK /\ Shape /\ Safe /\ Lists /\ Finalizers /\ SweepOK
      /\ Roots \subseteq alloc /\ alloc \subseteq Objects /\ gcstate \notin AtomicStages
  BY <1>1, ProgramStage DEF IInv, TypeOK
<1>3. /\ \A v \in V : v \in DOMAIN open /\ open[v] = L /\ v \in Upvals /\ v \in alloc /\ v \in Objects
      /\ \A v \in V : colour[v] # "black"
  BY <1>2, ColourFacts DEF OpenIn, TypeOK
<1>4. \A v \in V : v \notin Threads \cup Tables \cup Closures \cup Userdata \cup Strings \cup WeakTables \cup Roots
  BY <1>3, KindsAssumption, WeakAssumption, RootsAssumption DEF Roots
<1>5. /\ \A v : v \in freed <=> v \in V /\ colour[v] = "dead"
      /\ \A v : v \in marked <=> v \in V /\ colour[v] = "gray"
      /\ \A y : y \in X <=> \E v \in marked : y \in refs[v]
  BY DEF Dead
<1> HIDE DEF freed, marked, X
<1>6. \A y \in X : y \in alloc /\ y \in Values
  <2>1. \A v \in V : \A y \in refs[v] : y \in Stack(L)
    BY <1>3, StackFacts
  <2> QED BY <1>5, <2>1, StackAlive
<1>7. /\ DOMAIN open' = DOMAIN open \ V
      /\ \A v \in DOMAIN open' : v \in DOMAIN open /\ v \notin V /\ open'[v] = open[v]
  BY <1>1
<1>8. /\ refs' \in [Objects -> SUBSET Objects]
      /\ \A x \in Objects : refs'[x] \subseteq refs[x]
      /\ \A x \in freed : refs'[x] = {}
  <2>1. \A x \in Objects : refs[x] \in SUBSET Objects
    BY <1>2 DEF TypeOK
  <2>2. \A x \in Objects : refs'[x] = IF x \in freed THEN {} ELSE refs[x]
    BY <1>1
  <2> QED BY <1>1, <1>3, <1>5, <2>1, <2>2
<1>9. ASSUME NEW y, NEW z \in Keeps(y)', y \in alloc PROVE z \in Keeps(y)
  <2>1. CASE y \in Threads
    <3>1. z \in refs'[y] \/ \E v \in DOMAIN open' : open'[v] = y /\ z \in refs'[v]
      BY <1>9, <2>1, StackFacts DEF Keeps
    <3>2. \A v \in DOMAIN open' : v \in DOMAIN open /\ open'[v] = open[v] /\ refs'[v] \subseteq refs[v]
      BY <1>2, <1>7, <1>8 DEF TypeOK
    <3>3. z \in Stack(y)
      BY <1>2, <1>8, <1>9, <3>1, <3>2, StackFacts
    <3> QED BY <2>1, <3>3 DEF Keeps
  <2>2. CASE y \notin Threads
    BY <1>2, <1>8, <1>9, <2>2 DEF Keeps
  <2> QED BY <2>1, <2>2
<1>10. \A u \in Userdata : u \in alloc => u \in alloc'
  BY <1>1, <1>4, <1>5
<1>11. \A y \in Roots \cup tmudata \cup gray \cup grayagain \cup weak \cup tosweep : y \in alloc'
  <2>1. \A y \in Roots \cup tmudata \cup gray \cup grayagain \cup weak \cup tosweep : y \in alloc /\ y \notin V
    BY <1>2, <1>3, <1>4 DEF TypeOK, Lists, SweepOK
  <2> QED BY <1>1, <1>5, <2>1
<1>12. SweepOK'
  <2>1. \A v \in DOMAIN open : open[v] \in alloc /\ open[v] \notin V
    BY <1>2, <1>4 DEF SweepOK, TypeOK
  <2>2. \A v \in DOMAIN open' : open'[v] \in alloc'
    BY <1>1, <1>5, <1>7, <2>1
  <2>3. tosweep' \subseteq alloc' \ (DOMAIN open' \cup tmudata')
    BY <1>1, <1>2, <1>7, <1>11 DEF SweepOK
  <2> QED BY <1>1, <1>2, <2>2, <2>3 DEF SweepOK
<1>13. ASSUME colour' \in [Objects -> Colours], Q \subseteq Objects PROVE TypeOK'
  <2>1. Roots \subseteq alloc' /\ alloc' \subseteq Objects
    BY <1>1, <1>2, <1>11
  <2>2. DOMAIN open' \subseteq Upvals \cap alloc' /\ \A v \in DOMAIN open' : open'[v] \in Threads
    BY <1>1, <1>2, <1>5, <1>7 DEF TypeOK
  <2>3. udlist' \cap tmudata' = {} /\ udlist' \cup tmudata' = Userdata \cap alloc'
    BY <1>1, <1>2, <1>10 DEF TypeOK
  <2> QED BY <1>1, <1>2, <1>8, <1>13, <2>1, <2>2, <2>3 DEF TypeOK, Colours
<1>14. ASSUME \A x \in Objects \ alloc' : colour'[x] = "white", \A x \in Userdata : colour'[x] # "gray",
              \A x \in WeakTables \cup Threads \cup DOMAIN open' : colour'[x] # "black"
       PROVE  Shape'
  <2>1. \A x \in Objects \ alloc' : refs'[x] = {}
    BY <1>1, <1>2, <1>8 DEF Shape
  <2>2. Strings \cup Userdata \subseteq Objects
    BY DEF Objects
  <2> QED BY <1>2, <1>8, <1>14, <2>1, <2>2 DEF Shape, Black
<1>15. ASSUME \A x \in Objects : colour'[x] = "dead" => colour[x] = "dead",
              \A x \in alloc' : colour'[x] # "dead" => colour[x] # "dead"
       PROVE  Finalizers' /\ Safe'
  <2>1. Finalizers'
    BY <1>1, <1>2, <1>15 DEF Finalizers, Dead, AtomicStages
  <2>2. \A x \in Roots \cup tmudata' : ~Dead(x)'
    <3>1. \A x \in Roots \cup tmudata : x \in Objects /\ colour[x] # "dead"
      BY <1>2 DEF Safe, TypeOK, Dead
    <3> QED BY <1>1, <1>15, <3>1 DEF Dead
  <2>3. ASSUME NEW y \in alloc', colour'[y] # "dead", NEW z \in Keeps(y)'
        PROVE  z \in alloc' /\ colour'[z] # "dead"
    <3>1. y \in alloc /\ colour[y] # "dead"
      BY <1>1, <1>15, <2>3
    <3>2. z \in alloc /\ colour[z] # "dead"
      BY <1>2, <1>9, <3>1 DEF Safe, Dead
    <3> QED BY <1>1, <1>2, <1>5, <1>15, <3>2
  <2>4. gcstate' \notin Sweeps => \A x \in alloc' : ~Dead(x)'
    BY <1>1, <1>2, <1>15 DEF Safe, Dead
  <2>5. Safe'
    BY <2>2, <2>3, <2>4 DEF Safe, Dead
  <2> QED BY <2>1, <2>5
<1>16. CASE gcstate # "propagate"
  <2>1. M = {} /\ Q = {}
    BY <1>16 DEF Queued
  <2>2. base = colour
    BY <1>16, <2>1, ColourFacts DEF Painted
  <2> HIDE DEF M, base, Q
  <2>3. \A x \in Objects : colour'[x] = IF x \in freed \cup marked THEN "white" ELSE colour[x]
    BY <1>1, <1>16, <2>2
  <2>4. colour' \in [Objects -> Colours]
    <3>1. \A x \in Objects : colour'[x] \in Colours
      BY <2>3, ColourFacts DEF Colours, Whites
    <3> QED BY <1>1, <3>1
  <2>5. /\ \A x \in Objects : colour'[x] = "dead" => colour[x] = "dead"
        /\ \A x \in alloc' : colour'[x] # "dead" => colour[x] # "dead"
    BY <1>1, <1>2, <1>5, <2>3
  <2>6. Shape'
    <3>1. \A x \in Objects \ alloc' : colour'[x] = "white"
      BY <1>1, <2>3, ColourFacts
    <3>2. \A x \in Userdata : colour'[x] # "gray"
      BY <2>3, ColourFacts DEF Objects
    <3>3. \A x \in WeakTables \cup Threads \cup DOMAIN open' : x \in Objects
      BY <1>2, <1>7, WeakAssumption DEF Objects, TypeOK
    <3>4. \A x \in WeakTables \cup Threads \cup DOMAIN open' : colour'[x] # "black"
      BY <1>7, <2>3, <3>3, ColourFacts
    <3> QED BY <1>14, <3>1, <3>2, <3>4
  <2>7. Lists'
    <3>1. \A x \in gray \cup grayagain \cup weak : x \in Objects /\ colour[x] # "dead"
      BY <1>2 DEF Lists, Dead
    <3> QED BY <1>1, <1>2, <1>11, <2>1, <2>5, <3>1 DEF Lists, Dead
  <2>8. Marking'
    BY <1>1, <1>2, <1>16 DEF Marking, Marks, AtomicStages
  <2>9. Sweeping'
    <3> SUFFICES ASSUME gcstate \notin Marks, NEW y \in alloc'
                 PROVE  /\ gray' = {}
                        /\ \/ colour'[y] = "white"
                           \/ y \in tosweep \cup tmudata
                           \/ y \in DOMAIN open' /\ open'[y] \in tosweep
      <4>1. gcstate \notin Marks => gray' = {}
        BY <1>1, <2>1 DEF IInv, Sweeping
      <4> QED BY <1>1, <4>1 DEF Sweeping
    <3>1. y \in alloc /\ y \in Objects /\ y \notin freed
      BY <1>1, <1>2
    <3>2. /\ gray = {}
          /\ \/ colour[y] = "white"
             \/ y \in tosweep \cup tmudata
             \/ y \in DOMAIN open /\ open[y] \in tosweep
      BY <3>1 DEF IInv, Sweeping
    <3>3. CASE y \in V
      <4>1. colour[y] \in {"white", "gray"}
        BY <1>3, <1>5, <3>1, <3>3, ColourFacts DEF Colours, Whites
      <4> QED BY <1>1, <1>5, <2>1, <2>3, <3>1, <3>2, <3>3, <4>1
    <3>4. CASE y \notin V
      <4>1. y \in DOMAIN open => y \in DOMAIN open' /\ open'[y] = open[y]
        BY <1>7, <3>4
      <4> QED BY <1>1, <1>5, <2>1, <2>3, <3>1, <3>2, <3>4, <4>1
    <3> QED BY <3>3, <3>4
  <2>10. TypeOK'
    BY <1>13, <2>1, <2>4
  <2> QED BY <1>10, <1>12, <1>15, <2>5, <2>6, <2>7, <2>8, <2>9, <2>10 DEF IInv
<1>17. CASE gcstate = "propagate"
  <2>1. M = MarkedFrom(X, colour)
    BY <1>17
  <2>2. gcstate \notin Sweeps /\ gcstate \in Marks
    BY <1>17 DEF Sweeps, Marks
  <2>3. \A x \in Objects : refs[x] \subseteq alloc /\ (x \in alloc => colour[x] # "dead")
    BY <1>2, <2>2, HeapClosed
  <2>4. X \subseteq alloc /\ X \subseteq Values
    BY <1>6
  <2>5. MarkedAs(X, colour, base, Q)
    BY <1>2, <2>1, <2>3, <2>4, ColourFacts, MarkedAsFacts
  <2>6. \A v \in Upvals : base[v] = colour[v]
    <3>1. M \subseteq Values
      BY <1>2, <2>1, <2>4, MarkedValues
    <3>2. \A v \in Upvals : v \in Objects /\ v \notin M
      BY <3>1 DEF Values, Objects
    <3> QED BY <3>2 DEF Painted
  <2> HIDE DEF M, base, Q
  <2>7. freed = {} /\ alloc' = alloc
    BY <1>1, <1>3, <1>5, <2>3
  <2>8. \A x \in Objects : colour'[x] = IF x \in marked THEN "black" ELSE base[x]
    BY <1>1, <1>17, <2>7
  <2>9. base \in [Objects -> Colours]
    BY <2>5 DEF MarkedAs
  <2>10. colour' \in [Objects -> Colours]
    <3>1. \A x \in Objects : colour'[x] \in Colours
      BY <2>8, <2>9 DEF Colours
    <3> QED BY <1>1, <3>1
  <2>11. \A x \in Objects : colour'[x] \in Whites <=> x \notin marked /\ base[x] \in Whites
    BY <2>8 DEF Whites
  <2>12. \A x \in Objects : colour[x] \notin Whites => colour'[x] \notin Whites
    BY <2>5, <2>11 DEF MarkedAs
  <2>13. \A x \in alloc : colour'[x] # "dead" /\ x \in Objects
    <3>1. \A x \in Objects : base[x] = "dead" => colour[x] = "dead"
      BY <2>5 DEF MarkedAs
    <3> QED BY <1>2, <2>3, <2>8, <3>1
  <2>14. \A x \in Objects \ alloc : colour'[x] = "white"
    <3>1. \A x \in Objects \ alloc : base[x] = colour[x] /\ x \notin marked
      BY <1>3, <1>5, <2>5 DEF MarkedAs
    <3> QED BY <2>8, <3>1, ColourFacts
  <2>15. Finalizers' /\ Safe'
    BY <1>15, <2>3, <2>7, <2>13, <2>14
  <2>16. Shape'
    <3>1. \A x \in Userdata : x \in Objects /\ x \notin marked /\ base[x] # "gray"
      <4>1. Userdata \subseteq Objects
        BY DEF Objects
      <4> QED BY <1>4, <1>5, <2>5, <4>1, ColourFacts DEF MarkedAs, Whites
    <3>2. \A x \in WeakTables \cup Threads : x \in Objects /\ x \notin marked /\ base[x] # "black"
      <4>1. \A x \in WeakTables \cup Threads : x \in Objects /\ x \notin Userdata \cup Upvals
        BY WeakAssumption, KindsAssumption DEF Objects
      <4> QED BY <1>4, <1>5, <2>5, <4>1, ColourFacts DEF MarkedAs, Whites
    <3>3. \A v \in DOMAIN open' : v \in Objects /\ v \notin marked /\ base[v] # "black"
      <4>1. \A v \in DOMAIN open' : v \in DOMAIN open /\ v \in Upvals /\ v \in Objects /\ v \notin V
        BY <1>2, <1>7 DEF TypeOK
      <4> QED BY <1>5, <2>6, <4>1, ColourFacts
    <3>4. /\ \A x \in Userdata : colour'[x] # "gray"
          /\ \A x \in WeakTables \cup Threads \cup DOMAIN open' : colour'[x] # "black"
      BY <2>8, <3>1, <3>2, <3>3
    <3> QED BY <1>14, <2>7, <2>14, <3>4
  <2>17. /\ \A x \in Roots : colour[x] \notin Whites
         /\ \A x \in gray \cup grayagain \cup weak : colour[x] = "gray"
         /\ \A x \in Tables \cup Closures \cup Threads : colour[x] = "gray" => x \in gray \cup grayagain \cup weak
         /\ \A v \in Upvals : colour[v] = "gray" => v \in DOMAIN open
         /\ \A x \in alloc \ tmudata : colour[x] = "black" => \A z \in refs[x] : colour[z] \notin Whites
    BY <2>2 DEF IInv, Marking, White, Black, BlackOK
  <2>18. /\ Q \subseteq (Tables \cup Closures \cup Threads) \cap alloc
         /\ \A x \in Q : colour[x] \in Whites /\ base[x] = "gray" /\ x \in Objects /\ x \notin V
    <3>1. Q \subseteq (Tables \cup Closures \cup Threads) \cap alloc
      BY <2>5 DEF MarkedAs
    <3>2. \A x \in Q : colour[x] \in Whites /\ base[x] = "gray"
      BY <2>5, <3>1 DEF MarkedAs
    <3> QED BY <1>2, <1>4, <3>1, <3>2
  <2>19. \A x \in gray \cup grayagain \cup weak : base[x] = "gray" /\ x \in Objects /\ x \notin V /\ x \notin Q
    <3>1. \A x \in gray \cup grayagain \cup weak : x \in Objects /\ x \in Tables \cup Closures \cup Threads
      BY <1>2, WeakAssumption DEF Lists
    <3>2. \A x \in gray \cup grayagain \cup weak : base[x] = "gray"
      BY <2>5, <2>17, <3>1 DEF MarkedAs, Whites
    <3> QED BY <1>4, <2>17, <2>18, <3>1, <3>2 DEF Whites
  <2>20. \A x \in gray' \cup grayagain' \cup weak' : colour'[x] = "gray" /\ x \in alloc'
    BY <1>1, <1>5, <1>11, <2>7, <2>8, <2>18, <2>19
  <2>21. Lists'
    BY <1>1, <1>2, <2>18, <2>19, <2>20 DEF Lists, Dead
  <2>22. TypeOK'
    BY <1>2, <1>13, <2>10, <2>18
  <2>23. Marking'
    <3>1. \A x \in Roots : colour'[x] \notin Whites
      BY <1>2, <2>12, <2>17
    <3>2. \A x \in Tables \cup Closures \cup Threads : colour'[x] = "gray" => x \in gray' \cup grayagain' \cup weak'
      <4>1. \A x \in Tables \cup Closures \cup Threads : x \in Objects
        BY DEF Objects
      <4>2. \A x \in Tables \cup Closures \cup Threads : colour'[x] = "gray" => base[x] = "gray"
        BY <2>8, <4>1
      <4>3. \A x \in Tables \cup Closures \cup Threads : base[x] = "gray" => colour[x] = "gray" \/ x \in Q
        BY <2>5, <4>1 DEF MarkedAs
      <4> QED BY <1>1, <2>17, <4>2, <4>3
    <3>3. \A v \in Upvals : colour'[v] = "gray" => v \in DOMAIN open'
      <4>1. \A v \in Upvals : v \in Objects
        BY DEF Objects
      <4>2. \A v \in Upvals : colour'[v] = "gray" => colour[v] = "gray" /\ v \notin marked
        BY <2>6, <2>8, <4>1
      <4> QED BY <1>5, <1>7, <2>17, <4>2
    <3>4. ASSUME NEW x \in alloc \ tmudata, colour'[x] = "black", NEW z \in refs[x]
          PROVE  colour'[z] \notin Whites
      <4>1. x \in Objects /\ z \in Objects
        BY <1>2, <2>3
      <4>2. CASE x \in marked
        <5>1. z \in X
          BY <1>5, <4>2
        <5> QED BY <2>5, <2>11, <4>1, <5>1 DEF MarkedAs
      <4>3. CASE x \notin marked /\ colour[x] \in Whites
        BY <2>5, <2>8, <2>11, <3>4, <4>1, <4>3 DEF MarkedAs
      <4>4. CASE x \notin marked /\ colour[x] \notin Whites
        <5>1. colour[x] = "black"
          BY <2>5, <2>8, <3>4, <4>1, <4>4 DEF MarkedAs
        <5> QED BY <2>12, <2>17, <4>1, <5>1
      <4> QED BY <4>2, <4>3, <4>4
    <3>5. BlackOK(tmudata)'
      <4>1. \A x \in alloc : refs'[x] \subseteq refs[x]
        BY <1>2, <1>8
      <4> QED BY <1>1, <2>7, <3>4, <4>1 DEF BlackOK, Black, White
    <3> QED BY <1>1, <1>2, <1>17, <2>20, <3>1, <3>2, <3>3, <3>5 DEF Marking, AtomicStages, White
  <2>24. Sweeping'
    BY <1>1, <2>2 DEF Sweeping
  <2> QED BY <1>10, <1>12, <2>15, <2>16, <2>21, <2>22, <2>23, <2>24 DEF IInv
<1> QED BY <1>16, <1>17

(* A full collection begins, and gives up the mark phase under way. *)
LEMMA FullGCStep == ASSUME IInv, FullGC PROVE IInv'
<1>1. /\ UNCHANGED <<alloc, refs, open, colour, finalized, Taken, udlist, tmudata>>
      /\ full' = "sweep" /\ gcstate \notin AtomicStages
  BY ProgramStage DEF FullGC, heap, udata, Taken
<1>2. TypeOK /\ Shape /\ Safe /\ Lists /\ Finalizers /\ SweepOK
  BY DEF IInv
<1>3. \A x : Keeps(x)' = Keeps(x)
  BY <1>1 DEF Keeps, Stack
<1>4. CASE gcstate \in {"pause", "propagate"}
  <2>1. /\ gcstate' = "sweepstring" /\ gray' = {} /\ grayagain' = {} /\ weak' = {}
        /\ tosweep' = alloc \ (DOMAIN open \cup tmudata)
    BY <1>4 DEF FullGC
  <2>2. TypeOK'
    BY <1>1, <1>2, <2>1 DEF TypeOK
  <2>3. SweepOK'
    BY <1>1, <1>2, <2>1 DEF SweepOK, Sweeps
  <2>4. Shape' /\ Lists'
    BY <1>1, <1>2, <2>1 DEF Shape, Lists, Black
  <2>5. Finalizers'
    BY <1>1, <1>2, <2>1 DEF Finalizers, Dead
  <2>6. Safe'
    BY <1>1, <1>2, <1>3, <2>1 DEF Safe, Dead, Sweeps
  <2>7. Marking'
    BY <2>1 DEF Marking, Marks, AtomicStages
  <2>8. Sweeping'
    <3>1. \A v \in DOMAIN open : open[v] \in alloc /\ open[v] \notin DOMAIN open \cup tmudata
      <4>1. \A v \in DOMAIN open : open[v] \in alloc /\ open[v] \in Threads
        BY <1>2 DEF SweepOK, TypeOK
      <4>2. DOMAIN open \cup tmudata \subseteq Upvals \cup Userdata
        BY <1>2 DEF TypeOK
      <4> QED BY <4>1, <4>2, KindsAssumption
    <3> QED BY <1>1, <2>1, <3>1 DEF Sweeping
  <2> QED BY <2>2, <2>3, <2>4, <2>5, <2>6, <2>7, <2>8 DEF IInv
<1>5. CASE gcstate \notin {"pause", "propagate"}
  <2>1. UNCHANGED <<gcstate, tosweep, gray, grayagain, weak>>
    BY <1>5 DEF FullGC, lists
  <2>2. TypeOK'
    BY <1>1, <1>2, <2>1 DEF TypeOK
  <2>3. SweepOK' /\ Shape' /\ Lists'
    BY <1>1, <1>2, <2>1 DEF SweepOK, Shape, Lists, Black, Dead
  <2>4. Finalizers'
    BY <1>1, <1>2, <2>1 DEF Finalizers, Dead, White
  <2>5. Safe'
    BY <1>1, <1>2, <1>3, <2>1 DEF Safe, Dead
  <2>6. Marking' /\ Sweeping'
    BY <1>1, <1>5, <2>1 DEF IInv, Marking, Sweeping, Marks, AtomicStages
  <2> QED BY <2>2, <2>3, <2>4, <2>5, <2>6 DEF IInv
<1> QED BY <1>4, <1>5

-----------------------------------------------------------------------------
LEMMA StutterStep == ASSUME IInv, UNCHANGED vars PROVE IInv'
<1>1. UNCHANGED <<alloc, refs, open, colour, finalized, Taken, udlist, tmudata, gcstate,
                  gray, grayagain, weak, tosweep, full>>
  BY DEF vars, heap, udata, lists, Taken
<1>2. TypeOK' /\ SweepOK' /\ Shape' /\ Lists'
  BY <1>1 DEF IInv, TypeOK, SweepOK, Shape, Lists, Black, Dead
<1>3. Finalizers'
  BY <1>1 DEF IInv, Finalizers, White, Dead
<1>4. Safe'
  <2>1. \A x : Keeps(x)' = Keeps(x)
    BY <1>1 DEF Keeps, Stack
  <2> QED BY <1>1, <2>1 DEF IInv, Safe, Dead
<1>5. Marking'
  <2>1. \A x : Stack(x)' = Stack(x)
    BY <1>1 DEF Stack
  <2> QED BY <1>1, <2>1 DEF IInv, Marking, White, Black, BlackOK
<1>6. Sweeping'
  BY <1>1 DEF IInv, Sweeping
<1> QED BY <1>2, <1>3, <1>4, <1>5, <1>6 DEF IInv

LEMMA ProgramStep ==
    ASSUME IInv, Program
    PROVE  IInv' /\ \A u \in Userdata : u \in alloc \ alloc' => u \in Taken
<1>1. CASE FullGC
  BY <1>1, FullGCStep DEF FullGC, heap
<1>2. ASSUME NEW L \in RunningThreads, NEW x \in Values \ (alloc \cup Strings), NewObject(L, x)
      PROVE  IInv' /\ alloc \subseteq alloc'
  BY <1>2, NewObjectStep DEF NewObject
<1>3. ASSUME NEW L \in RunningThreads, NEW s \in Strings, NewString(L, s)
      PROVE  IInv' /\ alloc \subseteq alloc'
  BY <1>3, NewStringStep DEF NewString
<1>4. ASSUME NEW L \in RunningThreads, NEW f \in Closures \ alloc, NEW g \in Stack(L) \cap Closures,
             NEW v \in UpvalsOf(g), NewClosureSharing(L, f, v)
      PROVE  IInv' /\ alloc \subseteq alloc'
  BY <1>4, NewClosureSharingStep DEF NewClosureSharing
<1>5. ASSUME NEW L \in RunningThreads, NEW f \in Closures \ alloc, NEW v \in OpenIn(L) \cup (Upvals \ alloc),
             NEW X \in Locals(L), NewClosureOver(L, f, v, X)
      PROVE  IInv' /\ alloc \subseteq alloc'
  BY <1>5, NewClosureOverStep DEF NewClosureOver
<1>6. ASSUME NEW L \in RunningThreads, NEW f \in Stack(L) \cap Closures, NEW v \in UpvalsOf(f),
             NEW y \in Stack(L), SetUpval(v, y)
      PROVE  IInv' /\ alloc \subseteq alloc'
  BY <1>6, SetUpvalStep DEF SetUpval
<1>7. ASSUME NEW L \in RunningThreads, NEW v \in OpenIn(L), NEW X \in Locals(L), SetLocal(v, X)
      PROVE  IInv' /\ alloc \subseteq alloc'
  BY <1>7, SetLocalStep DEF SetLocal
<1>8. ASSUME NEW L \in RunningThreads, NEW x \in AtHand(L), NEW y \in Stack(L), Store(L, x, y)
      PROVE  IInv' /\ alloc \subseteq alloc'
  BY <1>8, StoreStep DEF Store
<1>9. ASSUME NEW L \in RunningThreads, NEW x \in AtHand(L), NEW y \in refs[x], Clear(L, x, y)
      PROVE  IInv' /\ alloc \subseteq alloc'
  BY <1>9, ClearStep DEF Clear
<1>10. ASSUME NEW L \in RunningThreads, NEW x \in AtHand(L), NEW y \in Readable(x), Load(L, x, y)
       PROVE  IInv' /\ alloc \subseteq alloc'
  BY <1>10, LoadStep DEF Load
<1>11. ASSUME NEW L \in RunningThreads, NEW c \in Stack(L) \cap Threads, NEW y \in Stack(L), XMove(L, c, y)
       PROVE  IInv' /\ alloc \subseteq alloc'
  BY <1>11, XMoveStep DEF XMove
<1>12. ASSUME NEW L \in RunningThreads, NEW y \in refs[L], Pop(L, y)
       PROVE  IInv' /\ alloc \subseteq alloc'
  BY <1>12, PopStep DEF Pop
<1>13. ASSUME NEW L \in RunningThreads, NEW V \in SUBSET OpenIn(L), CloseUpvals(L, V)
       PROVE  IInv' /\ \A u \in Userdata : u \in alloc \ alloc' => u \in Taken
  BY <1>13, CloseUpvalsStep
<1> QED BY <1>1, <1>2, <1>3, <1>4, <1>5, <1>6, <1>7, <1>8, <1>9, <1>10, <1>11, <1>12, <1>13 DEF Program

LEMMA CollectorStep ==
    ASSUME IInv, Collector
    PROVE  IInv' /\ \A u \in Userdata : u \in alloc \ alloc' => u \in Taken
<1>1. CASE Start \/ FullRestart
  BY <1>1, StartStep, FullRestartStep DEF Start, FullRestart, heap
<1>2. CASE Propagate
  BY <1>2, PropagateStep DEF Propagate, heap
<1>3. CASE RemarkUpvals \/ RemarkWeak \/ RemarkGrayAgain
  BY <1>3, RemarkUpvalsStep, RemarkWeakStep, RemarkGrayAgainStep
     DEF RemarkUpvals, RemarkWeak, RemarkGrayAgain, heap
<1>4. CASE SeparateUdata
  BY <1>4, SeparateUdataStep DEF SeparateUdata, heap
<1>5. CASE FinishAtomic
  BY <1>5, FinishAtomicStep DEF FinishAtomic
<1>6. CASE SweepString \/ Sweep
  BY <1>6, SweepStringStep, SweepStep
<1>7. CASE CallGCTM \/ CallGCTMFails
  BY <1>7, CallGCTMStep DEF CallGCTM, CallGCTMFails, TakeDue
<1>8. CASE EndCycle
  BY <1>8, EndCycleStep DEF EndCycle, heap
<1> QED BY <1>1, <1>2, <1>3, <1>4, <1>5, <1>6, <1>7, <1>8 DEF Collector

LEMMA NextStep ==
    ASSUME IInv, [Next]_vars
    PROVE  IInv' /\ \A u \in Userdata : u \in alloc \ alloc' => u \in Taken
BY CollectorStep, ProgramStep, StutterStep DEF Next, vars, heap

(* The inductive invariant holds in every state. *)
THEOREM Inductive == Spec => []IInv
<1>1. IInv /\ [Next]_vars => IInv'
  BY NextStep
<1> QED BY InitInv, <1>1, PTL DEF Spec

(* NoDangling: in every state the lists of the collector are sound, and    *)
(* nothing that is not known dead points to freed memory, weak tables and  *)
(* userdata that wait for their __gc included.                             *)
THEOREM MemoryIsSafe == Spec => []NoDangling
<1>1. ASSUME IInv PROVE NoDangling
  <2>1. TypeOK /\ Lists /\ Safe
    BY <1>1 DEF IInv
  <2>2. \A x \in gray : colour[x] = "gray"
    BY <1>1 DEF IInv, Marking, Sweeping
  <2>3. grayagain \cap weak = {}
    BY <2>1, WeakAssumption, KindsAssumption DEF Lists
  <2>4. \A x : \A y \in refs[x] : y \in Keeps(x)
    BY StackFacts DEF Keeps
  <2>5. \A x \in alloc : ~Dead(x) => refs[x] \subseteq alloc
    BY <2>1, <2>4 DEF Safe
  <2> QED BY <2>1, <2>2, <2>3, <2>5 DEF NoDangling, ListsAreSound, Lists
<1> QED BY <1>1, Inductive, PTL

(* TriColour: while the collector marks, what it has done with points to   *)
(* nothing white, whatever the program stores between two of its steps.    *)
THEOREM BlackHidesNoWhite == Spec => []TriColour
<1>1. ASSUME IInv PROVE TriColour
  <2> SUFFICES ASSUME gcstate \in {"propagate", "remark", "reweak", "regray"},
                      NEW x \in alloc, Black(x), x \notin tmudata, NEW y \in Children(x)
               PROVE  ~White(y)
    BY DEF TriColour
  <2>1. x \notin WeakTables \cup Threads
    BY <1>1 DEF IInv, Shape
  <2>2. Children(x) = refs[x]
    BY <2>1 DEF Children
  <2>3. gcstate \in Marks
    BY DEF Marks, AtomicStages
  <2> QED BY <1>1, <2>2, <2>3 DEF IInv, Marking, BlackOK
<1> QED BY <1>1, Inductive, PTL

(* FinalizedBeforeFreed: no step frees a userdata that GCTM has not taken  *)
(* for its __gc, and none that it took, to call it or to fail to, waits    *)
(* for it again.                                                           *)
THEOREM NoFinalizerIsLost == Spec => FinalizedBeforeFreed
<1>1. ASSUME IInv, [Next]_vars
      PROVE  [/\ \A u \in Userdata : u \in alloc \ alloc' => u \in Taken
              /\ Taken \cap tmudata = {}]_vars
  <2>1. \A u \in Userdata : u \in alloc \ alloc' => u \in Taken
    BY <1>1, NextStep
  <2>2. Taken \cap tmudata = {}
    BY <1>1 DEF IInv, Finalizers
  <2> QED BY <2>1, <2>2
<1> QED BY <1>1, Inductive, PTL DEF Spec, FinalizedBeforeFreed

(* Reachable is the least set that holds the roots and what its members   *)
(* hold.  The function that computes it adds to a set until that is       *)
(* closed; it exists, and never leaves a closed set.                      *)
LEMMA ReachableIsLeast ==
    ASSUME NEW C, C \subseteq Objects, Roots \cup tmudata \subseteq C,
           \A x \in Objects : Holds(x) \subseteq Objects,
           \A x \in C : Holds(x) \subseteq C
    PROVE  Reachable \subseteq C
<1> DEFINE Next1(R) == R \cup UNION {Holds(x) : x \in R}
           Step(g)  == [R \in SUBSET Objects |-> IF Next1(R) = R THEN R ELSE g[Next1(R)]]
           reach    == CHOOSE g : g = Step(g)
           Closed(D) == \A x \in D : Holds(x) \subseteq D
           least(R) == {y \in Objects : \A D \in SUBSET Objects : R \subseteq D /\ Closed(D) => y \in D}
           hull     == [R \in SUBSET Objects |-> least(R)]
<1>1. Reachable = reach[Roots \cup tmudata]
  BY Zenon DEF Reachable
<1>2. \A R \in SUBSET Objects : Next1(R) \in SUBSET Objects
  OBVIOUS
<1>3. \A R : \A D : R \subseteq D /\ Closed(D) => Next1(R) \subseteq D
  OBVIOUS
<1>4. \A R : R \subseteq Next1(R) /\ (Next1(R) = R => Closed(R))
  OBVIOUS
<1> HIDE DEF Next1, Closed
<1>5. hull = Step(hull)
  <2>1. ASSUME NEW R \in SUBSET Objects
        PROVE  least(R) = IF Next1(R) = R THEN R ELSE hull[Next1(R)]
    <3>1. CASE Next1(R) = R
      BY <1>4, <3>1
    <3>2. CASE Next1(R) # R
      <4>1. hull[Next1(R)] = least(Next1(R))
        BY <1>2
      <4>2. \A D \in SUBSET Objects : R \subseteq D /\ Closed(D) <=> Next1(R) \subseteq D /\ Closed(D)
        BY <1>3, <1>4
      <4> QED BY <3>2, <4>1, <4>2
    <3> QED BY <3>1, <3>2
  <2> QED BY <2>1
<1> HIDE DEF hull, least
<1>6. reach = Step(reach)
  BY <1>5
<1> HIDE DEF reach
<1>7. \A R \in SUBSET Objects : reach[R] = IF Next1(R) = R THEN R ELSE reach[Next1(R)]
  BY <1>6
<1>8. ASSUME NEW R0 \in SUBSET C, ~(reach[R0] \subseteq C)
      PROVE  FALSE
  <2> DEFINE bad == {Q \in SUBSET Objects : Objects \ Q \subseteq C /\ ~(reach[Objects \ Q] \subseteq C)}
  <2>1. Objects \ (Objects \ R0) = R0 /\ Objects \ R0 \in SUBSET Objects
    OBVIOUS
  <2>2. bad # {}
    <3>1. Objects \ R0 \in bad
      BY <1>8, <2>1
    <3> QED BY <3>1
  <2>3. bad \subseteq FiniteSubsetsOf(Objects)
    BY MemoryAssumption, FS_FiniteSubsetsOfFinite
  <2>4. \E Q \in bad : \A P \in bad : ~(<<P, Q>> \in StrictSubsetOrdering(Objects))
    <3> HIDE DEF bad
    <3> QED BY <2>2, <2>3, FS_StrictSubsetOrderingWellFounded, WFMin
  <2>5. PICK Q \in bad : \A P \in bad : ~(<<P, Q>> \in StrictSubsetOrdering(Objects))
    BY <2>4
  <2> DEFINE R == Objects \ Q
             S == Next1(R)
             P == Objects \ S
  <2>6. R \in SUBSET Objects /\ R \subseteq C /\ ~(reach[R] \subseteq C) /\ Q \in SUBSET Objects
    OBVIOUS
  <2>7. S # R /\ reach[S] = reach[R]
    BY <1>7, <2>6
  <2>8. S \in SUBSET Objects /\ R \subseteq S
    BY <1>2, <1>4, <2>6
  <2>9. S \subseteq C
    <3>1. Closed(C)
      BY DEF Closed
    <3> QED BY <1>3, <2>6, <3>1
  <2>10. Objects \ P = S
    BY <2>8
  <2>11. P \in bad
    BY <2>6, <2>7, <2>9, <2>10
  <2>12. P \subseteq Q /\ P # Q
    BY <2>6, <2>7, <2>8
  <2>13. <<P, Q>> \in StrictSubsetOrdering(Objects)
    BY <2>6, <2>12 DEF StrictSubsetOrdering
  <2> QED BY <2>5, <2>11, <2>13
<1> QED BY <1>1, <1>8

(* OnlyGarbageIsDead: neither the program nor a finalizer that waits can   *)
(* reach what a sweep is to free, and outside a sweep nothing is dead.     *)
THEOREM OnlyGarbageIsFreed == Spec => []OnlyGarbageIsDead
<1>1. ASSUME IInv PROVE OnlyGarbageIsDead
  <2> DEFINE C == {x \in alloc : ~Dead(x)}
  <2>1. TypeOK /\ Shape /\ Safe /\ alloc \subseteq Objects
    BY <1>1 DEF IInv, TypeOK
  <2>2. \A x : \A y \in Holds(x) : y \in Keeps(x)
    <3>1. \A x : \A y \in refs[x] : y \in Keeps(x)
      BY StackFacts DEF Keeps
    <3>2. \A x : \A y \in Children(x) : y \in Keeps(x)
      <4> SUFFICES ASSUME NEW x, NEW y \in Children(x) PROVE y \in Keeps(x)
        OBVIOUS
      <4>1. x \in Threads => x \notin WeakTables
        BY WeakAssumption, KindsAssumption
      <4>2. CASE x \in WeakTables
        BY <4>1, <4>2 DEF Children
      <4>3. CASE x \in Threads
        BY <4>1, <4>3 DEF Children, Keeps
      <4>4. CASE x \notin WeakTables \cup Threads
        BY <4>4, <3>1 DEF Children
      <4> QED BY <4>2, <4>3, <4>4
    <3> QED BY <3>1, <3>2 DEF Holds
  <2>3. \A x \in Objects : Holds(x) \subseteq Objects
    <3>1. \A x \in Objects : \A y \in Keeps(x) : y \in Objects
      <4>1. \A x \in Objects : \A y \in refs[x] : y \in Objects
        BY <2>1 DEF TypeOK
      <4>2. \A v \in DOMAIN open : v \in Objects
        BY <2>1 DEF TypeOK
      <4> QED BY <4>1, <4>2, StackFacts DEF Keeps
    <3> QED BY <2>2, <3>1
  <2>4. \A x \in C : Holds(x) \subseteq C
    BY <2>1, <2>2 DEF Safe
  <2>5. Roots \cup tmudata \subseteq C
    BY <2>1 DEF TypeOK, Safe
  <2>6. Reachable \subseteq C
    <3> HIDE DEF C
    <3>1. C \subseteq Objects
      BY <2>1 DEF C
    <3> QED BY <2>3, <2>4, <2>5, <3>1, ReachableIsLeast
  <2> QED BY <2>1, <2>6 DEF OnlyGarbageIsDead, Safe, Sweeps
<1> QED BY <1>1, Inductive, PTL
=============================================================================
