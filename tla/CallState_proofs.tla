------------------------- MODULE CallState_proofs -------------------------
(***************************************************************************)
(* Proofs about CallState, for any number of threads, any depth of calls,  *)
(* and any order of calls, errors, yields and hooks.                       *)
(*                                                                         *)
(* First, the handlers of each lua_State agree with the frames on the host *)
(* stack, so that an error arrives where it was thrown, and Lua._L is the  *)
(* thread of the managed function that was entered last.                   *)
(*                                                                         *)
(* Then, on top of that, nCcalls of the running thread is the number of C  *)
(* calls on the host stack, which is therefore bounded, and a yield        *)
(* crosses no C function and no protected call.  The two need each other.  *)
(* lua_yield looks at nCcalls and baseCcalls to see that no C call lies    *)
(* between it and lua_resume; and nCcalls of a thread that waits in        *)
(* lua_resume keeps its value only if that thread is not resumed again,    *)
(* which the status of what yielded shows.                                 *)
(*                                                                         *)
(* Last, each thread has the CallInfos of its functions on the host stack, *)
(* its hooks are off just while a hook or a __gc of it runs, its message   *)
(* handler is that of its last protected call, and a yield crosses         *)
(* nothing.  One function, View, computes the first three from the frames  *)
(* of a thread, and the invariant says that the thread shows it, and that  *)
(* what a frame saved is the view below that frame.                        *)
(***************************************************************************)
EXTENDS CallState, Integers, FiniteSetTheorems, SequenceTheorems, WellFoundedInduction, TLAPS

(* A host stack, and threads of which at least the handler is known.       *)
FrameOK(f) ==
    /\ {"k", "L"} \subseteq DOMAIN f
    /\ f.L \in Threads
    /\ IsTry(f) => {"jmp", "thrown"} \subseteq DOMAIN f
    /\ f.k = "c" => f.saved \in Threads \cup {None}
StackOK(h) ==
    /\ \E S : h \in Seq(S)
    /\ h # << >> /\ h[1] = Program
    /\ \A i \in DOMAIN h : FrameOK(h[i]) /\ (i # 1 => h[i].k # "program")
ThreadsOK(t) == DOMAIN t = Threads /\ \A L \in Threads : "jmp" \in DOMAIN t[L]

(* Frames of one thread lie together; only lua_resume changes the thread.  *)
Together(h) ==
    \A i, j \in DOMAIN h :
        i <= j /\ (\A n \in i + 1 .. j : h[n].k # "resume") => h[i].L = h[j].L

(* m is the last protected call of L before frame n. *)
LinkedAt(h, L, n, m) ==
    /\ m \in 0 .. n - 1
    /\ m # 0 => IsTry(h[m]) /\ h[m].L = L
    /\ \A j \in m + 1 .. n - 1 : ~(IsTry(h[j]) /\ h[j].L = L)

(* The chain of handlers that starts in the fields of t. *)
Linked(h, t) ==
    /\ \A L \in Threads : LinkedAt(h, L, Len(h) + 1, t[L].jmp)
    /\ \A i \in DOMAIN h : IsTry(h[i]) => LinkedAt(h, h[i].L, i, h[i].jmp)

(* x is the thread of the last managed function before frame n. *)
EnteredAt(h, n, x) ==
    \A m \in 1 .. n - 1 :
        /\ m = 1 \/ IsManaged(h[m])
        /\ \A j \in m + 1 .. n - 1 : ~IsManaged(h[j])
        => h[m].L = x

(* The chain of saved threads that starts in Lua._L. *)
Entered(h, x) ==
    /\ EnteredAt(h, Len(h) + 1, x)
    /\ \A i \in DOMAIN h : IsManaged(h[i]) => EnteredAt(h, i, h[i].saved)

Good(h, t, x) ==
    StackOK(h) /\ ThreadsOK(t) /\ x \in Threads /\ Together(h) /\ Linked(h, t) /\ Entered(h, x)

-----------------------------------------------------------------------------
(* The host stack as a sequence. *)

LEMMA StackFacts ==
    ASSUME NEW h, StackOK(h)
    PROVE  Len(h) \in Nat \ {0} /\ DOMAIN h = 1 .. Len(h)
<1>1. PICK S : h \in Seq(S)
  BY DEF StackOK
<1> QED BY <1>1, LenProperties, EmptySeq DEF StackOK

LEMMA Pushed ==
    ASSUME NEW h, StackOK(h), NEW f, FrameOK(f), f.k # "program"
    PROVE  /\ StackOK(Append(h, f))
           /\ Len(Append(h, f)) = Len(h) + 1
           /\ Append(h, f)[Len(h) + 1] = f
           /\ \A i \in 1 .. Len(h) : Append(h, f)[i] = h[i]
<1>1. PICK S : h \in Seq(S)
  BY DEF StackOK
<1>2. h \in Seq(S \cup {f})
  BY <1>1, SeqMonotonic
<1>3. /\ Append(h, f) \in Seq(S \cup {f}) /\ Append(h, f) # << >>
      /\ Len(Append(h, f)) = Len(h) + 1
      /\ \A i \in 1 .. Len(h) : Append(h, f)[i] = h[i]
      /\ Append(h, f)[Len(h) + 1] = f
  BY <1>2, AppendProperties
<1>4. DOMAIN Append(h, f) = 1 .. Len(h) + 1
  BY <1>3, LenProperties
<1>5. \A i \in 1 .. Len(h) + 1 : i = Len(h) + 1 \/ i \in 1 .. Len(h)
  BY StackFacts
<1>6. \A i \in DOMAIN Append(h, f) :
         FrameOK(Append(h, f)[i]) /\ (i # 1 => Append(h, f)[i].k # "program")
  BY <1>3, <1>4, <1>5, StackFacts DEF StackOK
<1>7. Append(h, f)[1] = Program
  BY <1>3, StackFacts DEF StackOK
<1>8. StackOK(Append(h, f))
  BY <1>3, <1>6, <1>7 DEF StackOK
<1> QED BY <1>3, <1>8

LEMMA Kept ==
    ASSUME NEW h, StackOK(h), NEW n \in 1 .. Len(h)
    PROVE  /\ StackOK(SubSeq(h, 1, n))
           /\ Len(SubSeq(h, 1, n)) = n
           /\ \A i \in 1 .. n : SubSeq(h, 1, n)[i] = h[i]
<1>1. PICK S : h \in Seq(S)
  BY DEF StackOK
<1>2. Len(h) \in Nat /\ \A i \in 1 .. n : h[i] \in S
  BY <1>1, ElementOfSeq, StackFacts
<1>3. /\ SubSeq(h, 1, n) \in Seq(S)
      /\ Len(SubSeq(h, 1, n)) = n
      /\ \A i \in 1 .. n : SubSeq(h, 1, n)[i] = h[i]
  <2>1. 1 <= n /\ n \in Int
    BY <1>2
  <2>2. \A i \in 1 .. n - 1 + 1 : 1 + i - 1 = i
    BY <2>1
  <2> HIDE DEF IsTry
  <2> QED BY <1>2, <2>1, <2>2, SubSeqProperties
<1>4. DOMAIN SubSeq(h, 1, n) = 1 .. n
  BY <1>3, LenProperties
<1>5. SubSeq(h, 1, n) # << >>
  BY <1>3, EmptySeq, <1>2
<1>6. DOMAIN h = 1 .. Len(h) /\ 1 .. n \subseteq 1 .. Len(h) /\ 1 \in 1 .. n
  BY <1>2, StackFacts
<1>7. StackOK(SubSeq(h, 1, n))
  BY <1>3, <1>4, <1>5, <1>6 DEF StackOK
<1> QED BY <1>3, <1>7

LEMMA Replaced ==
    ASSUME NEW h, StackOK(h), NEW n \in 2 .. Len(h), NEW f, FrameOK(f), f.k # "program"
    PROVE  /\ StackOK([h EXCEPT ![n] = f])
           /\ Len([h EXCEPT ![n] = f]) = Len(h)
           /\ [h EXCEPT ![n] = f][n] = f
           /\ \A i \in 1 .. Len(h) : i # n => [h EXCEPT ![n] = f][i] = h[i]
<1> DEFINE g == [h EXCEPT ![n] = f]
<1>1. PICK S : h \in Seq(S)
  BY DEF StackOK
<1>2. h \in Seq(S \cup {f}) /\ Len(h) \in Nat /\ n \in 1 .. Len(h)
  BY <1>1, SeqMonotonic, StackFacts
<1>3. /\ g \in Seq(S \cup {f}) /\ Len(g) = Len(h)
      /\ \A i \in 1 .. Len(h) : g[i] = IF i = n THEN f ELSE h[i]
  BY <1>2, ExceptSeq
<1>4. DOMAIN g = 1 .. Len(h) /\ DOMAIN h = 1 .. Len(h) /\ 1 \in 1 .. Len(h) /\ n # 1
  BY <1>2, <1>3, LenProperties, StackFacts
<1>5. g # << >>
  BY <1>3, <1>4, EmptySeq
<1>6. StackOK(g)
  <2> HIDE DEF g
  <2> QED BY <1>3, <1>4, <1>5 DEF StackOK
<1> QED BY <1>2, <1>3, <1>6

-----------------------------------------------------------------------------
(* What Good says of a stack is said of what the frames keep as long as    *)
(* they lie there.                                                         *)
Alike(g, f) ==
    /\ g.k = f.k /\ g.L = f.L
    /\ IsTry(f) => g.jmp = f.jmp
    /\ f.k = "c" => g.saved = f.saved
Agree(g, h, n) == \A i \in 1 .. n : Alike(g[i], h[i])

LEMMA Carried ==
    ASSUME NEW g, NEW h, NEW n \in Nat, Agree(g, h, n), NEW m \in 1 .. n + 1
    PROVE  /\ \A L, x : LinkedAt(h, L, m, x) => LinkedAt(g, L, m, x)
           /\ \A x : EnteredAt(h, m, x) => EnteredAt(g, m, x)
<1>1. \A i \in 1 .. m - 1 : Alike(g[i], h[i])
  BY DEF Agree
<1>2. ASSUME NEW L, NEW x, LinkedAt(h, L, m, x) PROVE LinkedAt(g, L, m, x)
  BY <1>1, <1>2 DEF LinkedAt, Alike, IsTry
<1>3. ASSUME NEW x, EnteredAt(h, m, x) PROVE EnteredAt(g, m, x)
  BY <1>1, <1>3 DEF EnteredAt, Alike, IsManaged
<1> QED BY <1>2, <1>3

(* The chains within the first n frames. *)
LEMMA ChainsKept ==
    ASSUME NEW h, NEW t, NEW x, Good(h, t, x), NEW g, StackOK(g),
           NEW n \in Nat, n <= Len(h), n <= Len(g), Agree(g, h, n)
    PROVE  /\ \A i \in 1 .. n : IsTry(g[i]) => LinkedAt(g, g[i].L, i, g[i].jmp)
           /\ \A i \in 1 .. n : IsManaged(g[i]) => EnteredAt(g, i, g[i].saved)
           /\ \A i, j \in 1 .. n :
                 i <= j /\ (\A m \in i + 1 .. j : g[m].k # "resume") => g[i].L = g[j].L
<1>1. 1 .. n \subseteq DOMAIN h /\ 1 .. n \subseteq 1 .. n + 1
  BY StackFacts DEF Good
<1>2. \A i \in 1 .. n : Alike(g[i], h[i])
  BY DEF Agree
<1>3. \A i \in 1 .. n : IsTry(g[i]) => LinkedAt(g, g[i].L, i, g[i].jmp)
  <2>1. SUFFICES ASSUME NEW i \in 1 .. n, IsTry(g[i]) PROVE LinkedAt(g, g[i].L, i, g[i].jmp)
    OBVIOUS
  <2>2. IsTry(h[i]) /\ g[i].L = h[i].L /\ g[i].jmp = h[i].jmp
    BY <1>2, <2>1 DEF Alike, IsTry
  <2>3. LinkedAt(h, h[i].L, i, h[i].jmp)
    BY <1>1, <2>2 DEF Good, Linked
  <2> QED BY <1>1, <2>2, <2>3, Carried
<1>4. \A i \in 1 .. n : IsManaged(g[i]) => EnteredAt(g, i, g[i].saved)
  <2>1. SUFFICES ASSUME NEW i \in 1 .. n, IsManaged(g[i]) PROVE EnteredAt(g, i, g[i].saved)
    OBVIOUS
  <2>2. IsManaged(h[i]) /\ g[i].saved = h[i].saved
    BY <1>2, <2>1 DEF Alike, IsManaged
  <2>3. EnteredAt(h, i, h[i].saved)
    BY <1>1, <2>2 DEF Good, Entered
  <2> QED BY <1>1, <2>2, <2>3, Carried
<1>5. ASSUME NEW i \in 1 .. n, NEW j \in 1 .. n, i <= j, \A m \in i + 1 .. j : g[m].k # "resume"
      PROVE  g[i].L = g[j].L
  <2>1. \A m \in i + 1 .. j : h[m].k # "resume"
    BY <1>2, <1>5 DEF Alike
  <2>2. h[i].L = h[j].L
    BY <1>1, <1>5, <2>1 DEF Good, Together
  <2> QED BY <1>2, <2>2 DEF Alike
<1> QED BY <1>3, <1>4, <1>5

(* A pushed frame stays with its thread. *)
LEMMA StaysTogether ==
    ASSUME NEW h, StackOK(h), Together(h), NEW f, FrameOK(f), f.k # "program",
           f.k = "resume" \/ f.L = Last(h).L
    PROVE  Together(Append(h, f))
<1> DEFINE g == Append(h, f)
           N == Len(h)
<1>1. /\ StackOK(g) /\ Len(g) = N + 1 /\ g[N + 1] = f /\ \A i \in 1 .. N : g[i] = h[i]
      /\ N \in Nat \ {0} /\ DOMAIN h = 1 .. N /\ DOMAIN g = 1 .. N + 1
  BY Pushed, StackFacts
<1> HIDE DEF g, N
<1> SUFFICES ASSUME NEW i \in DOMAIN g, NEW j \in DOMAIN g, i <= j,
                    \A m \in i + 1 .. j : g[m].k # "resume"
             PROVE  g[i].L = g[j].L
  BY DEF Together, g
<1>2. CASE i = j
  BY <1>2
<1>3. CASE i # j /\ j = N + 1
  <2>1. i \in 1 .. N /\ N \in 1 .. N /\ i <= N /\ N + 1 \in i + 1 .. j
    BY <1>1, <1>3
  <2>2. \A m \in i + 1 .. N : h[m].k # "resume"
    BY <1>1, <1>3
  <2>3. h[i].L = h[N].L
    BY <1>1, <2>1, <2>2 DEF Together
  <2>4. f.L = h[N].L
    BY <1>1, <1>3, <2>1 DEF Last, N
  <2> QED BY <1>1, <1>3, <2>1, <2>3, <2>4
<1>4. CASE i # j /\ j # N + 1
  <2>1. i \in 1 .. N /\ j \in 1 .. N
    BY <1>1, <1>4
  <2>2. \A m \in i + 1 .. j : h[m].k # "resume"
    BY <1>1, <2>1
  <2>3. h[i].L = h[j].L
    BY <1>1, <2>1, <2>2 DEF Together
  <2> QED BY <1>1, <2>1, <2>3
<1> QED BY <1>2, <1>3, <1>4

(* A frame of the running thread is pushed that catches nothing.           *)
LEMMA PushFrame ==
    ASSUME NEW h, NEW t, NEW x, Good(h, t, x), NEW f, FrameOK(f), f.k # "program",
           ~IsTry(f), f.L = Last(h).L,
           IsManaged(f) => f.saved = x
    PROVE  Good(Append(h, f), t, IF IsManaged(f) THEN f.L ELSE x)
<1> DEFINE g == Append(h, f)
           N == Len(h)
           y == IF IsManaged(f) THEN f.L ELSE x
<1>1. /\ StackOK(g) /\ Len(g) = N + 1 /\ g[N + 1] = f /\ \A i \in 1 .. N : g[i] = h[i]
      /\ N \in Nat \ {0} /\ DOMAIN h = 1 .. N /\ DOMAIN g = 1 .. N + 1
  BY Pushed, StackFacts DEF Good
<1> HIDE DEF g, N
<1>2. Agree(g, h, N)
  BY <1>1 DEF Agree, Alike
<1>3. /\ \A i \in 1 .. N : IsTry(g[i]) => LinkedAt(g, g[i].L, i, g[i].jmp)
      /\ \A i \in 1 .. N : IsManaged(g[i]) => EnteredAt(g, i, g[i].saved)
      /\ \A i, j \in 1 .. N :
            i <= j /\ (\A m \in i + 1 .. j : g[m].k # "resume") => g[i].L = g[j].L
  BY <1>1, <1>2, ChainsKept DEF N
<1>4. Together(g)
  BY StaysTogether DEF Good, g
<1>5. Linked(g, t)
  <2>1. ASSUME NEW L \in Threads PROVE LinkedAt(g, L, N + 2, t[L].jmp)
    <3>1. LinkedAt(h, L, N + 1, t[L].jmp)
      BY DEF Good, Linked, N
    <3>2. LinkedAt(g, L, N + 1, t[L].jmp)
      BY <1>1, <1>2, <3>1, Carried
    <3> QED BY <1>1, <3>2 DEF LinkedAt
  <2>2. \A i \in DOMAIN g : i \in 1 .. N \/ ~IsTry(g[i])
    BY <1>1
  <2> QED BY <1>1, <1>3, <2>1, <2>2 DEF Linked
<1>6. EnteredAt(h, N + 1, x)
  BY DEF Good, Entered, N
<1>7. EnteredAt(g, N + 1, x)
  BY <1>1, <1>2, <1>6, Carried
<1>8. Entered(g, y)
  <2>1. EnteredAt(g, N + 2, y)
    BY <1>1, <1>7 DEF EnteredAt
  <2>2. IsManaged(f) => EnteredAt(g, N + 1, f.saved)
    BY <1>7
  <2> QED BY <1>1, <1>3, <2>1, <2>2 DEF Entered
<1>9. y \in Threads
  BY DEF Good, FrameOK
<1> QED BY <1>1, <1>4, <1>5, <1>8, <1>9 DEF Good, g

(* A protected call of the running thread, or a coroutine, starts.         *)
LEMMA PushTry ==
    ASSUME NEW h, NEW t, NEW x, Good(h, t, x), NEW f, FrameOK(f), f.k # "program",
           IsTry(f), f.k = "resume" \/ f.L = Last(h).L,
           f.jmp = t[f.L].jmp,
           NEW u, ThreadsOK(u), u[f.L].jmp = Len(h) + 1,
           \A L \in Threads : L # f.L => u[L].jmp = t[L].jmp
    PROVE  Good(Append(h, f), u, x)
<1> DEFINE g == Append(h, f)
           N == Len(h)
<1>1. /\ StackOK(g) /\ Len(g) = N + 1 /\ g[N + 1] = f /\ \A i \in 1 .. N : g[i] = h[i]
      /\ N \in Nat \ {0} /\ DOMAIN h = 1 .. N /\ DOMAIN g = 1 .. N + 1
  BY Pushed, StackFacts DEF Good
<1> HIDE DEF g, N
<1>2. Agree(g, h, N)
  BY <1>1 DEF Agree, Alike
<1>3. /\ \A i \in 1 .. N : IsTry(g[i]) => LinkedAt(g, g[i].L, i, g[i].jmp)
      /\ \A i \in 1 .. N : IsManaged(g[i]) => EnteredAt(g, i, g[i].saved)
      /\ \A i, j \in 1 .. N :
            i <= j /\ (\A m \in i + 1 .. j : g[m].k # "resume") => g[i].L = g[j].L
  BY <1>1, <1>2, ChainsKept DEF N
<1>4. Together(g)
  BY StaysTogether DEF Good, g
<1>5. Linked(g, u)
  <2>1. ASSUME NEW L \in Threads PROVE LinkedAt(g, L, N + 1, t[L].jmp)
    <3>1. LinkedAt(h, L, N + 1, t[L].jmp)
      BY DEF Good, Linked, N
    <3> QED BY <1>1, <1>2, <3>1, Carried
  <2>2. ASSUME NEW L \in Threads PROVE LinkedAt(g, L, N + 2, u[L].jmp)
    <3>1. CASE L = f.L
      BY <1>1, <3>1 DEF LinkedAt, N
    <3>2. CASE L # f.L
      BY <1>1, <2>1, <3>2 DEF LinkedAt
    <3> QED BY <3>1, <3>2
  <2>3. LinkedAt(g, f.L, N + 1, f.jmp)
    BY <2>1 DEF FrameOK
  <2> QED BY <1>1, <1>3, <2>2, <2>3 DEF Linked
<1>6. EnteredAt(h, N + 1, x) /\ ~IsManaged(f)
  BY DEF Good, Entered, N, IsTry, IsManaged
<1>7. EnteredAt(g, N + 1, x)
  BY <1>1, <1>2, <1>6, Carried
<1>8. Entered(g, x)
  <2>1. EnteredAt(g, N + 2, x)
    BY <1>1, <1>6, <1>7 DEF EnteredAt
  <2> QED BY <1>1, <1>3, <1>6, <2>1 DEF Entered
<1> QED BY <1>1, <1>4, <1>5, <1>8 DEF Good, g

(* The last frame ends, and gives back what it saved.                      *)
LEMMA PopFrame ==
    ASSUME NEW h, NEW t, NEW x, Good(h, t, x), Last(h).k # "program",
           NEW u, ThreadsOK(u),
           \A L \in Threads :
               u[L].jmp = IF IsTry(Last(h)) /\ L = Last(h).L THEN Last(h).jmp ELSE t[L].jmp
    PROVE  Good(Front(h), u, IF IsManaged(Last(h)) THEN Last(h).saved ELSE x)
<1> DEFINE g == Front(h)
           N == Len(h)
           y == IF IsManaged(Last(h)) THEN Last(h).saved ELSE x
<1>1. N \in Nat \ {0} /\ DOMAIN h = 1 .. N /\ StackOK(h) /\ N # 1
  BY StackFacts DEF Good, StackOK, Last, Program
<1>2. /\ StackOK(g) /\ Len(g) = N - 1 /\ \A i \in 1 .. N - 1 : g[i] = h[i]
  BY <1>1, Kept DEF Front
<1>3. DOMAIN g = 1 .. N - 1
  BY <1>2, StackFacts
<1> HIDE DEF g, N
<1>4. Agree(g, h, N - 1)
  BY <1>2 DEF Agree, Alike
<1>5. /\ \A i \in 1 .. N - 1 : IsTry(g[i]) => LinkedAt(g, g[i].L, i, g[i].jmp)
      /\ \A i \in 1 .. N - 1 : IsManaged(g[i]) => EnteredAt(g, i, g[i].saved)
      /\ \A i, j \in 1 .. N - 1 :
            i <= j /\ (\A m \in i + 1 .. j : g[m].k # "resume") => g[i].L = g[j].L
  <2>1. N - 1 \in Nat /\ N - 1 <= N
    BY <1>1
  <2> QED BY <1>2, <1>4, <2>1, ChainsKept DEF N
<1>6. Together(g)
  BY <1>3, <1>5 DEF Together
<1>7. ASSUME NEW L \in Threads PROVE LinkedAt(h, L, N, u[L].jmp)
  <2>1. LinkedAt(h, L, N + 1, t[L].jmp)
    BY DEF Good, Linked, N
  <2>2. CASE IsTry(h[N]) /\ L = h[N].L
    BY <1>1, <2>2 DEF Good, Linked, Last, N
  <2>3. CASE ~(IsTry(h[N]) /\ L = h[N].L)
    <3>1. u[L].jmp = t[L].jmp
      BY <2>3 DEF Last, N
    <3> QED BY <1>1, <2>1, <2>3, <3>1 DEF LinkedAt
  <2> QED BY <2>2, <2>3
<1>8. Linked(g, u)
  <2>1. N \in 1 .. N - 1 + 1 /\ N - 1 \in Nat
    BY <1>1
  <2>2. \A L \in Threads : LinkedAt(g, L, N, u[L].jmp)
    BY <1>4, <1>7, <2>1, Carried
  <2> QED BY <1>1, <1>2, <1>3, <1>5, <2>2 DEF Linked
<1>9. EnteredAt(h, N, y)
  <2>1. EnteredAt(h, N + 1, x)
    BY DEF Good, Entered, N
  <2>2. CASE IsManaged(h[N])
    BY <1>1, <2>2 DEF Good, Entered, Last, N
  <2>3. CASE ~IsManaged(h[N])
    BY <1>1, <2>1, <2>3 DEF EnteredAt, Last, N
  <2> QED BY <2>2, <2>3
<1>10. Entered(g, y)
  <2>1. N \in 1 .. N - 1 + 1 /\ N - 1 \in Nat
    BY <1>1
  <2>2. EnteredAt(g, N, y)
    BY <1>4, <1>9, <2>1, Carried
  <2> QED BY <1>1, <1>2, <1>3, <1>5, <2>2 DEF Entered
<1>11. y \in Threads
  BY <1>1 DEF Good, StackOK, FrameOK, IsManaged, Last, N
<1> QED BY <1>2, <1>6, <1>8, <1>10, <1>11 DEF Good, g

(* A frame changes in what the chains do not see. *)
LEMMA EditFrame ==
    ASSUME NEW h, NEW t, NEW x, Good(h, t, x),
           NEW n \in 2 .. Len(h), NEW f, FrameOK(f), Alike(f, h[n])
    PROVE  Good([h EXCEPT ![n] = f], t, x) /\ Len([h EXCEPT ![n] = f]) = Len(h)
<1> DEFINE g == [h EXCEPT ![n] = f]
           N == Len(h)
<1>1. N \in Nat \ {0} /\ DOMAIN h = 1 .. N /\ n \in 1 .. N /\ f.k # "program"
  BY StackFacts DEF Good, StackOK, Alike
<1>2. StackOK(g) /\ Len(g) = N /\ g[n] = f /\ \A i \in 1 .. N : i # n => g[i] = h[i]
  BY <1>1, Replaced DEF Good
<1>3. DOMAIN g = 1 .. N
  BY <1>2, StackFacts
<1> HIDE DEF g, N
<1>4. Agree(g, h, N)
  BY <1>2 DEF Agree, Alike
<1>5. /\ \A i \in 1 .. N : IsTry(g[i]) => LinkedAt(g, g[i].L, i, g[i].jmp)
      /\ \A i \in 1 .. N : IsManaged(g[i]) => EnteredAt(g, i, g[i].saved)
      /\ \A i, j \in 1 .. N :
            i <= j /\ (\A m \in i + 1 .. j : g[m].k # "resume") => g[i].L = g[j].L
  BY <1>1, <1>2, <1>4, ChainsKept DEF N
<1>6. N + 1 \in 1 .. N + 1
  BY <1>1
<1>7. Linked(g, t)
  <2>1. \A L \in Threads : LinkedAt(h, L, N + 1, t[L].jmp)
    BY DEF Good, Linked, N
  <2>2. \A L \in Threads : LinkedAt(g, L, N + 1, t[L].jmp)
    BY <1>1, <1>4, <1>6, <2>1, Carried
  <2> QED BY <1>2, <1>3, <1>5, <2>2 DEF Linked
<1>8. Entered(g, x)
  <2>1. EnteredAt(h, N + 1, x)
    BY DEF Good, Entered, N
  <2>2. EnteredAt(g, N + 1, x)
    BY <1>1, <1>4, <1>6, <2>1, Carried
  <2> QED BY <1>2, <1>3, <1>5, <2>2 DEF Entered
<1>9. Together(g)
  BY <1>3, <1>5 DEF Together
<1> QED BY <1>2, <1>7, <1>8, <1>9 DEF Good, g, N

(* The threads change in fields that are no handlers. *)
LEMMA OtherFields ==
    ASSUME NEW h, NEW t, NEW x, Good(h, t, x),
           NEW u, ThreadsOK(u), \A L \in Threads : u[L].jmp = t[L].jmp
    PROVE  Good(h, u, x)
BY DEF Good, Linked

-----------------------------------------------------------------------------
(* Where an exception arrives.                                             *)

LEMMA Smallest ==
    ASSUME NEW I \in SUBSET Nat, I # {}
    PROVE  Min(I) \in I /\ \A j \in I : Min(I) <= j
<1> DEFINE less == OpToRel(<, Nat)
<1>1. IsWellFoundedOn(less, Nat)
  BY NatLessThanWellFounded
<1> HIDE DEF less
<1>2. PICK m \in I : \A j \in I : ~(<<j, m>> \in less)
  BY <1>1, WFMin
<1>3. \A j \in I : ~(j < m)
  BY <1>2 DEF less, OpToRel
<1>4. \A j \in I : m <= j
  BY <1>3
<1> QED BY <1>4 DEF Min

LEMMA Largest ==
    ASSUME NEW n \in Nat, NEW I \in SUBSET (1 .. n), I # {}
    PROVE  Max(I) \in I /\ \A j \in I : Max(I) >= j
<1> DEFINE J == {i \in Nat : n - i \in I}
<1>1. J # {} /\ J \in SUBSET Nat
  <2>1. PICK i \in I : TRUE
    OBVIOUS
  <2>2. n - i \in Nat /\ n - (n - i) = i
    BY <2>1
  <2> QED BY <2>1, <2>2
<1> DEFINE m == Min(J)
<1>2. m \in J /\ \A j \in J : m <= j
  BY <1>1, Smallest
<1> HIDE DEF m
<1>3. n - m \in I /\ m \in Nat
  BY <1>2
<1>4. \A j \in I : n - m >= j
  <2>1. SUFFICES ASSUME NEW j \in I PROVE n - m >= j
    OBVIOUS
  <2>2. n - j \in Nat /\ n - (n - j) = j
    OBVIOUS
  <2>3. m <= n - j
    BY <1>2, <2>2
  <2> QED BY <1>3, <2>3
<1> QED BY <1>3, <1>4 DEF Max

(* The handler of the running thread is the innermost of all: a frame of   *)
(* another thread in between would be below a lua_resume of this one.      *)
LEMMA InnermostIsOwn ==
    ASSUME NEW h, NEW t, NEW x, Good(h, t, x)
    PROVE  /\ Innermost(h) = t[Last(h).L].jmp
           /\ Innermost(h) \in 0 .. Len(h) /\ Innermost(h) # 1
           /\ Innermost(h) # 0 => IsTry(h[Innermost(h)]) /\ h[Innermost(h)].L = Last(h).L
           /\ \A j \in Innermost(h) + 1 .. Len(h) : ~IsTry(h[j])
<1> DEFINE N == Len(h)
           R == Last(h).L
           I == {i \in DOMAIN h : IsTry(h[i])}
<1>1. N \in Nat \ {0} /\ DOMAIN h = 1 .. N /\ h[1] = Program /\ R \in Threads
  BY StackFacts DEF Good, StackOK, FrameOK, Last
<1>2. LinkedAt(h, R, N + 1, t[R].jmp)
  BY <1>1 DEF Good, Linked
<1>3. 1 \notin I
  BY <1>1 DEF IsTry, Program
<1>4. CASE I = {}
  <2>1. Innermost(h) = 0
    BY <1>4 DEF Innermost
  <2>2. t[R].jmp = 0
    BY <1>1, <1>2, <1>4 DEF LinkedAt
  <2> QED BY <1>1, <1>4, <2>1, <2>2
<1>5. CASE I # {}
  <2> DEFINE i == Max(I)
  <2>1. i \in I /\ \A j \in I : i >= j
    BY <1>1, <1>5, Largest
  <2>2. Innermost(h) = i
    BY <1>5 DEF Innermost
  <2> HIDE DEF i
  <2>3. i \in 2 .. N /\ IsTry(h[i])
    BY <1>1, <1>3, <2>1
  <2>4. \A j \in i + 1 .. N : ~IsTry(h[j])
    <3>1. SUFFICES ASSUME NEW j \in i + 1 .. N, IsTry(h[j]) PROVE FALSE
      OBVIOUS
    <3>2. j \in I /\ j > i
      BY <1>1, <2>3, <3>1
    <3> QED BY <2>1, <2>3, <3>2
  <2>5. h[i].L = R
    <3>1. i \in DOMAIN h /\ N \in DOMAIN h /\ i <= N
      BY <1>1, <2>3
    <3>2. \A m \in i + 1 .. N : h[m].k # "resume"
      BY <2>4 DEF IsTry
    <3> QED BY <3>1, <3>2 DEF Good, Together, Last
  <2>6. t[R].jmp = i
    BY <1>1, <1>2, <2>3, <2>4, <2>5 DEF LinkedAt
  <2> QED BY <2>2, <2>3, <2>4, <2>5, <2>6
<1> QED BY <1>4, <1>5

(* The using statements an exception passes restore Lua._L.                *)
LEMMA DisposedIsEntered ==
    ASSUME NEW h, NEW t, Good(h, t, interp), NEW i \in 0 .. Len(h), i # 1, i # 0 => IsTry(h[i])
    PROVE  /\ Disposed(h, i) \in Threads
           /\ EnteredAt(h, IF i = 0 THEN 2 ELSE i, Disposed(h, i))
<1> DEFINE M == {j \in i + 1 .. Len(h) : IsManaged(h[j])}
           p == IF i = 0 THEN 2 ELSE i
<1>1. Len(h) \in Nat \ {0} /\ DOMAIN h = 1 .. Len(h) /\ h[1] = Program
  BY StackFacts DEF Good, StackOK
<1>2. ~IsManaged(h[1]) /\ (i # 0 => ~IsManaged(h[i]))
  BY <1>1 DEF IsManaged, IsTry, Program
<1>3. CASE M = {}
  <2>1. Disposed(h, i) = interp
    BY <1>3 DEF Disposed
  <2>2. EnteredAt(h, Len(h) + 1, interp)
    BY DEF Good, Entered
  <2>3. \A j \in p .. Len(h) : ~IsManaged(h[j])
    BY <1>1, <1>2, <1>3
  <2>4. EnteredAt(h, p, interp)
    BY <1>1, <2>2, <2>3 DEF EnteredAt
  <2> QED BY <2>1, <2>4 DEF Good
<1>4. CASE M # {}
  <2> DEFINE j == Min(M)
  <2>1. j \in M /\ \A m \in M : j <= m
    <3>1. M \in SUBSET Nat
      BY <1>1
    <3> HIDE DEF M
    <3> QED BY <1>4, <3>1, Smallest
  <2>2. Disposed(h, i) = h[j].saved
    BY <1>4 DEF Disposed
  <2> HIDE DEF j
  <2>3. j \in 2 .. Len(h) /\ IsManaged(h[j]) /\ p <= j /\ j \in DOMAIN h
    BY <1>1, <1>2, <2>1
  <2>4. EnteredAt(h, j, h[j].saved)
    BY <2>3 DEF Good, Entered
  <2>5. \A m \in p .. j - 1 : ~IsManaged(h[m])
    <3>1. SUFFICES ASSUME NEW m \in p .. j - 1, IsManaged(h[m]) PROVE FALSE
      OBVIOUS
    <3>2. m \in M /\ m < j
      BY <1>1, <1>2, <2>3, <3>1
    <3> QED BY <2>1, <2>3, <3>2
  <2>6. EnteredAt(h, p, h[j].saved)
    BY <1>1, <2>3, <2>4, <2>5 DEF EnteredAt
  <2>7. h[j].saved \in Threads
    BY <2>3 DEF Good, StackOK, FrameOK, IsManaged
  <2> QED BY <2>2, <2>6, <2>7
<1> QED BY <1>3, <1>4

(* The host program alone. *)
LEMMA OnlyProgram ==
    ASSUME NEW t, ThreadsOK(t), \A L \in Threads : t[L].jmp = 0
    PROVE  Good(<<Program>>, t, Main)
<1> DEFINE g == <<Program>>
<1>1. FrameOK(Program) /\ ~IsTry(Program) /\ ~IsManaged(Program) /\ Program.L = Main /\ Main \in Threads
  BY DEF FrameOK, IsTry, IsManaged, Program, Threads
<1>2. g \in Seq({Program}) /\ Len(g) = 1 /\ DOMAIN g = {1} /\ g[1] = Program /\ g # << >>
  BY DEF Program
<1> HIDE DEF g
<1>3. StackOK(g)
  BY <1>1, <1>2 DEF StackOK
<1>4. Together(g) /\ Linked(g, t) /\ Entered(g, Main)
  BY <1>1, <1>2 DEF Together, Linked, LinkedAt, Entered, EnteredAt
<1> QED BY <1>1, <1>3, <1>4 DEF Good, g

LEMMA CaughtGood ==
    ASSUME NEW h, NEW t, Good(h, t, interp), Caught(h, t, Innermost(h))
    PROVE  Good(host', th', interp')
<1> DEFINE i == Innermost(h)
           N == Len(h)
<1>1. N \in Nat \ {0} /\ DOMAIN h = 1 .. N /\ h[1] = Program /\ StackOK(h) /\ ThreadsOK(t)
  BY StackFacts DEF Good, StackOK
<1>2. /\ i \in 0 .. N /\ i # 1
      /\ i # 0 => IsTry(h[i])
      /\ \A j \in i + 1 .. N : ~IsTry(h[j])
  BY InnermostIsOwn
<1>3. /\ interp' \in Threads
      /\ EnteredAt(h, IF i = 0 THEN 2 ELSE i, interp')
  BY <1>2, DisposedIsEntered DEF Caught
<1>4. CASE i = 0
  <2>1. host' = <<Program>> /\ th' = t
    BY <1>4 DEF Caught
  <2>2. interp' = Main
    BY <1>1, <1>3, <1>4 DEF EnteredAt, Program
  <2>3. \A L \in Threads : t[L].jmp = 0
    BY <1>1, <1>2, <1>4 DEF Good, Linked, LinkedAt
  <2> QED BY <1>1, <2>1, <2>2, <2>3, OnlyProgram
<1>5. CASE i # 0
  <2> DEFINE g == SubSeq(h, 1, i - 1)
             f == h[i]
  <2>1. i - 1 \in 1 .. N /\ i - 1 \in Nat /\ i \in DOMAIN h /\ i \in 1 .. N /\ i \in 1 .. i - 1 + 1
    BY <1>1, <1>2, <1>5
  <2>2. StackOK(g) /\ Len(g) = i - 1 /\ \A j \in 1 .. i - 1 : g[j] = h[j]
    BY <1>1, <2>1, Kept
  <2>3. DOMAIN g = 1 .. i - 1
    BY <2>2, StackFacts
  <2>4. host' = g
    BY <1>5 DEF Caught
  <2> HIDE DEF g
  <2>5. f.L \in Threads /\ IsTry(f) /\ f.k \in {"pcall", "resume"}
    BY <1>1, <1>2, <1>5, <2>1 DEF StackOK, FrameOK, IsTry
  <2>6. ThreadsOK(th') /\ th'[f.L].jmp = f.jmp
    <3>1. th' = [t EXCEPT ![f.L] = IF f.k = "pcall" THEN PcallFailed(@, f) ELSE ResumeFailed(@, f)]
      BY <1>5 DEF Caught
    <3>2. DOMAIN th' = Threads /\ \A L \in Threads \ {f.L} : th'[L] = t[L]
      BY <1>1, <3>1 DEF ThreadsOK
    <3>3. th'[f.L] = IF f.k = "pcall" THEN PcallFailed(t[f.L], f) ELSE ResumeFailed(t[f.L], f)
      BY <1>1, <2>5, <3>1 DEF ThreadsOK
    <3>4. "jmp" \in DOMAIN PcallFailed(t[f.L], f) /\ PcallFailed(t[f.L], f).jmp = f.jmp
      BY <1>1, <2>5 DEF PcallFailed, ThreadsOK
    <3>5. "jmp" \in DOMAIN ResumeFailed(t[f.L], f) /\ ResumeFailed(t[f.L], f).jmp = f.jmp
      BY DEF ResumeFailed, Dead
    <3> QED BY <1>1, <3>2, <3>3, <3>4, <3>5 DEF ThreadsOK
  <2>7. \A L \in Threads \ {f.L} : th'[L] = t[L]
    BY <1>1, <1>5 DEF Caught, ThreadsOK
  <2>8. Agree(g, h, i - 1)
    BY <2>2 DEF Agree, Alike
  <2>9. /\ \A j \in 1 .. i - 1 : IsTry(g[j]) => LinkedAt(g, g[j].L, j, g[j].jmp)
        /\ \A j \in 1 .. i - 1 : IsManaged(g[j]) => EnteredAt(g, j, g[j].saved)
        /\ \A j, l \in 1 .. i - 1 :
              j <= l /\ (\A m \in j + 1 .. l : g[m].k # "resume") => g[j].L = g[l].L
    <3>1. i - 1 <= N /\ i - 1 <= Len(g)
      BY <1>1, <2>1, <2>2
    <3> HIDE DEF i
    <3> QED BY <2>1, <2>2, <2>8, <3>1, ChainsKept
  <2>10. ASSUME NEW L \in Threads PROVE LinkedAt(h, L, i, th'[L].jmp)
    <3>1. CASE L = f.L
      BY <2>1, <2>5, <2>6, <3>1 DEF Good, Linked
    <3>2. CASE L # f.L
      <4>1. LinkedAt(h, L, N + 1, t[L].jmp)
        BY DEF Good, Linked
      <4> QED BY <1>1, <1>2, <1>5, <2>1, <2>7, <3>2, <4>1 DEF LinkedAt
    <3> QED BY <3>1, <3>2
  <2>11. \A L \in Threads : LinkedAt(g, L, i, th'[L].jmp)
    BY <2>1, <2>8, <2>10, Carried
  <2>12. EnteredAt(g, i, interp')
    BY <1>3, <1>5, <2>1, <2>8, Carried
  <2>13. Len(g) + 1 = i
    BY <2>1, <2>2
  <2> HIDE DEF i
  <2>14. Together(g) /\ Linked(g, th') /\ Entered(g, interp')
    BY <2>3, <2>9, <2>11, <2>12, <2>13 DEF Together, Linked, Entered
  <2> QED BY <1>3, <2>2, <2>4, <2>6, <2>14 DEF Good
<1> QED BY <1>4, <1>5

(* luaD_throw, on the thread that runs or on another. *)
LEMMA ThrowGood ==
    ASSUME NEW h, NEW t, Good(h, t, interp), NEW L \in Threads, Throw(h, t, L)
    PROVE  Good(host', th', interp')
<1> DEFINE m == t[L].jmp
<1>1. CASE m # 0
  <2> DEFINE f == [h[m] EXCEPT !.thrown = TRUE]
             g == [h EXCEPT ![m] = f]
  <2>1. m \in 1 .. Len(h) /\ IsTry(h[m]) /\ DOMAIN h = 1 .. Len(h) /\ h[1] = Program /\ Len(h) \in Nat
    BY <1>1, StackFacts DEF Good, Linked, LinkedAt, StackOK
  <2>2. m \in 2 .. Len(h)
    BY <2>1 DEF IsTry, Program
  <2>3. FrameOK(h[m])
    BY <2>1 DEF Good, StackOK
  <2>4. f.k = h[m].k /\ f.L = h[m].L /\ f.jmp = h[m].jmp /\ DOMAIN f = DOMAIN h[m]
    BY <2>1, <2>3 DEF FrameOK
  <2>5. FrameOK(f) /\ Alike(f, h[m])
    BY <2>1, <2>3, <2>4 DEF FrameOK, Alike, IsTry
  <2>6. Good(g, t, interp)
    BY <2>2, <2>5, EditFrame
  <2>7. Innermost(g) = Innermost(h)
    <3>1. \A i \in 1 .. Len(h) : g[i].L = h[i].L
      BY <2>1, <2>4
    <3>2. Len(g) = Len(h) /\ Len(h) \in 1 .. Len(h)
      BY <2>2, <2>5, EditFrame
    <3>3. Last(g).L = Last(h).L
      BY <3>1, <3>2 DEF Last
    <3> HIDE DEF g
    <3> QED BY <2>6, <3>3, InnermostIsOwn
  <2>8. Caught(g, t, Innermost(h))
    BY <1>1 DEF Throw
  <2> QED BY <2>6, <2>7, <2>8, CaughtGood
<1>2. CASE m = 0
  <2> DEFINE u == [t EXCEPT ![L] = Dead]
  <2>1. ThreadsOK(u) /\ \A M \in Threads : u[M].jmp = t[M].jmp
    BY <1>2 DEF Good, ThreadsOK, Dead
  <2>2. Good(h, u, interp)
    BY <2>1, OtherFields
  <2>3. Caught(h, u, Innermost(h))
    BY <1>2 DEF Throw
  <2> QED BY <2>2, <2>3, CaughtGood
<1> QED BY <1>1, <1>2

LEMMA PrecallGood ==
    ASSUME NEW h, NEW t, Good(h, t, interp), NEW kind, NEW called, Precall(h, t, Last(h).L, kind, called)
    PROVE  Good(host', th', interp')
<1> DEFINE L == Last(h).L
           f == IF kind = "lua" THEN Exec(L, 1, called)
                ELSE CFunc(L, IF kind = "managed" THEN interp ELSE None, called)
<1>1. L \in Threads /\ interp \in Threads /\ None \notin Threads
  BY StackFacts, ThreadsAssumption DEF Good, StackOK, FrameOK, Last, Threads
<1>2. FrameOK(f) /\ f.k # "program" /\ ~IsTry(f) /\ f.L = L
  BY <1>1 DEF FrameOK, IsTry, Exec, CFunc
<1>3. /\ IsManaged(f) <=> kind = "managed"
      /\ IsManaged(f) => f.saved = interp
  BY <1>1 DEF IsManaged, Exec, CFunc
<1>4. host' = Append(h, f) /\ interp' = IF IsManaged(f) THEN f.L ELSE interp
  BY <1>2, <1>3 DEF Precall
<1>5. ThreadsOK(th') /\ \A M \in Threads : th'[M].jmp = t[M].jmp
  BY DEF Precall, Good, ThreadsOK
<1> HIDE DEF f
<1>6. Good(host', t, interp')
  BY <1>2, <1>3, <1>4, PushFrame
<1> QED BY <1>5, <1>6, OtherFields

LEMMA DoCallGood ==
    ASSUME NEW h, NEW t, Good(h, t, interp), NEW kind, DoCall(h, t, Last(h).L, kind)
    PROVE  Good(host', th', interp')
<1> DEFINE L == Last(h).L
           n == t[L].nC + 1
           u == [t EXCEPT ![L].nC = n]
           f == Error(L, FALSE, TRUE)
<1>1. L \in Threads
  BY StackFacts DEF Good, StackOK, FrameOK, Last
<1>2. ThreadsOK(u) /\ \A M \in Threads : u[M].jmp = t[M].jmp
  BY <1>1 DEF Good, ThreadsOK
<1>3. Good(h, u, interp)
  BY <1>2, OtherFields
<1> HIDE DEF u, n
<1>4. CASE host' = Append(h, f) /\ th' = u /\ interp' = interp
  <2>1. FrameOK(f) /\ f.k # "program" /\ ~IsTry(f) /\ f.L = L /\ ~IsManaged(f)
    BY <1>1 DEF FrameOK, IsTry, IsManaged, Error
  <2> HIDE DEF f
  <2> QED BY <1>3, <1>4, <2>1, PushFrame
<1>5. CASE Throw(h, u, L)
  BY <1>1, <1>3, <1>5, ThrowGood
<1>6. CASE Precall(h, u, L, kind, TRUE)
  BY <1>3, <1>6, PrecallGood
<1> QED BY <1>4, <1>5, <1>6 DEF DoCall, u, n

-----------------------------------------------------------------------------
(* The steps. *)

IInv == Good(host, th, interp)

LEMMA InitIInv == Init => IInv
<1> SUFFICES ASSUME Init PROVE IInv
  OBVIOUS
<1>1. ThreadsOK(th) /\ \A L \in Threads : th[L].jmp = 0
  BY DEF Init, ThreadsOK, New
<1> QED BY <1>1, OnlyProgram DEF Init, IInv

LEMMA HostFacts ==
    ASSUME IInv
    PROVE  /\ Len(host) \in Nat \ {0} /\ DOMAIN host = 1 .. Len(host)
           /\ Top = host[Len(host)] /\ FrameOK(Top) /\ Running \in Threads
           /\ Top.k # "program" => Len(host) \in 2 .. Len(host)
           /\ ThreadsOK(th) /\ interp \in Threads
<1>1. Len(host) \in Nat \ {0} /\ DOMAIN host = 1 .. Len(host)
  BY StackFacts DEF IInv, Good
<1>2. FrameOK(Top)
  BY <1>1 DEF IInv, Good, StackOK, Top, Last
<1>3. Top.k # "program" => Len(host) # 1
  BY <1>1 DEF IInv, Good, StackOK, Top, Last, Program
<1> QED BY <1>1, <1>2, <1>3 DEF IInv, Good, FrameOK, Running, Top, Last

(* The calls of one function by another. *)
LEMMA CallFunctionStep ==
    ASSUME IInv, NEW kind, CallFunction(kind)
    PROVE  IInv'
BY DoCallGood DEF IInv, CallFunction, Running, Top

LEMMA PushPcall ==
    ASSUME IInv, NEW e
    PROVE  LET h == Append(host, Pcall(Running, th[Running], e))
               t == [th EXCEPT ![Running].errf = e, ![Running].jmp = Len(host) + 1]
           IN  Good(h, t, interp) /\ Last(h).L = Running
<1> DEFINE L == Running
           f == Pcall(L, th[L], e)
           t == [th EXCEPT ![L].errf = e, ![L].jmp = Len(host) + 1]
           h == Append(host, f)
<1>1. L \in Threads /\ L = Last(host).L /\ ThreadsOK(th)
  BY HostFacts DEF Running, Top
<1>2. FrameOK(f) /\ f.k # "program" /\ IsTry(f) /\ f.L = L /\ f.jmp = th[L].jmp
  BY <1>1 DEF FrameOK, IsTry, Pcall
<1>3. /\ ThreadsOK(t) /\ t[L].jmp = Len(host) + 1
      /\ \A M \in Threads : M # L => t[M].jmp = th[M].jmp
  BY <1>1 DEF ThreadsOK
<1>4. Last(h).L = L
  <2>1. Len(h) = Len(host) + 1 /\ h[Len(host) + 1] = f
    BY <1>2, Pushed DEF IInv, Good
  <2> QED BY <1>2, <2>1 DEF Last
<1> HIDE DEF f, t, L
<1>5. Good(h, t, interp)
  BY <1>1, <1>2, <1>3, PushTry DEF IInv
<1> QED BY <1>4, <1>5 DEF f, t, L

LEMMA ProtectedCallStep ==
    ASSUME IInv, NEW kind, NEW e, ProtectedCall(kind, e)
    PROVE  IInv'
BY PushPcall, DoCallGood DEF ProtectedCall, IInv

LEMMA OpCallCStep ==
    ASSUME IInv, NEW kind, OpCallC(kind)
    PROVE  IInv'
BY PrecallGood DEF IInv, OpCallC, Running, Top

(* Frames that change in place. *)
LEMMA EditTop ==
    ASSUME IInv, Top.k # "program", NEW f, Alike(f, Top), DOMAIN f = DOMAIN Top,
           host' = [host EXCEPT ![Len(host)] = f],
           ThreadsOK(th'), \A L \in Threads : th'[L].jmp = th[L].jmp, interp' = interp
    PROVE  IInv'
<1>1. FrameOK(f)
  BY HostFacts DEF FrameOK, Alike, IsTry
<1>2. Good(host', th, interp)
  BY <1>1, HostFacts, EditFrame DEF IInv
<1> QED BY <1>2, OtherFields DEF IInv

LEMMA OpCallLuaStep ==
    ASSUME IInv, OpCallLua
    PROVE  IInv'
<1> DEFINE f == [Top EXCEPT !.n = @ + 1]
<1>1. Top.k = "exec"
  BY DEF OpCallLua, InLua
<1>2. DOMAIN f = DOMAIN Top /\ Alike(f, Top)
  BY <1>1, HostFacts DEF Alike, FrameOK, IsTry
<1>3. host' = [host EXCEPT ![Len(host)] = f]
  BY HostFacts DEF OpCallLua
<1>4. ThreadsOK(th') /\ (\A L \in Threads : th'[L].jmp = th[L].jmp) /\ interp' = interp
  BY HostFacts DEF OpCallLua, ThreadsOK
<1> HIDE DEF f
<1> QED BY <1>1, <1>2, <1>3, <1>4, EditTop

(* Frames that end. *)
LEMMA PopStep ==
    ASSUME IInv, Top.k # "program", host' = Front(host), ThreadsOK(th'),
           \A L \in Threads :
               th'[L].jmp = IF IsTry(Top) /\ L = Running THEN Top.jmp ELSE th[L].jmp,
           interp' = IF IsManaged(Top) THEN Top.saved ELSE interp
    PROVE  IInv'
BY PopFrame DEF IInv, Top, Running

LEMMA OpReturnStep ==
    ASSUME IInv, OpReturn
    PROVE  IInv'
<1>1. Top.k = "exec" /\ interp' = interp /\ ~IsTry(Top) /\ ~IsManaged(Top)
  BY DEF OpReturn, InLua, IsTry, IsManaged
<1>2. ThreadsOK(th') /\ \A L \in Threads : th'[L].jmp = th[L].jmp
  <2>1. CASE Top.n > 1
    BY <2>1, HostFacts DEF OpReturn, ThreadsOK
  <2>2. CASE ~(Top.n > 1)
    <3> DEFINE r == Left([th[Running] EXCEPT !.ci = Front(@)], Top)
    <3>1. "jmp" \in DOMAIN r /\ r.jmp = th[Running].jmp
      BY HostFacts DEF ThreadsOK, Left
    <3>2. th' = [th EXCEPT ![Running] = r]
      BY <2>2 DEF OpReturn
    <3> HIDE DEF r
    <3> QED BY <3>1, <3>2, HostFacts DEF ThreadsOK
  <2> QED BY <2>1, <2>2
<1>3. CASE Top.n > 1
  <2> DEFINE f == [Top EXCEPT !.n = @ - 1]
  <2>1. DOMAIN f = DOMAIN Top /\ Alike(f, Top)
    BY <1>1, HostFacts DEF Alike, FrameOK, IsTry
  <2>2. host' = [host EXCEPT ![Len(host)] = f]
    BY <1>3, HostFacts DEF OpReturn
  <2> HIDE DEF f
  <2> QED BY <1>1, <1>2, <2>1, <2>2, EditTop
<1>4. CASE ~(Top.n > 1)
  BY <1>1, <1>2, <1>4, PopStep DEF OpReturn
<1> QED BY <1>3, <1>4

LEMMA CReturnsStep ==
    ASSUME IInv, CReturns
    PROVE  IInv'
<1>1. Top.k = "c" /\ ~IsTry(Top)
  BY DEF CReturns, IsTry
<1>2. ThreadsOK(th') /\ \A L \in Threads : th'[L].jmp = th[L].jmp
  BY HostFacts DEF CReturns, ThreadsOK, Left
<1> QED BY <1>1, <1>2, PopStep DEF CReturns

LEMMA PcallReturnsStep ==
    ASSUME IInv, PcallReturns
    PROVE  IInv'
<1>1. Top.k = "pcall" /\ IsTry(Top) /\ ~IsManaged(Top)
  BY DEF PcallReturns, IsTry, IsManaged
<1>2. /\ ThreadsOK(th')
      /\ \A L \in Threads : th'[L].jmp = IF L = Running THEN Top.jmp ELSE th[L].jmp
  BY HostFacts DEF PcallReturns, ThreadsOK
<1> QED BY <1>1, <1>2, PopStep DEF PcallReturns

LEMMA ResumeReturnsStep ==
    ASSUME IInv, ResumeReturns
    PROVE  IInv'
<1>1. Top.k = "resume" /\ IsTry(Top) /\ ~IsManaged(Top)
  BY DEF ResumeReturns, IsTry, IsManaged
<1>2. /\ ThreadsOK(th')
      /\ \A L \in Threads : th'[L].jmp = IF L = Running THEN Top.jmp ELSE th[L].jmp
  BY HostFacts DEF ResumeReturns, ThreadsOK
<1> QED BY <1>1, <1>2, PopStep DEF ResumeReturns

LEMMA ExecYieldsStep ==
    ASSUME IInv, ExecYields
    PROVE  IInv'
<1>1. Top.k = "exec" /\ ~IsTry(Top) /\ ~IsManaged(Top)
  BY DEF ExecYields, IsTry, IsManaged
<1>2. ThreadsOK(th') /\ \A L \in Threads : th'[L].jmp = th[L].jmp
  <2>1. th' = th
    BY DEF ExecYields
  <2> QED BY <2>1, HostFacts
<1> QED BY <1>1, <1>2, PopStep DEF ExecYields

LEMMA NoHookReturnsStep ==
    ASSUME IInv, NoHookReturns
    PROVE  IInv'
<1>1. Top.k = "nohook" /\ ~IsTry(Top) /\ ~IsManaged(Top)
  BY DEF NoHookReturns, IsTry, IsManaged
<1>2. ThreadsOK(th') /\ \A L \in Threads : th'[L].jmp = th[L].jmp
  BY HostFacts DEF NoHookReturns, ThreadsOK
<1> QED BY <1>1, <1>2, PopStep DEF NoHookReturns

(* Errors. *)
LEMMA RaiseErrorStep ==
    ASSUME IInv, host' = Append(host, Error(Running, FALSE, FALSE)), UNCHANGED <<th, interp>>
    PROVE  IInv'
<1> DEFINE f == Error(Running, FALSE, FALSE)
<1>1. FrameOK(f) /\ f.k # "program" /\ ~IsTry(f) /\ ~IsManaged(f) /\ f.L = Last(host).L
  BY HostFacts DEF FrameOK, IsTry, IsManaged, Error, Running, Top
<1>2. host' = Append(host, f) /\ th' = th /\ interp' = interp
  OBVIOUS
<1> HIDE DEF f
<1> QED BY <1>1, <1>2, PushFrame DEF IInv

LEMMA ThrowStep ==
    ASSUME IInv, NEW L \in Threads, Throw(host, th, L)
    PROVE  IInv'
BY ThrowGood DEF IInv

(* luaG_errormsg marks its frame before it calls the message handler. *)
LEMMA ReplaceTop ==
    ASSUME NEW h, StackOK(h), Last(h).k # "program", NEW f, FrameOK(f), f.k # "program"
    PROVE  Append(Front(h), f) = [h EXCEPT ![Len(h)] = f]
<1>1. PICK S : h \in Seq(S)
  BY DEF StackOK
<1>2. Len(h) \in Nat /\ Len(h) \in 2 .. Len(h) /\ Len(h) - 1 \in 1 .. Len(h)
  BY StackFacts DEF StackOK, Last, Program
<1>3. /\ StackOK(Front(h)) /\ Len(Front(h)) = Len(h) - 1
      /\ \A i \in 1 .. Len(h) - 1 : Front(h)[i] = h[i]
  BY <1>2, Kept DEF Front
<1> DEFINE g == Append(Front(h), f)
           e == [h EXCEPT ![Len(h)] = f]
<1>4. /\ StackOK(g) /\ Len(g) = Len(h) /\ g[Len(h)] = f
      /\ \A i \in 1 .. Len(h) - 1 : g[i] = h[i]
  BY <1>2, <1>3, Pushed
<1>5. /\ StackOK(e) /\ Len(e) = Len(h) /\ e[Len(h)] = f
      /\ \A i \in 1 .. Len(h) : i # Len(h) => e[i] = h[i]
  BY <1>2, Replaced
<1> HIDE DEF g, e
<1>6. PICK S1 : g \in Seq(S1)
  BY <1>4 DEF StackOK
<1>7. PICK S2 : e \in Seq(S2)
  BY <1>5 DEF StackOK
<1>8. g \in Seq(S1 \cup S2) /\ e \in Seq(S1 \cup S2)
  BY <1>6, <1>7, SeqMonotonic
<1>9. \A i \in 1 .. Len(g) : g[i] = e[i]
  BY <1>2, <1>4, <1>5
<1>10. g = e
  BY <1>4, <1>5, <1>8, <1>9, SeqEqual
<1> QED BY <1>10 DEF g, e

LEMMA ErrorMessageStep ==
    ASSUME IInv, NEW kind, ErrorMessage(kind)
    PROVE  IInv'
<1>1. CASE Throw(host, th, Running)
  BY <1>1, HostFacts, ThrowStep
<1>2. CASE DoCall(Append(Front(host), [Top EXCEPT !.handled = TRUE]), th, Running, kind)
  <2> DEFINE f == [Top EXCEPT !.handled = TRUE]
             h == [host EXCEPT ![Len(host)] = f]
  <2>1. Top.k = "error"
    BY DEF ErrorMessage
  <2>2. Alike(f, Top) /\ FrameOK(f) /\ f.L = Running /\ f.k # "program"
    BY <2>1, HostFacts DEF Alike, FrameOK, IsTry, Running
  <2> HIDE DEF f
  <2>3. Append(Front(host), f) = h
    BY <2>1, <2>2, ReplaceTop DEF IInv, Good, Top
  <2>4. Good(h, th, interp) /\ Len(h) = Len(host)
    BY <2>1, <2>2, HostFacts, EditFrame DEF IInv
  <2>5. Last(h).L = Running
    BY <2>2, <2>4, HostFacts DEF Last
  <2> QED BY <1>2, <2>3, <2>4, <2>5, DoCallGood DEF IInv, f
<1> QED BY <1>1, <1>2 DEF ErrorMessage

LEMMA ClrExceptionStep ==
    ASSUME IInv, ClrException
    PROVE  IInv'
BY CaughtGood DEF IInv, ClrException

(* Coroutines. *)
LEMMA ResumeThreadStep ==
    ASSUME IInv, NEW co \in Coroutines, ResumeThread(co)
    PROVE  IInv'
<1> DEFINE n == Level(Running, co)
<1>1. co \in Threads /\ ThreadsOK(th)
  BY HostFacts DEF Threads
<1>2. CASE th' = [th EXCEPT ![co] = ResumeError(@, n)] /\ host' = host
  <2>1. ThreadsOK(th') /\ \A L \in Threads : th'[L].jmp = th[L].jmp
    BY <1>1, <1>2 DEF ThreadsOK, ResumeError
  <2>2. interp' = interp
    BY DEF ResumeThread
  <2> QED BY <1>2, <2>1, <2>2, OtherFields DEF IInv
<1>3. CASE /\ th' = [th EXCEPT ![co] = Started(@, n)]
           /\ host' = host \o <<Resume(co, th[co]), Exec(co, Nexeccalls(th[co]), FALSE)>>
  <2> DEFINE f == Resume(co, th[co])
             e == Exec(co, Nexeccalls(th[co]), FALSE)
             h == Append(host, f)
  <2>1. /\ FrameOK(f) /\ f.k # "program" /\ IsTry(f) /\ f.k = "resume"
        /\ f.L = co /\ f.jmp = th[co].jmp
    BY <1>1 DEF FrameOK, IsTry, Resume
  <2>2. FrameOK(e) /\ e.k # "program" /\ ~IsTry(e) /\ ~IsManaged(e) /\ e.L = co
    BY <1>1 DEF FrameOK, IsTry, IsManaged, Exec
  <2>3. th'[co] = Started(th[co], n) /\ \A L \in Threads \ {co} : th'[L] = th[L]
    BY <1>1, <1>3 DEF ThreadsOK
  <2>4. "jmp" \in DOMAIN Started(th[co], n) /\ Started(th[co], n).jmp = Len(host) + 1
    BY <1>1 DEF ThreadsOK, Started
  <2>5. ThreadsOK(th')
    BY <1>1, <1>3, <2>3, <2>4 DEF ThreadsOK
  <2>6. host' = Append(h, e)
    <3>1. PICK S : host \in Seq(S)
      BY DEF IInv, Good, StackOK
    <3> DEFINE T == S \cup {f, e}
    <3>2. host \in Seq(T) /\ f \in T /\ e \in T
      BY <3>1, SeqMonotonic
    <3> HIDE DEF T, f, e
    <3>3. host \o <<f, e>> = Append(Append(host, f), e)
      BY <3>2
    <3> QED BY <1>3, <3>3 DEF f, e
  <2> HIDE DEF f, e
  <2>7. Good(h, th', interp)
    BY <2>1, <2>3, <2>4, <2>5, PushTry DEF IInv
  <2>8. Last(h).L = co
    <3>1. Len(h) = Len(host) + 1 /\ h[Len(host) + 1] = f
      BY <2>1, Pushed DEF IInv, Good
    <3> QED BY <2>1, <3>1 DEF Last
  <2>9. Good(Append(h, e), th', interp)
    BY <2>2, <2>7, <2>8, PushFrame
  <2>10. interp' = interp
    BY DEF ResumeThread
  <2> QED BY <2>6, <2>9, <2>10 DEF IInv
<1> QED BY <1>2, <1>3 DEF ResumeThread

LEMMA YieldStep ==
    ASSUME IInv, Yield
    PROVE  IInv'
<1>1. CASE host' = Append(host, Error(Running, FALSE, FALSE)) /\ UNCHANGED <<th, interp>>
  BY <1>1, RaiseErrorStep
<1>2. CASE /\ th' = [th EXCEPT ![Running].status = "yield"]
           /\ host' = Front(host)
           /\ interp' = IF IsManaged(Top) THEN Top.saved ELSE interp
  <2>1. Top.k # "program" /\ ~IsTry(Top)
    BY DEF Yield, IsTry
  <2>2. ThreadsOK(th') /\ \A L \in Threads : th'[L].jmp = th[L].jmp
    BY <1>2, HostFacts DEF ThreadsOK
  <2> QED BY <1>2, <2>1, <2>2, PopStep
<1> QED BY <1>1, <1>2 DEF Yield

(* Hooks and the collector. *)
LEMMA PushNoHook ==
    ASSUME IInv, NEW w
    PROVE  /\ Good(Append(host, NoHook(Running, th[Running], w)), [th EXCEPT ![Running].allow = FALSE], interp)
           /\ Last(Append(host, NoHook(Running, th[Running], w))).L = Running
<1> DEFINE f == NoHook(Running, th[Running], w)
           t == [th EXCEPT ![Running].allow = FALSE]
<1>1. FrameOK(f) /\ f.k # "program" /\ ~IsTry(f) /\ ~IsManaged(f) /\ f.L = Running
  BY HostFacts DEF FrameOK, IsTry, IsManaged, NoHook
<1>2. ThreadsOK(t) /\ \A L \in Threads : t[L].jmp = th[L].jmp
  BY HostFacts DEF ThreadsOK
<1> HIDE DEF f, t
<1>3. Good(Append(host, f), th, interp)
  BY <1>1, PushFrame DEF IInv, Running, Top
<1>4. Len(Append(host, f)) = Len(host) + 1 /\ Append(host, f)[Len(host) + 1] = f
  BY <1>1, Pushed DEF IInv, Good
<1>5. Good(Append(host, f), t, interp)
  BY <1>2, <1>3, OtherFields
<1> QED BY <1>1, <1>4, <1>5 DEF Last, f, t

LEMMA CallHookStep ==
    ASSUME IInv, CallHook
    PROVE  IInv'
BY PushNoHook DEF IInv, CallHook

LEMMA CallGCTMStep ==
    ASSUME IInv, NEW kind, CallGCTM(kind)
    PROVE  IInv'
<1> DEFINE h == Append(host, NoHook(Running, th[Running], "gc"))
           t == [th EXCEPT ![Running].allow = FALSE]
<1>1. DoCall(h, t, Running, kind)
  BY DEF CallGCTM
<1>2. Good(h, t, interp) /\ Last(h).L = Running
  BY PushNoHook
<1> HIDE DEF h, t
<1> QED BY <1>1, <1>2, DoCallGood DEF IInv

LEMMA NextIInv == IInv /\ [Next]_vars => IInv'
<1> SUFFICES ASSUME IInv, [Next]_vars PROVE IInv'
  OBVIOUS
<1>1. CASE Next
  <2>1. CASE \E kind \in Kinds :
                \/ CallFunction(kind) \/ ErrorMessage(kind) \/ CallGCTM(kind)
                \/ \E e \in BOOLEAN : ProtectedCall(kind, e)
    BY <2>1, CallFunctionStep, ErrorMessageStep, CallGCTMStep, ProtectedCallStep
  <2>2. CASE \E kind \in Kinds \ {"lua"} : OpCallC(kind)
    BY <2>2, OpCallCStep
  <2>3. CASE OpCallLua \/ OpReturn \/ CReturns \/ PcallReturns
    BY <2>3, OpCallLuaStep, OpReturnStep, CReturnsStep, PcallReturnsStep
  <2>4. CASE RaiseError
    BY <2>4, RaiseErrorStep DEF RaiseError
  <2>5. CASE HandlerReturns \/ MemoryError
    BY <2>5, HostFacts, ThrowStep DEF HandlerReturns, MemoryError
  <2>6. CASE ClrException
    BY <2>6, ClrExceptionStep
  <2>7. CASE \E co \in Coroutines : ResumeThread(co) \/ ResumeNoMemory(co)
    BY <2>7, ResumeThreadStep, ThrowStep DEF ResumeNoMemory, Threads
  <2>8. CASE Yield \/ ExecYields \/ ResumeReturns
    BY <2>8, YieldStep, ExecYieldsStep, ResumeReturnsStep
  <2>9. CASE CallHook \/ NoHookReturns
    BY <2>9, CallHookStep, NoHookReturnsStep
  <2> QED BY <1>1, <2>1, <2>2, <2>3, <2>4, <2>5, <2>6, <2>7, <2>8, <2>9 DEF Next
<1>2. CASE UNCHANGED vars
  BY <1>2 DEF vars, IInv
<1> QED BY <1>1, <1>2

(* The frames of the host stack and the fields of the threads agree, in    *)
(* every state: see Good.                                                  *)
THEOREM Invariance == Spec => []IInv
BY InitIInv, NextIInv, PTL DEF Spec

LEMMA LinkedIsLastTry ==
    ASSUME IInv, NEW L \in Threads, NEW n \in 1 .. Len(host) + 1, NEW m, LinkedAt(host, L, n, m)
    PROVE  LastTry(L, n) = m
<1> DEFINE I == {i \in Tries(L) : i < n}
<1>1. \A i \in I : i \in 1 .. n - 1 /\ i <= m
  BY HostFacts DEF Tries, LinkedAt
<1>2. CASE m = 0
  BY <1>1, <1>2 DEF LastTry
<1>3. CASE m # 0
  <2>1. m \in I
    BY <1>3, HostFacts DEF Tries, LinkedAt
  <2>2. I # {} /\ I \in SUBSET (1 .. Len(host))
    BY <1>1, <2>1, HostFacts
  <2> HIDE DEF I
  <2>3. Max(I) \in I /\ \A j \in I : Max(I) >= j
    BY <2>2, HostFacts, Largest
  <2>4. Max(I) = m
    BY <1>1, <2>1, <2>3, HostFacts
  <2> QED BY <2>2, <2>4 DEF LastTry, I
<1> QED BY <1>2, <1>3

(* An error arrives at the handler it was thrown at: the chain through     *)
(* errorJmp of each thread is its protected calls on the host stack, and   *)
(* that of the running thread starts with the innermost of all.            *)
THEOREM ErrorsArrive == Spec => []HandlersMatch
<1>1. IInv => HandlersMatch
  <2> SUFFICES ASSUME IInv PROVE HandlersMatch
    OBVIOUS
  <2>1. th[Running].jmp = Innermost(host)
    BY InnermostIsOwn DEF IInv, Running, Top
  <2>2. ASSUME NEW L \in Threads PROVE th[L].jmp = LastTry(L, Len(host) + 1)
    <3>1. LinkedAt(host, L, Len(host) + 1, th[L].jmp)
      BY DEF IInv, Good, Linked
    <3> QED BY <3>1, HostFacts, LinkedIsLastTry
  <2>3. ASSUME NEW L \in Threads, NEW i \in Tries(L) PROVE host[i].jmp = LastTry(L, i)
    <3>1. i \in DOMAIN host /\ LinkedAt(host, L, i, host[i].jmp)
      BY DEF IInv, Good, Linked, Tries
    <3>2. i \in 1 .. Len(host) + 1
      BY <3>1, HostFacts
    <3> QED BY <3>1, <3>2, LinkedIsLastTry
  <2> QED BY <2>1, <2>2, <2>3 DEF HandlersMatch
<1> QED BY <1>1, Invariance, PTL

(* Lua._L is the thread of the managed function that was entered last,     *)
(* after every return, error, exception and yield.                         *)
THEOREM LuaIsCurrent == Spec => []CurrentThread
<1>1. IInv => CurrentThread
  <2> SUFFICES ASSUME IInv PROVE CurrentThread
    OBVIOUS
  <2> DEFINE S == {i \in DOMAIN host : host[i] = Program \/ IsManaged(host[i])}
             m == Max(S)
  <2>1. host[1] = Program /\ \A i \in DOMAIN host : i # 1 => host[i].k # "program"
    BY DEF IInv, Good, StackOK
  <2>2. S \in SUBSET (1 .. Len(host)) /\ 1 \in S /\ S # {}
    BY <2>1, HostFacts
  <2>3. m \in S /\ \A j \in S : m >= j
    <3> HIDE DEF S
    <3> QED BY <2>2, HostFacts, Largest
  <2> HIDE DEF m
  <2>4. m \in 1 .. Len(host) /\ (m = 1 \/ IsManaged(host[m]))
    BY <2>1, <2>3, HostFacts DEF Program
  <2>5. \A j \in m + 1 .. Len(host) : ~IsManaged(host[j])
    <3>1. SUFFICES ASSUME NEW j \in m + 1 .. Len(host), IsManaged(host[j]) PROVE FALSE
      OBVIOUS
    <3>2. j \in S /\ j > m
      BY <2>4, <3>1, HostFacts
    <3> QED BY <2>3, <2>4, <3>2
  <2>6. EnteredAt(host, Len(host) + 1, interp)
    BY DEF IInv, Good, Entered
  <2>7. host[m].L = interp
    BY <2>4, <2>5, <2>6, HostFacts DEF EnteredAt
  <2> QED BY <2>7 DEF CurrentThread, m
<1> QED BY <1>1, Invariance, PTL

-----------------------------------------------------------------------------
(* The levels of nCcalls. *)

(* The C calls among the first n frames. *)
Count(h, n) == Cardinality({i \in 1 .. n : Counts(h[i])})

FrameFields(f) ==
    /\ f.k \in {"exec", "error"} => "called" \in DOMAIN f
    /\ f.k = "pcall" => "nC" \in DOMAIN f
FieldsOK(h, t) ==
    /\ \A i \in DOMAIN h : FrameFields(h[i])
    /\ \A L \in Threads : {"status", "ci", "nC", "base", "body", "jmp"} \subseteq DOMAIN t[L]

(* A thread is resumed once: its frames lie together.                      *)
Apart(h) ==
    \A i, j \in DOMAIN h :
        i <= j /\ h[i].L = h[j].L => \A n \in i + 1 .. j : h[n].k # "resume"

(* What luaD_call did not enter lies on what called it.                    *)
Placed(h) ==
    \A i \in DOMAIN h :
        /\ h[i].k = "exec" /\ ~h[i].called => h[i - 1].k = "resume"
        /\ h[i].k = "c" /\ ~h[i].called => h[i - 1].k = "exec"
        /\ h[i].k = "resume" => h[i].L \in Coroutines

(* What is left of a thread that yields, and of one that has started.      *)
Light(f) == f.k = "resume" \/ (f.k = "exec" /\ ~f.called)
Leaving(h, t) ==
    /\ \A L \in Threads : t[L].status = "yield" =>
          \A i \in DOMAIN h : h[i].L = L => Light(h[i]) /\ L = Last(h).L
    /\ \A i \in DOMAIN h : h[i].k = "resume" => ~t[h[i].L].body

(* nCcalls and baseCcalls, where they will be used again.                  *)
LevelsBelow(h, t) ==
    /\ t[Main].base = 0
    /\ \A i \in DOMAIN h :
          /\ h[i].k = "resume" => t[h[i].L].base = Count(h, i) /\ t[h[i - 1].L].nC = Count(h, i - 1)
          /\ h[i].k = "pcall" => h[i].nC = Count(h, i - 1)
          /\ Count(h, i) < MaxCCalls + ExtraCCalls

(* All but the level of the thread that runs.                              *)
Below(h, t) ==
    FieldsOK(h, t) /\ Apart(h) /\ Placed(h) /\ Leaving(h, t) /\ LevelsBelow(h, t)
Steady(h, t) == Below(h, t) /\ t[Last(h).L].nC = Count(h, Len(h))

-----------------------------------------------------------------------------
(* Counting. *)

LEMMA CountType ==
    ASSUME NEW h, NEW n \in Nat
    PROVE  /\ IsFiniteSet({i \in 1 .. n : Counts(h[i])})
           /\ Count(h, n) \in Nat
<1>1. IsFiniteSet(1 .. n)
  BY FS_Interval
<1>2. {i \in 1 .. n : Counts(h[i])} \in SUBSET (1 .. n)
  OBVIOUS
<1> HIDE DEF Counts
<1>3. IsFiniteSet({i \in 1 .. n : Counts(h[i])})
  BY <1>1, <1>2, FS_Subset
<1> QED BY <1>3, FS_CardinalityType DEF Count

LEMMA CountZero ==
    ASSUME NEW h
    PROVE  Count(h, 0) = 0
<1>1. {i \in 1 .. 0 : Counts(h[i])} = {}
  OBVIOUS
<1> QED BY <1>1, FS_EmptySet DEF Count

LEMMA CountNext ==
    ASSUME NEW h, NEW n \in Nat
    PROVE  Count(h, n + 1) = Count(h, n) + (IF Counts(h[n + 1]) THEN 1 ELSE 0)
<1> DEFINE S == {i \in 1 .. n : Counts(h[i])}
           T == {i \in 1 .. n + 1 : Counts(h[i])}
<1>1. IsFiniteSet(S) /\ Cardinality(S) \in Nat /\ n + 1 \notin S
  BY CountType DEF Count
<1>2. CASE Counts(h[n + 1])
  <2>1. T = S \cup {n + 1}
    BY <1>2
  <2>2. Cardinality(T) = Cardinality(S) + 1
    <3> HIDE DEF S, T
    <3> QED BY <1>1, <2>1, FS_AddElement
  <2> QED BY <1>2, <2>2 DEF Count
<1>3. CASE ~Counts(h[n + 1])
  <2>1. T = S
    BY <1>3
  <2>2. Count(h, n + 1) = Cardinality(T) /\ Count(h, n) = Cardinality(S)
    BY DEF Count
  <2> HIDE DEF S, T
  <2> QED BY <1>1, <1>3, <2>1, <2>2
<1> QED BY <1>2, <1>3

LEMMA CountSame ==
    ASSUME NEW g, NEW h, NEW n \in Nat, \A i \in 1 .. n : Counts(g[i]) <=> Counts(h[i])
    PROVE  Count(g, n) = Count(h, n)
<1>1. {i \in 1 .. n : Counts(g[i])} = {i \in 1 .. n : Counts(h[i])}
  OBVIOUS
<1> QED BY <1>1 DEF Count

LEMMA CountLess ==
    ASSUME NEW h, NEW n \in Nat, NEW m \in Nat, NEW j \in n + 1 .. m, Counts(h[j])
    PROVE  Count(h, n) < Count(h, m)
<1> DEFINE S == {i \in 1 .. n : Counts(h[i])}
           T == {i \in 1 .. m : Counts(h[i])}
<1>1. IsFiniteSet(T) /\ S \in SUBSET T /\ j \in T /\ j \notin S
  BY CountType
<1>2. Count(h, n) = Cardinality(S) /\ Count(h, m) = Cardinality(T)
  BY DEF Count
<1>3. Cardinality(S) \in Nat /\ Cardinality(T) \in Nat
  BY CountType DEF Count
<1> HIDE DEF S, T
<1>4. Cardinality(S) <= Cardinality(T) /\ Cardinality(S) # Cardinality(T)
  BY <1>1, FS_Subset
<1> QED BY <1>2, <1>3, <1>4

-----------------------------------------------------------------------------
(* What Below says of frames is kept where they are kept. *)
Counted(g, f) ==
    /\ Alike(g, f)
    /\ f.k \in {"exec", "c", "error"} => g.called = f.called
    /\ f.k = "pcall" => g.nC = f.nC

LEMMA FramesKept ==
    ASSUME NEW h, StackOK(h), Apart(h), Placed(h), NEW g, StackOK(g),
           NEW n \in Nat, n <= Len(h), n <= Len(g), \A i \in 1 .. n : Counted(g[i], h[i])
    PROVE  /\ \A i \in 0 .. n : Count(g, i) = Count(h, i)
           /\ \A i, j \in 1 .. n :
                 i <= j /\ g[i].L = g[j].L => \A m \in i + 1 .. j : g[m].k # "resume"
           /\ \A i \in 1 .. n :
                 /\ g[i].k = "exec" /\ ~g[i].called => g[i - 1].k = "resume"
                 /\ g[i].k = "c" /\ ~g[i].called => g[i - 1].k = "exec"
                 /\ g[i].k = "resume" => g[i].L \in Coroutines
<1>1. 1 .. n \subseteq DOMAIN h /\ h[1] = Program
  BY StackFacts DEF StackOK
<1>2. \A i \in 1 .. n :
         /\ g[i].k = h[i].k /\ g[i].L = h[i].L
         /\ h[i].k \in {"exec", "c", "error"} => g[i].called = h[i].called
  BY DEF Counted, Alike
<1>3. \A i \in 1 .. n : Counts(g[i]) <=> Counts(h[i])
  BY <1>2 DEF Counts, Called
<1>4. \A i \in 0 .. n : Count(g, i) = Count(h, i)
  BY <1>3, CountSame
<1>5. ASSUME NEW i \in 1 .. n, NEW j \in 1 .. n, i <= j, g[i].L = g[j].L, NEW m \in i + 1 .. j
      PROVE  g[m].k # "resume"
  <2>1. h[i].L = h[j].L /\ m \in 1 .. n
    BY <1>2, <1>5
  <2>2. h[m].k # "resume"
    BY <1>1, <1>5, <2>1 DEF Apart
  <2> QED BY <1>2, <2>1, <2>2
<1>6. ASSUME NEW i \in 1 .. n
      PROVE  /\ g[i].k = "exec" /\ ~g[i].called => g[i - 1].k = "resume"
             /\ g[i].k = "c" /\ ~g[i].called => g[i - 1].k = "exec"
             /\ g[i].k = "resume" => g[i].L \in Coroutines
  <2>1. CASE i = 1
    BY <1>1, <1>2, <2>1 DEF Program
  <2>2. CASE i # 1
    <3>1. i \in DOMAIN h /\ i - 1 \in 1 .. n
      BY <1>1, <2>2
    <3> QED BY <1>2, <3>1 DEF Placed
  <2> QED BY <2>1, <2>2
<1> QED BY <1>4, <1>5, <1>6

(* A frame is pushed, by the thread that runs or by lua_resume for one     *)
(* that does not.                                                          *)
LEMMA PushCounted ==
    ASSUME NEW h, StackOK(h), NEW t, Steady(h, t),
           NEW f, FrameOK(f), FrameFields(f), f.k # "program",
           NEW u, FieldsOK(h, u),
           \A L \in Threads : L # f.L => u[L] = t[L],
           t[Last(h).L].status # "yield", u[f.L].status # "yield",
           u[f.L].nC = Count(h, Len(h)) + (IF Counts(f) THEN 1 ELSE 0),
           u[f.L].nC < MaxCCalls + ExtraCCalls,
           f.k = "exec" /\ ~f.called => Last(h).k = "resume",
           f.k = "c" /\ ~f.called => Last(h).k = "exec",
           f.k = "pcall" => f.nC = Count(h, Len(h)),
           \/ /\ f.k # "resume" /\ f.L = Last(h).L
              /\ u[f.L].base = t[f.L].base /\ u[f.L].body = t[f.L].body
           \/ /\ f.k = "resume" /\ f.L \in Coroutines
              /\ \A i \in DOMAIN h : h[i].L # f.L
              /\ u[f.L].base = u[f.L].nC /\ ~u[f.L].body
    PROVE  Steady(Append(h, f), u) /\ Last(Append(h, f)) = f
<1> DEFINE g == Append(h, f)
           N == Len(h)
<1>1. /\ StackOK(g) /\ Len(g) = N + 1 /\ g[N + 1] = f /\ \A i \in 1 .. N : g[i] = h[i]
      /\ N \in Nat \ {0} /\ DOMAIN h = 1 .. N /\ DOMAIN g = 1 .. N + 1
  BY Pushed, StackFacts
<1>2. /\ FieldsOK(h, t) /\ Apart(h) /\ Placed(h) /\ Leaving(h, t) /\ LevelsBelow(h, t)
      /\ t[Last(h).L].nC = Count(h, N) /\ Last(h) = h[N] /\ f.L \in Threads
  BY DEF Steady, Below, Last, FrameOK
<1>3. f.k = "resume" => ~(\E i \in 1 .. N : h[i].L = f.L)
  BY <1>1
<1>4. f.k # "resume" => f.L = h[N].L
  BY <1>2
<1> HIDE DEF g, N
<1>5. /\ \A i \in 0 .. N : Count(g, i) = Count(h, i)
      /\ \A i, j \in 1 .. N :
            i <= j /\ g[i].L = g[j].L => \A m \in i + 1 .. j : g[m].k # "resume"
      /\ \A i \in 1 .. N :
            /\ g[i].k = "exec" /\ ~g[i].called => g[i - 1].k = "resume"
            /\ g[i].k = "c" /\ ~g[i].called => g[i - 1].k = "exec"
            /\ g[i].k = "resume" => g[i].L \in Coroutines
  <2>1. \A i \in 1 .. N : Counted(g[i], h[i])
    BY <1>1 DEF Counted, Alike
  <2> QED BY <1>1, <1>2, <2>1, FramesKept DEF N
<1>6. Count(g, N + 1) = u[f.L].nC
  <2>1. N \in 0 .. N /\ N \in Nat
    BY <1>1
  <2>2. Count(g, N + 1) = Count(g, N) + (IF Counts(g[N + 1]) THEN 1 ELSE 0)
    BY <2>1, CountNext
  <2>3. Count(g, N) = Count(h, N) /\ g[N + 1] = f
    BY <1>1, <1>5, <2>1
  <2> HIDE DEF Counts
  <2> QED BY <2>2, <2>3 DEF N
<1>7. FieldsOK(g, u)
  BY <1>1, <1>2 DEF FieldsOK
<1>8. Apart(g)
  <2>1. SUFFICES ASSUME NEW i \in DOMAIN g, NEW j \in DOMAIN g, i <= j, g[i].L = g[j].L,
                        NEW m \in i + 1 .. j
                 PROVE  g[m].k # "resume"
    BY DEF Apart
  <2>2. CASE j \in 1 .. N
    BY <1>1, <1>5, <2>1, <2>2
  <2>3. CASE j = N + 1
    <3>1. i \in 1 .. N /\ h[i].L = f.L
      BY <1>1, <2>1, <2>3
    <3>2. f.k # "resume" /\ h[N].L = h[i].L
      BY <1>3, <1>4, <3>1
    <3>3. CASE m = N + 1
      BY <1>1, <3>2, <3>3
    <3>4. CASE m # N + 1
      <4>1. i \in DOMAIN h /\ N \in DOMAIN h /\ i <= N /\ m \in i + 1 .. N /\ m \in 1 .. N
        BY <1>1, <2>1, <2>3, <3>1, <3>4
      <4>2. h[m].k # "resume"
        BY <1>2, <3>2, <4>1 DEF Apart
      <4> QED BY <1>1, <4>1, <4>2
    <3> QED BY <3>3, <3>4
  <2> QED BY <1>1, <2>2, <2>3
<1>9. Placed(g)
  <2>1. N \in 1 .. N /\ g[N] = h[N] /\ N + 1 - 1 = N
    BY <1>1
  <2>2. /\ f.k = "exec" /\ ~f.called => g[N].k = "resume"
        /\ f.k = "c" /\ ~f.called => g[N].k = "exec"
        /\ f.k = "resume" => f.L \in Coroutines
    BY <1>2, <2>1
  <2>3. \A i \in DOMAIN g : i \in 1 .. N \/ i = N + 1
    BY <1>1
  <2> QED BY <1>1, <1>5, <2>1, <2>2, <2>3 DEF Placed
<1>10. Leaving(g, u)
  <2>1. ASSUME NEW L \in Threads, u[L].status = "yield", NEW i \in DOMAIN g, g[i].L = L
        PROVE  FALSE
    <3>1. L # f.L /\ i \in 1 .. N /\ h[i].L = L /\ t[L].status = "yield"
      BY <1>1, <2>1
    <3> QED BY <1>1, <1>2, <3>1 DEF Leaving
  <2>2. ASSUME NEW i \in DOMAIN g, g[i].k = "resume" PROVE ~u[g[i].L].body
    <3>1. CASE i = N + 1
      BY <1>1, <2>2, <3>1
    <3>2. CASE i # N + 1
      <4>1. i \in DOMAIN h /\ g[i] = h[i] /\ h[i].L \in Threads
        BY <1>1, <3>2 DEF StackOK, FrameOK
      <4>2. ~t[h[i].L].body
        BY <1>2, <2>2, <4>1 DEF Leaving
      <4>3. h[i].L = f.L => f.k # "resume"
        BY <1>1, <1>3, <4>1
      <4> QED BY <4>1, <4>2, <4>3
    <3> QED BY <3>1, <3>2
  <2> QED BY <2>1, <2>2 DEF Leaving
<1>11. LevelsBelow(g, u)
  <2>1. u[Main].base = 0
    <3>1. Main \in Threads /\ Main \notin Coroutines
      BY ThreadsAssumption DEF Threads
    <3> QED BY <1>2, <3>1 DEF LevelsBelow
  <2>2. ASSUME NEW i \in 1 .. N
        PROVE  /\ g[i].k = "resume" => u[g[i].L].base = Count(g, i) /\ u[g[i - 1].L].nC = Count(g, i - 1)
               /\ g[i].k = "pcall" => g[i].nC = Count(g, i - 1)
               /\ Count(g, i) < MaxCCalls + ExtraCCalls
    <3>1. i \in DOMAIN h /\ g[i] = h[i] /\ Count(g, i) = Count(h, i) /\ Count(g, i - 1) = Count(h, i - 1)
      BY <1>1, <1>5
    <3>2. CASE g[i].k # "resume"
      BY <1>2, <3>1, <3>2 DEF LevelsBelow
    <3>3. CASE g[i].k = "resume"
      <4>1. i \in 2 .. N /\ i - 1 \in 1 .. N /\ g[i - 1] = h[i - 1]
        BY <1>1, <3>3 DEF StackOK, Program
      <4>2. h[i].L \in Threads /\ h[i - 1].L \in Threads
        BY <1>1, <4>1 DEF StackOK, FrameOK
      <4>3. t[h[i].L].base = Count(h, i) /\ t[h[i - 1].L].nC = Count(h, i - 1)
        BY <1>2, <3>1, <3>3 DEF LevelsBelow
      <4>4. h[i - 1].L # f.L
        <5>1. CASE f.k = "resume"
          BY <1>3, <4>1, <5>1
        <5>2. CASE f.k # "resume"
          <6>1. i - 1 \in DOMAIN h /\ N \in DOMAIN h /\ i - 1 <= N /\ i \in i - 1 + 1 .. N
            BY <1>1, <4>1
          <6>2. h[i - 1].L # h[N].L
            BY <1>2, <3>1, <3>3, <6>1 DEF Apart
          <6> QED BY <1>4, <5>2, <6>2
        <5> QED BY <5>1, <5>2
      <4>5. u[h[i].L].base = t[h[i].L].base
        BY <1>3, <4>2, <3>1, <1>1
      <4>6. u[h[i - 1].L].nC = t[h[i - 1].L].nC
        BY <4>2, <4>4
      <4>7. Count(h, i) < MaxCCalls + ExtraCCalls
        BY <1>2, <3>1 DEF LevelsBelow
      <4> QED BY <3>1, <3>3, <4>1, <4>3, <4>5, <4>6, <4>7
    <3> QED BY <3>2, <3>3
  <2>3. /\ f.k = "resume" => u[f.L].base = Count(g, N + 1) /\ u[g[N].L].nC = Count(g, N)
        /\ f.k = "pcall" => f.nC = Count(g, N)
        /\ Count(g, N + 1) < MaxCCalls + ExtraCCalls
    <3>1. N \in 1 .. N /\ Count(g, N) = Count(h, N) /\ g[N] = h[N] /\ h[N].L \in Threads
      BY <1>1, <1>5 DEF StackOK, FrameOK
    <3>2. f.k = "resume" => u[h[N].L] = t[h[N].L]
      BY <1>3, <3>1
    <3> QED BY <1>2, <1>6, <3>1, <3>2 DEF N
  <2>4. \A i \in DOMAIN g : i \in 1 .. N \/ i = N + 1
    BY <1>1
  <2>5. N + 1 - 1 = N
    BY <1>1
  <2> QED BY <1>1, <2>1, <2>2, <2>3, <2>4, <2>5 DEF LevelsBelow
<1>12. Last(g) = f
  BY <1>1 DEF Last
<1> QED BY <1>1, <1>6, <1>7, <1>8, <1>9, <1>10, <1>11, <1>12 DEF Steady, Below, g

(* The last frame ends and is no lua_resume. *)
LEMMA PopCounted ==
    ASSUME NEW h, StackOK(h), Together(h), NEW t, Steady(h, t),
           Last(h).k \notin {"program", "resume"},
           NEW u, FieldsOK(h, u),
           \A L \in Threads : L # Last(h).L => u[L] = t[L],
           u[Last(h).L].base = t[Last(h).L].base, u[Last(h).L].body = t[Last(h).L].body,
           u[Last(h).L].nC = t[Last(h).L].nC - (IF Counts(Last(h)) THEN 1 ELSE 0),
           u[Last(h).L].status = "yield" =>
               \A i \in 1 .. Len(h) - 1 : h[i].L = Last(h).L => Light(h[i])
    PROVE  Steady(Front(h), u)
<1> DEFINE g == Front(h)
           N == Len(h)
           R == Last(h).L
<1>1. N \in Nat \ {0} /\ DOMAIN h = 1 .. N /\ N # 1 /\ Last(h) = h[N] /\ h[1] = Program
  BY StackFacts DEF StackOK, Last, Program
<1>2. StackOK(g) /\ Len(g) = N - 1 /\ \A i \in 1 .. N - 1 : g[i] = h[i]
  BY <1>1, Kept DEF Front
<1>3. DOMAIN g = 1 .. N - 1 /\ N - 1 \in 1 .. N - 1 /\ N - 1 \in Nat /\ 1 .. N - 1 \subseteq 1 .. N
  BY <1>1, <1>2, StackFacts
<1>4. /\ FieldsOK(h, t) /\ Apart(h) /\ Placed(h) /\ Leaving(h, t) /\ LevelsBelow(h, t)
      /\ t[R].nC = Count(h, N) /\ R \in Threads
  BY <1>1 DEF Steady, Below, StackOK, FrameOK
<1> HIDE DEF g, N, R
<1>5. /\ \A i \in 0 .. N - 1 : Count(g, i) = Count(h, i)
      /\ \A i, j \in 1 .. N - 1 :
            i <= j /\ g[i].L = g[j].L => \A m \in i + 1 .. j : g[m].k # "resume"
      /\ \A i \in 1 .. N - 1 :
            /\ g[i].k = "exec" /\ ~g[i].called => g[i - 1].k = "resume"
            /\ g[i].k = "c" /\ ~g[i].called => g[i - 1].k = "exec"
            /\ g[i].k = "resume" => g[i].L \in Coroutines
  <2>1. \A i \in 1 .. N - 1 : Counted(g[i], h[i])
    BY <1>2 DEF Counted, Alike
  <2> DEFINE n == N - 1
  <2>2. n \in Nat /\ n <= Len(h) /\ n <= Len(g)
    BY <1>1, <1>2 DEF N
  <2> HIDE DEF n
  <2>3. \A i \in 1 .. n : Counted(g[i], h[i])
    BY <2>1 DEF n
  <2>4. /\ \A i \in 0 .. n : Count(g, i) = Count(h, i)
        /\ \A i, j \in 1 .. n :
              i <= j /\ g[i].L = g[j].L => \A m \in i + 1 .. j : g[m].k # "resume"
        /\ \A i \in 1 .. n :
              /\ g[i].k = "exec" /\ ~g[i].called => g[i - 1].k = "resume"
              /\ g[i].k = "c" /\ ~g[i].called => g[i - 1].k = "exec"
              /\ g[i].k = "resume" => g[i].L \in Coroutines
    BY <1>2, <1>4, <2>2, <2>3, FramesKept
  <2> QED BY <2>4 DEF n
<1>6. Last(g).L = R /\ Last(g) = h[N - 1]
  <2>1. N - 1 \in DOMAIN h /\ N \in DOMAIN h /\ N - 1 <= N
    BY <1>1
  <2>2. \A m \in N - 1 + 1 .. N : h[m].k # "resume"
    BY <1>1
  <2>3. h[N - 1].L = h[N].L
    BY <2>1, <2>2 DEF Together
  <2> QED BY <1>1, <1>2, <1>3, <2>3 DEF Last, R
<1>7. u[R].nC = Count(g, N - 1)
  <2>1. Count(h, N - 1 + 1) = Count(h, N - 1) + (IF Counts(h[N - 1 + 1]) THEN 1 ELSE 0)
    BY <1>3, CountNext
  <2>2. N - 1 + 1 = N /\ N - 1 \in 0 .. N - 1
    BY <1>1
  <2>3. Count(h, N - 1) \in Nat
    BY <1>3, CountType
  <2>4. u[R].nC = Count(h, N) - (IF Counts(h[N]) THEN 1 ELSE 0)
    BY <1>1, <1>4 DEF R
  <2>5. Count(h, N) = Count(h, N - 1) + (IF Counts(h[N]) THEN 1 ELSE 0)
    BY <2>1, <2>2
  <2>6. Count(g, N - 1) = Count(h, N - 1)
    BY <1>5, <2>2
  <2> HIDE DEF Counts
  <2> QED BY <2>3, <2>4, <2>5, <2>6
<1>8. \A L \in Threads : u[L].base = t[L].base /\ u[L].body = t[L].body /\ (L # R => u[L] = t[L])
  BY DEF R
<1>9. Leaving(g, u)
  <2>1. ASSUME NEW L \in Threads, u[L].status = "yield", NEW i \in DOMAIN g, g[i].L = L
        PROVE  Light(g[i]) /\ L = Last(g).L
    <3>1. i \in DOMAIN h /\ g[i] = h[i]
      BY <1>1, <1>2, <1>3
    <3>2. CASE L = R
      BY <1>3, <1>6, <2>1, <3>1, <3>2 DEF N, R
    <3>3. CASE L # R
      BY <1>4, <1>8, <2>1, <3>1, <3>3 DEF Leaving, R
    <3> QED BY <3>2, <3>3
  <2>2. ASSUME NEW i \in DOMAIN g, g[i].k = "resume" PROVE ~u[g[i].L].body
    <3>1. i \in DOMAIN h /\ g[i] = h[i] /\ h[i].L \in Threads
      BY <1>1, <1>2, <1>3 DEF StackOK, FrameOK
    <3> QED BY <1>4, <1>8, <2>2, <3>1 DEF Leaving
  <2> QED BY <2>1, <2>2 DEF Leaving
<1>10. LevelsBelow(g, u)
  <2>1. u[Main].base = 0
    BY <1>4, <1>8 DEF LevelsBelow, Threads
  <2>2. ASSUME NEW i \in DOMAIN g
        PROVE  /\ g[i].k = "resume" => u[g[i].L].base = Count(g, i) /\ u[g[i - 1].L].nC = Count(g, i - 1)
               /\ g[i].k = "pcall" => g[i].nC = Count(g, i - 1)
               /\ Count(g, i) < MaxCCalls + ExtraCCalls
    <3>1. /\ i \in DOMAIN h /\ g[i] = h[i]
          /\ Count(g, i) = Count(h, i) /\ Count(g, i - 1) = Count(h, i - 1)
      BY <1>1, <1>2, <1>3, <1>5
    <3>2. CASE g[i].k # "resume"
      BY <1>4, <3>1, <3>2 DEF LevelsBelow
    <3>3. CASE g[i].k = "resume"
      <4>1. i - 1 \in DOMAIN h /\ g[i - 1] = h[i - 1] /\ i - 1 <= N /\ N \in DOMAIN h /\ i \in i - 1 + 1 .. N
        BY <1>1, <1>2, <1>3, <3>1, <3>3 DEF Program
      <4>2. h[i - 1].L # R
        BY <1>1, <1>4, <3>1, <3>3, <4>1 DEF Apart, R
      <4>3. h[i].L \in Threads /\ h[i - 1].L \in Threads
        BY <3>1, <4>1 DEF StackOK, FrameOK
      <4>4. t[h[i].L].base = Count(h, i) /\ t[h[i - 1].L].nC = Count(h, i - 1) /\ Count(h, i) < MaxCCalls + ExtraCCalls
        BY <1>4, <3>1, <3>3 DEF LevelsBelow
      <4> QED BY <1>8, <3>1, <3>3, <4>1, <4>2, <4>3, <4>4
    <3> QED BY <3>2, <3>3
  <2> QED BY <2>1, <2>2 DEF LevelsBelow
<1>11. FieldsOK(g, u) /\ Apart(g) /\ Placed(g)
  BY <1>1, <1>2, <1>3, <1>5 DEF FieldsOK, Apart, Placed
<1> QED BY <1>2, <1>6, <1>7, <1>9, <1>10, <1>11 DEF Steady, Below, g

(* The host stack is cut before a protected call of the running thread,    *)
(* which returns or catches an error.                                      *)
LEMMA CutCounted ==
    ASSUME NEW h, StackOK(h), Together(h), NEW t, Below(h, t),
           NEW i \in 2 .. Len(h), IsTry(h[i]), h[i].L = Last(h).L,
           NEW u, FieldsOK(h, u),
           \A L \in Threads : L # h[i].L => u[L] = t[L],
           h[i].k = "pcall" =>
               /\ u[h[i].L].base = t[h[i].L].base /\ u[h[i].L].body = t[h[i].L].body
               /\ u[h[i].L].status = t[h[i].L].status
               /\ u[h[i].L].nC = h[i].nC,
           h[i].k = "resume" => u[h[i].L].status # "yield" \/ t[h[i].L].status = "yield"
    PROVE  Steady(SubSeq(h, 1, i - 1), u)
<1> DEFINE g == SubSeq(h, 1, i - 1)
           N == Len(h)
           n == i - 1
           R == h[i].L
<1>1. /\ N \in Nat \ {0} /\ DOMAIN h = 1 .. N /\ h[1] = Program
      /\ n \in 1 .. N /\ n \in Nat /\ i \in DOMAIN h /\ n + 1 = i /\ i - 1 = n /\ n <= N
  BY StackFacts DEF StackOK
<1>2. StackOK(g) /\ Len(g) = n /\ \A j \in 1 .. n : g[j] = h[j]
  BY <1>1, Kept
<1>3. DOMAIN g = 1 .. n
  BY <1>2, StackFacts
<1>4. /\ FieldsOK(h, t) /\ Apart(h) /\ Placed(h) /\ Leaving(h, t) /\ LevelsBelow(h, t)
      /\ R \in Threads /\ h[i].k \in {"pcall", "resume"} /\ R = Last(h).L
  BY <1>1 DEF Below, StackOK, FrameOK, IsTry
<1> HIDE DEF g, N, R, n
<1>5. /\ \A j \in 0 .. n : Count(g, j) = Count(h, j)
      /\ \A j, l \in 1 .. n :
            j <= l /\ g[j].L = g[l].L => \A m \in j + 1 .. l : g[m].k # "resume"
      /\ \A j \in 1 .. n :
            /\ g[j].k = "exec" /\ ~g[j].called => g[j - 1].k = "resume"
            /\ g[j].k = "c" /\ ~g[j].called => g[j - 1].k = "exec"
            /\ g[j].k = "resume" => g[j].L \in Coroutines
  <2>1. \A j \in 1 .. n : Counted(g[j], h[j])
    BY <1>2 DEF Counted, Alike
  <2>2. n \in Nat /\ n <= Len(h) /\ n <= Len(g)
    BY <1>1, <1>2 DEF N
  <2>3. Apart(h) /\ Placed(h) /\ StackOK(g)
    BY <1>2, <1>4
  <2> QED BY <2>1, <2>2, <2>3, FramesKept
<1>6. Last(g) = h[n] /\ h[n].L \in Threads
  BY <1>1, <1>2 DEF Last, StackOK, FrameOK
<1>7. ASSUME NEW j \in 1 .. n, h[i].k = "resume" PROVE h[j].L # R
  <2>1. j \in DOMAIN h /\ j <= i /\ i \in j + 1 .. i
    BY <1>1
  <2> QED BY <1>1, <1>4, <1>7, <2>1 DEF Apart, R
<1>8. ASSUME h[i].k = "pcall" PROVE h[n].L = R
  <2>1. n \in DOMAIN h /\ n <= i /\ \A m \in n + 1 .. i : h[m].k # "resume"
    BY <1>1, <1>8
  <2> QED BY <1>1, <2>1 DEF Together, R
<1>9. ASSUME NEW m \in 2 .. n, h[m].k = "resume" PROVE h[m - 1].L # R
  <2>1. m - 1 \in DOMAIN h /\ m - 1 <= i /\ m \in m - 1 + 1 .. i
    BY <1>1
  <2> QED BY <1>1, <1>4, <1>9, <2>1 DEF Apart, R
<1>10. u[Last(g).L].nC = Count(g, n)
  <2>1. Count(g, n) = Count(h, n)
    BY <1>1, <1>5
  <2>2. CASE h[i].k = "pcall"
    BY <1>1, <1>4, <1>6, <1>8, <2>1, <2>2 DEF LevelsBelow, R
  <2>3. CASE h[i].k = "resume"
    <3>1. n \in 1 .. n
      BY <1>1
    <3>2. h[n].L # R
      BY <1>7, <2>3, <3>1
    <3>3. t[h[n].L].nC = Count(h, n)
      BY <1>1, <1>4, <2>3 DEF LevelsBelow
    <3> QED BY <1>6, <2>1, <3>2, <3>3 DEF R
  <2> QED BY <1>4, <2>2, <2>3
<1>11. ASSUME NEW j \in 1 .. n
       PROVE  /\ j \in DOMAIN h /\ g[j] = h[j] /\ h[j].L \in Threads
              /\ u[h[j].L].base = t[h[j].L].base /\ u[h[j].L].body = t[h[j].L].body
              /\ u[h[j].L].status = t[h[j].L].status
  <2>1. j \in DOMAIN h /\ g[j] = h[j] /\ h[j].L \in Threads
    BY <1>1, <1>2 DEF StackOK, FrameOK
  <2>2. CASE h[j].L = R
    BY <1>4, <1>7, <2>1, <2>2 DEF R
  <2>3. CASE h[j].L # R
    BY <2>1, <2>3 DEF R
  <2> QED BY <2>1, <2>2, <2>3
<1>12. Leaving(g, u)
  <2>1. ASSUME NEW L \in Threads, u[L].status = "yield", NEW j \in DOMAIN g, g[j].L = L PROVE FALSE
    <3>1. j \in DOMAIN h /\ h[j].L = L /\ t[L].status = "yield"
      BY <1>3, <1>11, <2>1
    <3>2. L = R
      BY <1>4, <3>1 DEF Leaving
    <3>3. h[i].k # "resume"
      BY <1>3, <1>7, <2>1, <3>1, <3>2
    <3>4. Light(h[i])
      BY <1>1, <1>4, <3>1, <3>2 DEF Leaving, R
    <3> QED BY <1>4, <3>3, <3>4 DEF Light
  <2>2. ASSUME NEW j \in DOMAIN g, g[j].k = "resume" PROVE ~u[g[j].L].body
    BY <1>3, <1>4, <1>11, <2>2 DEF Leaving
  <2> QED BY <2>1, <2>2 DEF Leaving
<1>13. LevelsBelow(g, u)
  <2>1. u[Main].base = 0
    <3>1. h[i].k = "resume" => R \in Coroutines
      BY <1>1, <1>4 DEF Placed, R
    <3>2. Main \in Threads /\ Main \notin Coroutines
      BY ThreadsAssumption DEF Threads
    <3> QED BY <1>4, <3>1, <3>2 DEF LevelsBelow, R
  <2>2. ASSUME NEW j \in DOMAIN g
        PROVE  /\ g[j].k = "resume" => u[g[j].L].base = Count(g, j) /\ u[g[j - 1].L].nC = Count(g, j - 1)
               /\ g[j].k = "pcall" => g[j].nC = Count(g, j - 1)
               /\ Count(g, j) < MaxCCalls + ExtraCCalls
    <3>1. /\ j \in 1 .. n /\ j \in DOMAIN h /\ g[j] = h[j]
          /\ Count(g, j) = Count(h, j) /\ Count(g, j - 1) = Count(h, j - 1)
      BY <1>1, <1>2, <1>3, <1>5
    <3>2. CASE g[j].k # "resume"
      BY <1>4, <3>1, <3>2 DEF LevelsBelow
    <3>3. CASE g[j].k = "resume"
      <4>1. j \in 2 .. n /\ j - 1 \in 1 .. n
        BY <1>1, <3>1, <3>3 DEF Program
      <4>2. h[j - 1].L # R /\ g[j - 1] = h[j - 1] /\ h[j - 1].L \in Threads
        BY <1>9, <1>11, <3>1, <3>3, <4>1
      <4>3. t[h[j].L].base = Count(h, j) /\ t[h[j - 1].L].nC = Count(h, j - 1) /\ Count(h, j) < MaxCCalls + ExtraCCalls
        BY <1>4, <3>1, <3>3 DEF LevelsBelow
      <4>4. u[h[j].L].base = t[h[j].L].base
        BY <1>11, <3>1
      <4>5. u[h[j - 1].L] = t[h[j - 1].L]
        BY <4>2 DEF R
      <4> QED BY <3>1, <3>3, <4>2, <4>3, <4>4, <4>5
    <3> QED BY <3>2, <3>3
  <2> QED BY <2>1, <2>2 DEF LevelsBelow
<1>14. FieldsOK(g, u) /\ Apart(g) /\ Placed(g)
  <2>1. FieldsOK(g, u)
    BY <1>3, <1>11 DEF FieldsOK
  <2>2. Apart(g)
    BY <1>3, <1>5 DEF Apart
  <2>3. Placed(g)
    BY <1>3, <1>5 DEF Placed
  <2> QED BY <2>1, <2>2, <2>3
<1> QED BY <1>1, <1>2, <1>10, <1>12, <1>13, <1>14 DEF Steady, Below, g, n

(* A frame changes in what is not counted. *)
LEMMA EditCounted ==
    ASSUME NEW h, StackOK(h), NEW t, Below(h, t),
           NEW n \in 2 .. Len(h), NEW f, FrameOK(f), FrameFields(f), Counted(f, h[n])
    PROVE  /\ Below([h EXCEPT ![n] = f], t)
           /\ Steady(h, t) => Steady([h EXCEPT ![n] = f], t)
<1> DEFINE g == [h EXCEPT ![n] = f]
           N == Len(h)
<1>1. N \in Nat \ {0} /\ N \in 0 .. N /\ N \in 1 .. N /\ DOMAIN h = 1 .. N
  BY StackFacts
<1>0. f.k # "program"
  BY <1>1 DEF StackOK, Counted, Alike
<1>2. StackOK(g) /\ Len(g) = N /\ g[n] = f /\ \A i \in 1 .. N : i # n => g[i] = h[i]
  BY <1>0, Replaced
<1>3. DOMAIN g = 1 .. N
  BY <1>2, StackFacts
<1>4. FieldsOK(h, t) /\ Apart(h) /\ Placed(h) /\ Leaving(h, t) /\ LevelsBelow(h, t)
  BY DEF Below
<1> HIDE DEF g, N
<1>5. \A i \in 1 .. N : Counted(g[i], h[i])
  BY <1>2 DEF Counted, Alike
<1>6. /\ \A i \in 0 .. N : Count(g, i) = Count(h, i)
      /\ \A i, j \in 1 .. N :
            i <= j /\ g[i].L = g[j].L => \A m \in i + 1 .. j : g[m].k # "resume"
      /\ \A i \in 1 .. N :
            /\ g[i].k = "exec" /\ ~g[i].called => g[i - 1].k = "resume"
            /\ g[i].k = "c" /\ ~g[i].called => g[i - 1].k = "exec"
            /\ g[i].k = "resume" => g[i].L \in Coroutines
  <2>1. N \in Nat /\ N <= Len(h) /\ N <= Len(g)
    BY <1>1, <1>2 DEF N
  <2>2. Apart(h) /\ Placed(h) /\ StackOK(g)
    BY <1>2, <1>4
  <2> QED BY <1>5, <2>1, <2>2, FramesKept
<1>7. \A i \in 1 .. N :
         /\ i \in DOMAIN h /\ g[i].k = h[i].k /\ g[i].L = h[i].L
         /\ h[i].k = "pcall" => g[i].nC = h[i].nC
         /\ Light(h[i]) => Light(g[i])
  BY <1>1, <1>5 DEF Counted, Alike, Light
<1>8. Last(g).L = Last(h).L
  BY <1>1, <1>2, <1>7 DEF Last, N
<1>9. FieldsOK(g, t)
  BY <1>1, <1>2, <1>3, <1>4 DEF FieldsOK
<1>10. Apart(g)
  BY <1>3, <1>6 DEF Apart
<1>11. Placed(g)
  BY <1>3, <1>6 DEF Placed
<1>12. Leaving(g, t)
  BY <1>3, <1>4, <1>7, <1>8 DEF Leaving
<1>13. LevelsBelow(g, t)
  <2>1. ASSUME NEW i \in DOMAIN g
        PROVE  /\ g[i].k = "resume" => t[g[i].L].base = Count(g, i) /\ t[g[i - 1].L].nC = Count(g, i - 1)
               /\ g[i].k = "pcall" => g[i].nC = Count(g, i - 1)
               /\ Count(g, i) < MaxCCalls + ExtraCCalls
    <3>1. i \in 1 .. N /\ Count(g, i) = Count(h, i) /\ Count(g, i - 1) = Count(h, i - 1)
      BY <1>1, <1>3, <1>6
    <3>2. i # 1 => i - 1 \in 1 .. N
      BY <1>1, <3>1
    <3>3. h[1].k = "program"
      BY DEF StackOK, Program
    <3> QED BY <1>4, <1>7, <3>1, <3>2, <3>3 DEF LevelsBelow
  <2> QED BY <1>4, <2>1 DEF LevelsBelow
<1>14. Below(g, t)
  BY <1>9, <1>10, <1>11, <1>12, <1>13 DEF Below
<1>15. Count(g, Len(g)) = Count(h, Len(h))
  BY <1>1, <1>2, <1>6 DEF N
<1> QED BY <1>8, <1>14, <1>15 DEF Steady, g

(* The running thread changes in what is not counted, or not there. *)
LEMMA RunningChanges ==
    ASSUME NEW h, StackOK(h), NEW t, Below(h, t), NEW u, FieldsOK(h, u),
           \A L \in Threads : L # Last(h).L => u[L] = t[L],
           u[Last(h).L].base = t[Last(h).L].base, u[Last(h).L].body = t[Last(h).L].body,
           u[Last(h).L].status = t[Last(h).L].status
    PROVE  /\ Below(h, u)
           /\ Steady(h, t) /\ u[Last(h).L].nC = t[Last(h).L].nC => Steady(h, u)
<1> DEFINE N == Len(h)
           R == Last(h).L
<1>1. N \in Nat \ {0} /\ N \in DOMAIN h /\ DOMAIN h = 1 .. N /\ Last(h) = h[N] /\ h[1] = Program
  BY StackFacts DEF StackOK, Last
<1>2. FieldsOK(h, t) /\ Apart(h) /\ Placed(h) /\ Leaving(h, t) /\ LevelsBelow(h, t)
  BY DEF Below
<1>3. \A L \in Threads : u[L].base = t[L].base /\ u[L].body = t[L].body /\ u[L].status = t[L].status
  OBVIOUS
<1>4. \A i \in DOMAIN h : h[i].L \in Threads
  BY DEF StackOK, FrameOK
<1>5. Leaving(h, u)
  BY <1>2, <1>3, <1>4 DEF Leaving
<1>6. ASSUME NEW i \in DOMAIN h, h[i].k = "resume" PROVE u[h[i - 1].L] = t[h[i - 1].L]
  <2>1. i - 1 \in DOMAIN h /\ i - 1 <= N /\ i \in i - 1 + 1 .. N
    BY <1>1, <1>6 DEF Program
  <2>2. h[i - 1].L # R
    BY <1>1, <1>2, <1>6, <2>1 DEF Apart
  <2> QED BY <1>4, <2>1, <2>2
<1>7. LevelsBelow(h, u)
  <2>1. Main \in Threads
    BY DEF Threads
  <2> QED BY <1>2, <1>3, <1>4, <1>6, <2>1 DEF LevelsBelow
<1> QED BY <1>2, <1>5, <1>7 DEF Below, Steady

(* A coroutine with frames on the host stack has its lua_resume there. *)
LEMMA ActiveIsResumed ==
    ASSUME NEW h, NEW t, NEW x, Good(h, t, x), NEW i \in DOMAIN h, h[i].L # Main
    PROVE  \E r \in 2 .. i : /\ h[r].k = "resume" /\ h[r].L = h[i].L
                             /\ \A m \in r + 1 .. i : h[m].k # "resume"
<1> DEFINE I == {r \in 2 .. i : h[r].k = "resume"}
<1>1. Len(h) \in Nat \ {0} /\ DOMAIN h = 1 .. Len(h) /\ h[1] = Program
  BY StackFacts DEF Good, StackOK
<1>2. I # {}
  <2>1. SUFFICES ASSUME I = {} PROVE FALSE
    OBVIOUS
  <2>2. 1 \in DOMAIN h /\ 1 <= i /\ \A m \in 1 + 1 .. i : h[m].k # "resume"
    BY <1>1, <2>1
  <2>3. h[1].L = h[i].L
    BY <2>2 DEF Good, Together
  <2> QED BY <1>1, <2>3 DEF Program
<1>3. I \in SUBSET (1 .. i) /\ i \in Nat
  BY <1>1
<1> DEFINE r == Max(I)
<1>4. r \in I /\ \A j \in I : r >= j
  <2> HIDE DEF I
  <2> QED BY <1>2, <1>3, Largest
<1> HIDE DEF r
<1>5. r \in 2 .. i /\ h[r].k = "resume"
  BY <1>4
<1>6. \A m \in r + 1 .. i : h[m].k # "resume"
  <2>1. SUFFICES ASSUME NEW m \in r + 1 .. i, h[m].k = "resume" PROVE FALSE
    OBVIOUS
  <2>2. m \in I /\ m > r
    BY <1>1, <1>5, <2>1
  <2> QED BY <1>4, <1>5, <2>2
<1>7. h[r].L = h[i].L
  <2>1. r \in DOMAIN h /\ r <= i
    BY <1>1, <1>5
  <2> QED BY <1>6, <2>1 DEF Good, Together
<1> QED BY <1>5, <1>6, <1>7

(* One that has not started, or waits for a resume, has none. *)
LEMMA SuspendedIsInactive ==
    ASSUME NEW h, NEW t, NEW x, Good(h, t, x), Below(h, t), NEW co \in Coroutines,
           \/ t[co].body
           \/ t[co].status = "yield" /\ co # Last(h).L
           \/ t[co].jmp = 0
    PROVE  \A i \in DOMAIN h : h[i].L # co
<1> SUFFICES ASSUME NEW i \in DOMAIN h, h[i].L = co PROVE FALSE
  OBVIOUS
<1>1. Len(h) \in Nat \ {0} /\ DOMAIN h = 1 .. Len(h) /\ co # Main /\ co \in Threads
  BY StackFacts, ThreadsAssumption DEF Good, Threads
<1>2. PICK r \in 2 .. i : h[r].k = "resume" /\ h[r].L = co
  BY <1>1, ActiveIsResumed
<1>3. r \in DOMAIN h /\ r \in 1 .. Len(h)
  BY <1>1
<1>4. CASE t[co].body
  BY <1>2, <1>3, <1>4 DEF Below, Leaving
<1>5. CASE t[co].status = "yield" /\ co # Last(h).L
  BY <1>1, <1>5 DEF Below, Leaving
<1>6. CASE t[co].jmp = 0
  <2>1. LinkedAt(h, co, Len(h) + 1, 0)
    BY <1>1, <1>6 DEF Good, Linked
  <2>2. IsTry(h[r])
    BY <1>2 DEF IsTry
  <2>3. r \in 0 + 1 .. Len(h) + 1 - 1
    BY <1>1, <1>3
  <2> QED BY <1>2, <2>1, <2>2, <2>3 DEF LinkedAt
<1> QED BY <1>4, <1>5, <1>6

-----------------------------------------------------------------------------
(* Errors. *)

LEMMA ProgramSteady ==
    ASSUME NEW t, \A L \in Threads : {"status", "ci", "nC", "base", "body", "jmp"} \subseteq DOMAIN t[L],
           t[Main].base = 0, t[Main].nC = 0, t[Main].status # "yield"
    PROVE  Steady(<<Program>>, t)
<1> DEFINE g == <<Program>>
<1>1. Len(g) = 1 /\ DOMAIN g = {1} /\ g[1] = Program
  OBVIOUS
<1>2. Program.k = "program" /\ Program.L = Main
  BY DEF Program
<1> HIDE DEF g
<1>3. Count(g, 1) = 0
  <2>1. Count(g, 0 + 1) = Count(g, 0) + (IF Counts(g[0 + 1]) THEN 1 ELSE 0)
    BY CountNext
  <2>2. ~Counts(g[1])
    BY <1>1, <1>2 DEF Counts, Called
  <2>3. Count(g, 0) = 0
    BY CountZero
  <2> HIDE DEF Counts
  <2> QED BY <2>1, <2>2, <2>3
<1>4. FieldsOK(g, t) /\ Apart(g) /\ Placed(g)
  BY <1>1, <1>2 DEF FieldsOK, FrameFields, Apart, Placed
<1>5. Leaving(g, t)
  BY <1>1, <1>2 DEF Leaving
<1>6. LevelsBelow(g, t)
  BY <1>1, <1>2, <1>3, BoundsAssumption DEF LevelsBelow
<1>7. t[Last(g).L].nC = Count(g, Len(g))
  BY <1>1, <1>2, <1>3 DEF Last
<1> QED BY <1>4, <1>5, <1>6, <1>7 DEF Steady, Below, g

LEMMA CaughtSteady ==
    ASSUME NEW h, NEW t, Good(h, t, interp), Below(h, t), Caught(h, t, Innermost(h)), Innermost(h) # 0
    PROVE  Steady(host', th')
<1> DEFINE i == Innermost(h)
           f == h[i]
<1>1. i \in 2 .. Len(h) /\ IsTry(f) /\ f.L = Last(h).L
  <2>1. Len(h) \in Nat
    BY StackFacts DEF Good
  <2> QED BY <2>1, InnermostIsOwn
<1>2. DOMAIN h = 1 .. Len(h) /\ i \in DOMAIN h /\ f.L \in Threads /\ f.k \in {"pcall", "resume"}
  <2>1. DOMAIN h = 1 .. Len(h) /\ i \in DOMAIN h
    BY <1>1, StackFacts DEF Good
  <2> QED BY <1>1, <2>1 DEF Good, StackOK, FrameOK, IsTry
<1>3. host' = SubSeq(h, 1, i - 1)
  BY DEF Caught
<1>4. th' = [t EXCEPT ![f.L] = IF f.k = "pcall" THEN PcallFailed(@, f) ELSE ResumeFailed(@, f)]
  BY DEF Caught
<1>5. DOMAIN t = Threads /\ {"status", "ci", "nC", "base", "body", "jmp"} \subseteq DOMAIN t[f.L]
  BY <1>2 DEF Good, ThreadsOK, Below, FieldsOK
<1> HIDE DEF i, f
<1>6. /\ th'[f.L] = IF f.k = "pcall" THEN PcallFailed(t[f.L], f) ELSE ResumeFailed(t[f.L], f)
      /\ \A L \in Threads : L # f.L => th'[L] = t[L]
  BY <1>2, <1>4, <1>5
<1>7. LET r == PcallFailed(t[f.L], f) IN
      /\ {"status", "ci", "nC", "base", "body", "jmp"} \subseteq DOMAIN r
      /\ r.base = t[f.L].base /\ r.body = t[f.L].body /\ r.status = t[f.L].status /\ r.nC = f.nC
  BY <1>5 DEF PcallFailed
<1>8. LET r == ResumeFailed(t[f.L], f) IN
      {"status", "ci", "nC", "base", "body", "jmp"} \subseteq DOMAIN r /\ r.status = "error"
  BY DEF ResumeFailed, Dead
<1>9. FieldsOK(h, th')
  <2>1. {"status", "ci", "nC", "base", "body", "jmp"} \subseteq DOMAIN th'[f.L]
    BY <1>6, <1>7, <1>8
  <2> QED BY <1>6, <2>1 DEF Below, FieldsOK
<1>10. /\ f.k = "pcall" =>
             /\ th'[f.L].base = t[f.L].base /\ th'[f.L].body = t[f.L].body
             /\ th'[f.L].status = t[f.L].status
             /\ th'[f.L].nC = f.nC
       /\ f.k = "resume" => th'[f.L].status # "yield"
  BY <1>6, <1>7, <1>8
<1> QED BY <1>1, <1>3, <1>6, <1>9, <1>10, CutCounted DEF Good, f

(* luaD_throw on the thread that runs, or on one that does not run and is  *)
(* about to be resumed; without a handler the host program is left, and a  *)
(* program that called into Lua from its own code goes on.                 *)
LEMMA ThrowSteady ==
    ASSUME NEW h, NEW t, Good(h, t, interp), Below(h, t), NEW L \in Threads, Throw(h, t, L),
           \/ L = Last(h).L
           \/ /\ L \in Coroutines
              /\ Innermost(h) = 0 => t[Main].nC = 0 /\ t[Main].status # "yield"
    PROVE  Steady(host', th')
<1> DEFINE m == t[L].jmp
<1>0. Len(h) \in Nat \ {0} /\ DOMAIN h = 1 .. Len(h) /\ h[1] = Program
  BY StackFacts DEF Good, StackOK
<1>1. CASE m # 0
  <2> DEFINE f == [h[m] EXCEPT !.thrown = TRUE]
             g == [h EXCEPT ![m] = f]
  <2>1. m \in 1 .. Len(h) /\ IsTry(h[m])
    BY <1>0, <1>1 DEF Good, Linked, LinkedAt
  <2>2. m \in 2 .. Len(h) /\ m \in DOMAIN h
    BY <1>0, <2>1 DEF IsTry, Program
  <2>3. FrameOK(h[m]) /\ FrameFields(h[m])
    BY <2>2 DEF Good, StackOK, Below, FieldsOK
  <2>4. f.k = h[m].k /\ f.L = h[m].L /\ f.jmp = h[m].jmp /\ DOMAIN f = DOMAIN h[m]
    BY <2>1, <2>3 DEF FrameOK
  <2>5. h[m].k = "pcall" => f.nC = h[m].nC
    BY <2>3 DEF FrameFields
  <2>6. FrameOK(f) /\ FrameFields(f) /\ Alike(f, h[m]) /\ Counted(f, h[m])
    BY <2>1, <2>3, <2>4, <2>5 DEF FrameOK, FrameFields, Alike, Counted, IsTry
  <2>7. Good(g, t, interp) /\ Len(g) = Len(h)
    BY <2>2, <2>6, EditFrame
  <2>8. Below(g, t)
    BY <2>2, <2>6, EditCounted DEF Good
  <2>9. Last(g).L = Last(h).L
    <3>1. \A i \in 1 .. Len(h) : g[i].L = h[i].L
      BY <1>0, <2>4
    <3> QED BY <1>0, <2>7, <3>1 DEF Last
  <2>10. Innermost(g) = Innermost(h)
    <3> HIDE DEF g
    <3> QED BY <2>7, <2>9, InnermostIsOwn
  <2>11. Innermost(h) # 0
    <3>1. Innermost(h) = 0 => m \in Innermost(h) + 1 .. Len(h)
      BY <2>1
    <3> QED BY <2>1, <3>1, InnermostIsOwn
  <2>12. Caught(g, t, Innermost(h))
    BY <1>1 DEF Throw
  <2> QED BY <2>7, <2>8, <2>10, <2>11, <2>12, CaughtSteady
<1>2. CASE m = 0
  <2> DEFINE u == [t EXCEPT ![L] = Dead]
  <2>1. Caught(h, u, Innermost(h))
    BY <1>2 DEF Throw
  <2>2. /\ u[L] = Dead /\ \A M \in Threads : M # L => u[M] = t[M]
        /\ {"status", "ci", "nC", "base", "body", "jmp"} \subseteq DOMAIN Dead
        /\ Dead.status = "error" /\ Dead.nC = 0 /\ Dead.base = 0 /\ ~Dead.body /\ Dead.jmp = 0
    BY DEF Good, ThreadsOK, Dead
  <2>3. ThreadsOK(u) /\ \A M \in Threads : u[M].jmp = t[M].jmp
    BY <1>2, <2>2 DEF Good, ThreadsOK
  <2>4. Good(h, u, interp)
    BY <2>3, OtherFields
  <2> HIDE DEF u
  <2>5. \A M \in Threads : {"status", "ci", "nC", "base", "body", "jmp"} \subseteq DOMAIN u[M]
    BY <2>2 DEF Below, FieldsOK
  <2>6. CASE Innermost(h) = 0
    <3>1. u[Main].base = 0 /\ u[Main].nC = 0 /\ u[Main].status # "yield"
      <4>1. CASE L = Last(h).L
        <5>1. \A i \in 1 .. Len(h) : h[i].k # "resume"
          BY <1>0, <2>6, InnermostIsOwn DEF IsTry
        <5>2. 1 \in DOMAIN h /\ Len(h) \in DOMAIN h /\ 1 <= Len(h) /\ \A i \in 1 + 1 .. Len(h) : h[i].k # "resume"
          BY <1>0, <5>1
        <5>3. h[1].L = h[Len(h)].L
          BY <5>2 DEF Good, Together
        <5>4. L = Main
          BY <1>0, <4>1, <5>3 DEF Last, Program
        <5> QED BY <2>2, <5>4
      <4>2. CASE L # Last(h).L
        <5>1. L # Main /\ Main \in Threads
          BY <4>2, ThreadsAssumption DEF Threads
        <5> QED BY <2>2, <2>6, <4>2, <5>1 DEF Below, LevelsBelow
      <4> QED BY <4>1, <4>2
    <3>2. host' = <<Program>> /\ th' = u
      BY <2>1, <2>6 DEF Caught
    <3> QED BY <2>5, <3>1, <3>2, ProgramSteady
  <2>7. CASE Innermost(h) # 0
    <3>1. L # Last(h).L
      BY <1>2, <2>7, InnermostIsOwn
    <3>2. L \in Coroutines /\ L # Main
      BY <3>1, ThreadsAssumption
    <3>3. \A i \in DOMAIN h : h[i].L # L
      BY <1>2, <3>2, SuspendedIsInactive
    <3>4. \A i \in DOMAIN h : h[i].L \in Threads /\ u[h[i].L] = t[h[i].L]
      BY <2>2, <3>3 DEF Good, StackOK, FrameOK
    <3>5. FieldsOK(h, u)
      BY <2>5 DEF Below, FieldsOK
    <3>6. Leaving(h, u)
      BY <2>2, <3>3, <3>4 DEF Below, Leaving
    <3>7. LevelsBelow(h, u)
      <4>1. u[Main].base = 0
        BY <2>2, <3>2 DEF Below, LevelsBelow, Threads
      <4>2. \A i \in DOMAIN h : h[i].k = "resume" => i - 1 \in DOMAIN h
        BY <1>0 DEF Program
      <4> QED BY <3>4, <4>1, <4>2 DEF Below, LevelsBelow
    <3>8. Below(h, u)
      BY <3>5, <3>6, <3>7 DEF Below
    <3> QED BY <2>1, <2>4, <2>7, <3>8, CaughtSteady
  <2> QED BY <2>6, <2>7
<1> QED BY <1>1, <1>2

-----------------------------------------------------------------------------
(* Calls.                                                                  *)

LEMMA DoCallSteady ==
    ASSUME NEW h, NEW t, Good(h, t, interp), Steady(h, t), t[Last(h).L].status # "yield",
           NEW kind, DoCall(h, t, Last(h).L, kind)
    PROVE  Steady(host', th')
<1> DEFINE R == Last(h).L
           n == t[R].nC + 1
           u == [t EXCEPT ![R].nC = n]
<1>1. /\ Len(h) \in Nat \ {0} /\ R \in Threads /\ StackOK(h) /\ DOMAIN t = Threads
      /\ \A L \in Threads : {"status", "ci", "nC", "base", "body", "jmp"} \subseteq DOMAIN t[L]
      /\ t[R].nC = Count(h, Len(h)) /\ Below(h, t) /\ FieldsOK(h, t)
  BY StackFacts DEF Good, ThreadsOK, StackOK, FrameOK, Last, Steady, Below, FieldsOK
<1>2. /\ u[R].nC = n /\ u[R].status = t[R].status /\ u[R].base = t[R].base /\ u[R].body = t[R].body
      /\ u[R].jmp = t[R].jmp
      /\ \A L \in Threads : L # R => u[L] = t[L]
      /\ \A L \in Threads : {"status", "ci", "nC", "base", "body", "jmp"} \subseteq DOMAIN u[L]
      /\ DOMAIN u = Threads
  BY <1>1
<1>3. n \in Nat /\ n = Count(h, Len(h)) + 1 /\ MaxCCalls \in Nat \ {0} /\ ExtraCCalls \in Nat \ {0}
  <2>1. Count(h, Len(h)) \in Nat
    BY <1>1, CountType
  <2>2. MaxCCalls \in Nat \ {0} /\ ExtraCCalls \in Nat \ {0}
    BY BoundsAssumption
  <2> QED BY <1>1, <2>1, <2>2
<1> HIDE DEF n, u, R
<1>4. FieldsOK(h, u)
  BY <1>1, <1>2 DEF FieldsOK
<1>5. CASE n = MaxCCalls
  <2> DEFINE f == Error(R, FALSE, TRUE)
  <2>1. /\ FrameOK(f) /\ FrameFields(f) /\ f.k = "error" /\ f.L = R /\ Counts(f)
    BY <1>1 DEF FrameOK, FrameFields, IsTry, Counts, Called, Error
  <2>2. host' = Append(h, f) /\ th' = u
    BY <1>5 DEF DoCall, n, u, R
  <2> HIDE DEF f
  <2>3. u[f.L].nC = Count(h, Len(h)) + (IF Counts(f) THEN 1 ELSE 0) /\ u[f.L].nC < MaxCCalls + ExtraCCalls
    BY <1>2, <1>3, <1>5, <2>1
  <2>4. /\ \A L \in Threads : L # f.L => u[L] = t[L]
        /\ t[Last(h).L].status # "yield" /\ u[f.L].status # "yield" /\ f.L = Last(h).L
        /\ u[f.L].base = t[f.L].base /\ u[f.L].body = t[f.L].body
    BY <1>2, <2>1 DEF R
  <2> QED BY <1>1, <1>4, <2>1, <2>2, <2>3, <2>4, PushCounted
<1>6. CASE n # MaxCCalls /\ n >= MaxCCalls + ExtraCCalls
  <2>1. Throw(h, u, R)
    BY <1>6 DEF DoCall, n, u, R
  <2>2. Good(h, u, interp)
    <3>1. ThreadsOK(u) /\ \A L \in Threads : u[L].jmp = t[L].jmp
      BY <1>2 DEF ThreadsOK
    <3> QED BY <3>1, OtherFields
  <2>3. Below(h, u)
    BY <1>1, <1>2, <1>4, RunningChanges DEF R
  <2> QED BY <1>1, <2>1, <2>2, <2>3, ThrowSteady DEF R
<1>7. CASE n # MaxCCalls /\ ~(n >= MaxCCalls + ExtraCCalls)
  <2> DEFINE f == IF kind = "lua" THEN Exec(R, 1, TRUE)
                  ELSE CFunc(R, IF kind = "managed" THEN interp ELSE None, TRUE)
             v == [u EXCEPT ![R].ci = Append(@, CallInfo(kind))]
  <2>1. Precall(h, u, R, kind, TRUE)
    BY <1>7 DEF DoCall, n, u, R
  <2>2. host' = Append(h, f) /\ th' = v
    BY <2>1 DEF Precall
  <2>3. /\ FrameOK(f) /\ FrameFields(f) /\ f.k \in {"exec", "c"} /\ f.called /\ f.L = R /\ Counts(f)
    BY <1>1 DEF FrameOK, FrameFields, IsTry, Counts, Called, Exec, CFunc, Good
  <2>4. /\ v[R].nC = n /\ v[R].status = t[R].status /\ v[R].base = t[R].base /\ v[R].body = t[R].body
        /\ \A L \in Threads : L # R => v[L] = t[L]
        /\ \A L \in Threads : {"status", "ci", "nC", "base", "body", "jmp"} \subseteq DOMAIN v[L]
    BY <1>1, <1>2
  <2> HIDE DEF f, v
  <2>5. v[f.L].nC = Count(h, Len(h)) + (IF Counts(f) THEN 1 ELSE 0) /\ v[f.L].nC < MaxCCalls + ExtraCCalls
    BY <1>3, <1>7, <2>3, <2>4
  <2>6. FieldsOK(h, v)
    BY <1>1, <2>4 DEF FieldsOK
  <2>7. /\ \A L \in Threads : L # f.L => v[L] = t[L]
        /\ t[Last(h).L].status # "yield" /\ v[f.L].status # "yield" /\ f.L = Last(h).L
        /\ v[f.L].base = t[f.L].base /\ v[f.L].body = t[f.L].body
    BY <2>3, <2>4 DEF R
  <2> QED BY <1>1, <2>2, <2>3, <2>5, <2>6, <2>7, PushCounted
<1> QED BY <1>5, <1>6, <1>7

(* The state before a step.  Only luaV_execute and lua_resume are left of  *)
(* a thread that yields.                                                   *)
LEMMA SteadyFacts ==
    ASSUME IInv, Steady(host, th)
    PROVE  /\ Below(host, th) /\ FieldsOK(host, th) /\ StackOK(host) /\ Together(host)
           /\ th[Running].nC = Count(host, Len(host)) /\ th[Running].nC \in Nat
           /\ th[Running].nC < MaxCCalls + ExtraCCalls
           /\ FrameFields(Top) /\ Running = Last(host).L /\ Top = Last(host)
           /\ \A L \in Threads : {"status", "ci", "nC", "base", "body", "jmp"} \subseteq DOMAIN th[L]
           /\ Top.k \notin {"resume", "exec"} => th[Running].status # "yield"
           /\ DOMAIN th = Threads
<1>1. Len(host) \in DOMAIN host /\ Len(host) \in Nat /\ Top = host[Len(host)]
  BY HostFacts
<1>2. Below(host, th) /\ FieldsOK(host, th) /\ Leaving(host, th) /\ LevelsBelow(host, th)
  BY DEF Steady, Below
<1>3. th[Running].nC = Count(host, Len(host)) /\ th[Running].nC \in Nat
  BY <1>1, CountType DEF Steady, Running, Top
<1>4. th[Running].nC < MaxCCalls + ExtraCCalls
  BY <1>1, <1>2, <1>3 DEF LevelsBelow
<1>5. Top.k \notin {"resume", "exec"} => th[Running].status # "yield"
  BY <1>1, <1>2, HostFacts DEF Leaving, Light, Running
<1> QED BY <1>1, <1>2, <1>3, <1>4, <1>5 DEF FieldsOK, IInv, Good, ThreadsOK, Running, Top

LEMMA Busy ==
    ASSUME IInv, Steady(host, th), InC \/ InLua \/ Top.k = "c"
    PROVE  th[Running].status # "yield"
BY SteadyFacts DEF InC, InLua

LEMMA CallFunctionSteady ==
    ASSUME IInv, Steady(host, th), NEW kind, CallFunction(kind)
    PROVE  Steady(host', th')
<1>1. th[Last(host).L].status # "yield" /\ DoCall(host, th, Last(host).L, kind)
  BY Busy, SteadyFacts DEF CallFunction
<1> QED BY <1>1, DoCallSteady DEF IInv

LEMMA PcallSteady ==
    ASSUME IInv, Steady(host, th), th[Running].status # "yield", NEW e
    PROVE  LET h == Append(host, Pcall(Running, th[Running], e))
               t == [th EXCEPT ![Running].errf = e, ![Running].jmp = Len(host) + 1]
           IN  Steady(h, t) /\ t[Running].status # "yield"
<1> DEFINE L == Running
           f == Pcall(L, th[L], e)
           t == [th EXCEPT ![L].errf = e, ![L].jmp = Len(host) + 1]
           h == Append(host, f)
<1>1. L \in Threads /\ L = Last(host).L /\ ThreadsOK(th)
  BY HostFacts DEF Running, Top
<1>2. /\ FrameOK(f) /\ FrameFields(f) /\ f.k = "pcall" /\ IsTry(f) /\ f.L = L /\ f.jmp = th[L].jmp
      /\ f.nC = th[L].nC /\ ~Counts(f)
  BY <1>1 DEF FrameOK, FrameFields, IsTry, Pcall, Counts, Called
<1>3. /\ ThreadsOK(t) /\ t[L].jmp = Len(host) + 1
      /\ \A M \in Threads : M # L => t[M] = th[M]
      /\ \A M \in Threads : {"status", "ci", "nC", "base", "body", "jmp"} \subseteq DOMAIN t[M]
      /\ t[L].nC = th[L].nC /\ t[L].status = th[L].status /\ t[L].base = th[L].base /\ t[L].body = th[L].body
  BY <1>1, SteadyFacts DEF ThreadsOK
<1>4. th[L].status # "yield"
  OBVIOUS
<1> HIDE DEF f, t, L
<1>5. Steady(h, t)
  <2>1. FieldsOK(host, t)
    BY <1>3, SteadyFacts DEF FieldsOK
  <2>2. /\ th[L].nC = Count(host, Len(host)) /\ Count(host, Len(host)) \in Nat
        /\ th[L].nC < MaxCCalls + ExtraCCalls
    BY SteadyFacts DEF L
  <2>3. t[f.L].nC = Count(host, Len(host)) + (IF Counts(f) THEN 1 ELSE 0) /\ t[f.L].nC < MaxCCalls + ExtraCCalls
    BY <1>2, <1>3, <2>2
  <2>4. /\ \A M \in Threads : M # f.L => t[M] = th[M]
        /\ th[Last(host).L].status # "yield" /\ t[f.L].status # "yield" /\ f.L = Last(host).L
        /\ t[f.L].base = th[f.L].base /\ t[f.L].body = th[f.L].body
        /\ f.nC = Count(host, Len(host))
    BY <1>1, <1>2, <1>3, <1>4, <2>2
  <2> QED BY <1>2, <2>1, <2>3, <2>4, SteadyFacts, PushCounted
<1> QED BY <1>3, <1>4, <1>5 DEF f, t, L

LEMMA ProtectedCallSteady ==
    ASSUME IInv, Steady(host, th), NEW kind, NEW e, ProtectedCall(kind, e)
    PROVE  Steady(host', th')
<1> DEFINE t == [th EXCEPT ![Running].errf = e, ![Running].jmp = Len(host) + 1]
           h == Append(host, Pcall(Running, th[Running], e))
<1>1. DoCall(h, t, Running, kind)
  BY DEF ProtectedCall
<1>2. Good(h, t, interp) /\ Last(h).L = Running
  BY PushPcall
<1>3. Steady(h, t) /\ t[Running].status # "yield"
  BY Busy, PcallSteady DEF ProtectedCall
<1> HIDE DEF h, t
<1> QED BY <1>1, <1>2, <1>3, DoCallSteady

LEMMA OpCallCSteady ==
    ASSUME IInv, Steady(host, th), NEW kind, kind # "lua", OpCallC(kind)
    PROVE  Steady(host', th')
<1> DEFINE f == CFunc(Running, IF kind = "managed" THEN interp ELSE None, FALSE)
<1>1. Top.k = "exec" /\ th[Running].status # "yield" /\ Running \in Threads
  BY HostFacts DEF OpCallC, InLua
<1>2. host' = Append(host, f) /\ th' = [th EXCEPT ![Running].ci = Append(@, CallInfo(kind))]
  BY DEF OpCallC, Precall
<1>3. /\ FrameOK(f) /\ FrameFields(f) /\ f.k = "c" /\ ~f.called /\ f.L = Running /\ ~Counts(f)
  BY <1>1, HostFacts DEF FrameOK, FrameFields, IsTry, CFunc, Counts, Called
<1>4. /\ \A L \in Threads : L # Running => th'[L] = th[L]
      /\ th'[Running].nC = th[Running].nC /\ th'[Running].status = th[Running].status
      /\ th'[Running].base = th[Running].base /\ th'[Running].body = th[Running].body
      /\ \A L \in Threads : {"status", "ci", "nC", "base", "body", "jmp"} \subseteq DOMAIN th'[L]
  BY <1>1, <1>2, SteadyFacts
<1> HIDE DEF f
<1>5. FieldsOK(host, th')
  BY <1>4, SteadyFacts DEF FieldsOK
<1>6. th'[f.L].nC = Count(host, Len(host)) + (IF Counts(f) THEN 1 ELSE 0) /\ th'[f.L].nC < MaxCCalls + ExtraCCalls
  <2>1. /\ th[Running].nC = Count(host, Len(host)) /\ th[Running].nC \in Nat
        /\ th[Running].nC < MaxCCalls + ExtraCCalls
    BY SteadyFacts
  <2> QED BY <1>3, <1>4, <2>1
<1>7. /\ \A L \in Threads : L # f.L => th'[L] = th[L]
      /\ th[Last(host).L].status # "yield" /\ th'[f.L].status # "yield"
      /\ f.L = Last(host).L /\ Last(host).k = "exec"
      /\ th'[f.L].base = th[f.L].base /\ th'[f.L].body = th[f.L].body
  BY <1>1, <1>3, <1>4, SteadyFacts
<1> QED BY <1>2, <1>3, <1>5, <1>6, <1>7, SteadyFacts, PushCounted

(* Frames that change in place. *)
LEMMA EditTopSteady ==
    ASSUME IInv, Steady(host, th), Top.k # "program", NEW f, Counted(f, Top), DOMAIN f = DOMAIN Top,
           host' = [host EXCEPT ![Len(host)] = f],
           \A L \in Threads : L # Running => th'[L] = th[L],
           \A L \in Threads : {"status", "ci", "nC", "base", "body", "jmp"} \subseteq DOMAIN th'[L],
           th'[Running].nC = th[Running].nC, th'[Running].status = th[Running].status,
           th'[Running].base = th[Running].base, th'[Running].body = th[Running].body
    PROVE  Steady(host', th')
<1>1. FieldsOK(host, th')
  BY SteadyFacts DEF FieldsOK
<1>2. Steady(host, th')
  BY <1>1, SteadyFacts, RunningChanges
<1>3. FrameOK(f) /\ FrameFields(f)
  BY HostFacts, SteadyFacts DEF FrameOK, FrameFields, Counted, Alike, IsTry
<1>4. Len(host) \in 2 .. Len(host) /\ Counted(f, host[Len(host)]) /\ Below(host, th')
  BY <1>2, HostFacts DEF Steady
<1> QED BY <1>2, <1>3, <1>4, SteadyFacts, EditCounted

LEMMA OpCallLuaSteady ==
    ASSUME IInv, Steady(host, th), OpCallLua
    PROVE  Steady(host', th')
<1> DEFINE f == [Top EXCEPT !.n = @ + 1]
<1>1. Top.k = "exec" /\ Running \in Threads
  BY HostFacts DEF OpCallLua, InLua
<1>2. DOMAIN f = DOMAIN Top /\ Counted(f, Top)
  BY <1>1, HostFacts, SteadyFacts DEF Counted, Alike, FrameOK, FrameFields, IsTry
<1>3. host' = [host EXCEPT ![Len(host)] = f]
  BY HostFacts DEF OpCallLua
<1>4. /\ \A L \in Threads : L # Running => th'[L] = th[L]
      /\ \A L \in Threads : {"status", "ci", "nC", "base", "body", "jmp"} \subseteq DOMAIN th'[L]
      /\ th'[Running].nC = th[Running].nC /\ th'[Running].status = th[Running].status
      /\ th'[Running].base = th[Running].base /\ th'[Running].body = th[Running].body
  BY <1>1, SteadyFacts DEF OpCallLua
<1> HIDE DEF f
<1> QED BY <1>1, <1>2, <1>3, <1>4, EditTopSteady

(* Frames that end. *)
LEMMA PopSteady ==
    ASSUME IInv, Steady(host, th), Top.k \notin {"program", "resume"}, host' = Front(host),
           \A L \in Threads : L # Running => th'[L] = th[L],
           \A L \in Threads : {"status", "ci", "nC", "base", "body", "jmp"} \subseteq DOMAIN th'[L],
           th'[Running].nC = th[Running].nC - (IF Counts(Top) THEN 1 ELSE 0),
           th'[Running].status = th[Running].status,
           th'[Running].base = th[Running].base, th'[Running].body = th[Running].body
    PROVE  Steady(host', th')
<1>1. FieldsOK(host, th')
  BY SteadyFacts DEF FieldsOK
<1>2. 1 .. Len(host) - 1 \subseteq DOMAIN host
  BY HostFacts
<1>3. th'[Running].status = "yield" =>
          \A i \in 1 .. Len(host) - 1 : host[i].L = Running => Light(host[i])
  BY <1>2, HostFacts DEF Steady, Below, Leaving
<1> QED BY <1>1, <1>3, SteadyFacts, PopCounted

LEMMA OpReturnSteady ==
    ASSUME IInv, Steady(host, th), OpReturn
    PROVE  Steady(host', th')
<1>1. Top.k = "exec" /\ Running \in Threads
  BY HostFacts DEF OpReturn, InLua
<1>2. CASE Top.n > 1
  <2> DEFINE f == [Top EXCEPT !.n = @ - 1]
  <2>1. DOMAIN f = DOMAIN Top /\ Counted(f, Top)
    BY <1>1, HostFacts, SteadyFacts DEF Counted, Alike, FrameOK, FrameFields, IsTry
  <2>2. host' = [host EXCEPT ![Len(host)] = f]
    BY <1>2, HostFacts DEF OpReturn
  <2>3. /\ \A L \in Threads : L # Running => th'[L] = th[L]
        /\ \A L \in Threads : {"status", "ci", "nC", "base", "body", "jmp"} \subseteq DOMAIN th'[L]
        /\ th'[Running].nC = th[Running].nC /\ th'[Running].status = th[Running].status
        /\ th'[Running].base = th[Running].base /\ th'[Running].body = th[Running].body
    BY <1>1, <1>2, SteadyFacts DEF OpReturn
  <2> HIDE DEF f
  <2> QED BY <1>1, <2>1, <2>2, <2>3, EditTopSteady
<1>3. CASE ~(Top.n > 1)
  <2> DEFINE r == Left([th[Running] EXCEPT !.ci = Front(@)], Top)
  <2>1. host' = Front(host) /\ th' = [th EXCEPT ![Running] = r]
    BY <1>3 DEF OpReturn
  <2>2. /\ {"status", "ci", "nC", "base", "body", "jmp"} \subseteq DOMAIN r
        /\ r.nC = IF Called(Top) THEN th[Running].nC - 1 ELSE th[Running].nC
        /\ r.status = th[Running].status /\ r.base = th[Running].base /\ r.body = th[Running].body
    BY <1>1, SteadyFacts DEF Left
  <2>3. r.nC = th[Running].nC - (IF Counts(Top) THEN 1 ELSE 0)
    BY <1>1, <2>2, SteadyFacts DEF Counts
  <2> HIDE DEF r
  <2>4. th'[Running] = r /\ \A L \in Threads : L # Running => th'[L] = th[L]
    BY <1>1, <2>1, SteadyFacts
  <2>5. \A L \in Threads : {"status", "ci", "nC", "base", "body", "jmp"} \subseteq DOMAIN th'[L]
    BY <2>2, <2>4, SteadyFacts
  <2> QED BY <1>1, <2>1, <2>2, <2>3, <2>4, <2>5, PopSteady
<1> QED BY <1>2, <1>3

LEMMA CReturnsSteady ==
    ASSUME IInv, Steady(host, th), CReturns
    PROVE  Steady(host', th')
<1> DEFINE r == Left([th[Running] EXCEPT !.ci = Front(@)], Top)
<1>1. Top.k = "c" /\ Running \in Threads /\ host' = Front(host) /\ th' = [th EXCEPT ![Running] = r]
  BY HostFacts DEF CReturns
<1>2. /\ {"status", "ci", "nC", "base", "body", "jmp"} \subseteq DOMAIN r
      /\ r.nC = IF Called(Top) THEN th[Running].nC - 1 ELSE th[Running].nC
      /\ r.status = th[Running].status /\ r.base = th[Running].base /\ r.body = th[Running].body
  BY <1>1, SteadyFacts DEF Left
<1>3. r.nC = th[Running].nC - (IF Counts(Top) THEN 1 ELSE 0)
  BY <1>1, <1>2, SteadyFacts DEF Counts
<1> HIDE DEF r
<1>4. th'[Running] = r /\ \A L \in Threads : L # Running => th'[L] = th[L]
  BY <1>1, SteadyFacts
<1>5. \A L \in Threads : {"status", "ci", "nC", "base", "body", "jmp"} \subseteq DOMAIN th'[L]
  BY <1>2, <1>4, SteadyFacts
<1> QED BY <1>1, <1>2, <1>3, <1>4, <1>5, PopSteady

LEMMA QuietPopSteady ==
    ASSUME IInv, Steady(host, th), PcallReturns \/ NoHookReturns
    PROVE  Steady(host', th')
<1>1. Top.k \in {"pcall", "nohook"} /\ ~Counts(Top) /\ host' = Front(host) /\ Running \in Threads
  BY HostFacts DEF PcallReturns, NoHookReturns, Counts, Called
<1>2. /\ \A L \in Threads : L # Running => th'[L] = th[L]
      /\ \A L \in Threads : {"status", "ci", "nC", "base", "body", "jmp"} \subseteq DOMAIN th'[L]
      /\ th'[Running].nC = th[Running].nC /\ th'[Running].status = th[Running].status
      /\ th'[Running].base = th[Running].base /\ th'[Running].body = th[Running].body
  BY <1>1, SteadyFacts DEF PcallReturns, NoHookReturns
<1>3. th[Running].nC = th[Running].nC - (IF Counts(Top) THEN 1 ELSE 0)
  BY <1>1, SteadyFacts
<1> QED BY <1>1, <1>2, <1>3, PopSteady

(* luaV_execute leaves a thread that yields; it was entered by lua_resume. *)
LEMMA ExecYieldsSteady ==
    ASSUME IInv, Steady(host, th), ExecYields
    PROVE  Steady(host', th')
<1>1. Top.k = "exec" /\ th[Running].status = "yield" /\ host' = Front(host) /\ th' = th /\ Running \in Threads
  BY HostFacts DEF ExecYields
<1>2. ~Counts(Top)
  <2>1. Len(host) \in DOMAIN host /\ Top = host[Len(host)] /\ Top.L = Running
    BY HostFacts DEF Running
  <2>2. Light(Top)
    BY <1>1, <2>1 DEF Steady, Below, Leaving
  <2> QED BY <1>1, <2>2 DEF Light, Counts, Called
<1>3. th[Running].nC = th[Running].nC - (IF Counts(Top) THEN 1 ELSE 0)
  BY <1>2, SteadyFacts
<1>4. \A L \in Threads : {"status", "ci", "nC", "base", "body", "jmp"} \subseteq DOMAIN th'[L]
  BY <1>1, SteadyFacts
<1> QED BY <1>1, <1>3, <1>4, PopSteady

LEMMA ResumeReturnsSteady ==
    ASSUME IInv, Steady(host, th), ResumeReturns
    PROVE  Steady(host', th')
<1> DEFINE i == Len(host)
<1>1. Top.k = "resume" /\ IsTry(Top) /\ host' = Front(host) /\ Running \in Threads /\ Top.L = Running
  BY HostFacts DEF ResumeReturns, IsTry, Running
<1>2. i \in 2 .. Len(host) /\ host[i] = Top
  BY <1>1, HostFacts
<1>3. /\ \A L \in Threads : L # Running => th'[L] = th[L]
      /\ \A L \in Threads : {"status", "ci", "nC", "base", "body", "jmp"} \subseteq DOMAIN th'[L]
      /\ th'[Running].status = th[Running].status
  BY <1>1, SteadyFacts DEF ResumeReturns
<1>4. FieldsOK(host, th')
  BY <1>3, SteadyFacts DEF FieldsOK
<1>5. Front(host) = SubSeq(host, 1, i - 1)
  BY DEF Front
<1> HIDE DEF i
<1>6. Steady(SubSeq(host, 1, i - 1), th')
  BY <1>1, <1>2, <1>3, <1>4, SteadyFacts, CutCounted
<1> QED BY <1>1, <1>5, <1>6

(* Errors. *)
LEMMA RaiseErrorSteady ==
    ASSUME IInv, Steady(host, th), th[Running].status # "yield",
           host' = Append(host, Error(Running, FALSE, FALSE)), th' = th
    PROVE  Steady(host', th')
<1> DEFINE f == Error(Running, FALSE, FALSE)
<1>1. FrameOK(f) /\ FrameFields(f) /\ f.k = "error" /\ f.L = Running /\ ~Counts(f)
  BY HostFacts DEF FrameOK, FrameFields, IsTry, Error, Counts, Called
<1>2. host' = Append(host, f)
  OBVIOUS
<1> HIDE DEF f
<1>3. th[f.L].nC = Count(host, Len(host)) + (IF Counts(f) THEN 1 ELSE 0) /\ th[f.L].nC < MaxCCalls + ExtraCCalls
  <2>1. /\ th[Running].nC = Count(host, Len(host)) /\ th[Running].nC \in Nat
        /\ th[Running].nC < MaxCCalls + ExtraCCalls
    BY SteadyFacts
  <2> QED BY <1>1, <2>1
<1>4. th[Last(host).L].status # "yield" /\ th[f.L].status # "yield" /\ f.L = Last(host).L
  BY <1>1, SteadyFacts
<1> QED BY <1>1, <1>2, <1>3, <1>4, SteadyFacts, PushCounted

LEMMA ErrorMessageSteady ==
    ASSUME IInv, Steady(host, th), NEW kind, ErrorMessage(kind)
    PROVE  Steady(host', th')
<1>1. CASE Throw(host, th, Running)
  BY <1>1, HostFacts, SteadyFacts, ThrowSteady DEF IInv
<1>2. CASE DoCall(Append(Front(host), [Top EXCEPT !.handled = TRUE]), th, Running, kind)
  <2> DEFINE f == [Top EXCEPT !.handled = TRUE]
             h == [host EXCEPT ![Len(host)] = f]
  <2>1. Top.k = "error" /\ th[Running].status # "yield"
    BY SteadyFacts DEF ErrorMessage
  <2>2. /\ Alike(f, Top) /\ Counted(f, Top) /\ FrameOK(f) /\ FrameFields(f)
        /\ f.L = Running /\ f.k # "program"
    BY <2>1, HostFacts, SteadyFacts DEF Alike, Counted, FrameOK, FrameFields, IsTry, Running
  <2> HIDE DEF f
  <2>3. Append(Front(host), f) = h
    BY <2>1, <2>2, ReplaceTop DEF IInv, Good, Top
  <2>4. Good(h, th, interp) /\ Len(h) = Len(host)
    BY <2>1, <2>2, HostFacts, EditFrame DEF IInv
  <2>5. Last(h).L = Running
    BY <2>2, <2>4, HostFacts DEF Last
  <2>6. Steady(h, th)
    <3>1. Len(host) \in 2 .. Len(host) /\ Counted(f, host[Len(host)])
      BY <2>1, <2>2, HostFacts
    <3> QED BY <2>2, <3>1, SteadyFacts, EditCounted
  <2> QED BY <1>2, <2>1, <2>3, <2>4, <2>5, <2>6, DoCallSteady DEF IInv, f
<1> QED BY <1>1, <1>2 DEF ErrorMessage

LEMMA ThrowStepSteady ==
    ASSUME IInv, Steady(host, th), Throw(host, th, Running)
    PROVE  Steady(host', th')
BY HostFacts, SteadyFacts, ThrowSteady DEF IInv

(* An exception without a protected call around it is torn; see Next.      *)
LEMMA ClrExceptionSteady ==
    ASSUME IInv, Steady(host, th), ClrException, process' = "runs"
    PROVE  Steady(host', th')
BY SteadyFacts, CaughtSteady DEF IInv, ClrException

LEMMA ResumeNoMemorySteady ==
    ASSUME IInv, Steady(host, th), NEW co \in Coroutines, ResumeNoMemory(co), process' = "runs"
    PROVE  Steady(host', th')
<1>1. co \in Threads /\ Throw(host, th, co) /\ (Innermost(host) = 0 => Top = Program)
  BY DEF ResumeNoMemory, Threads
<1>2. ASSUME Innermost(host) = 0 PROVE th[Main].nC = 0 /\ th[Main].status # "yield"
  <2>1. Top = Program /\ Running = Main /\ Top.k = "program"
    BY <1>1, <1>2 DEF Running, Program
  <2>2. Len(host) = 1 /\ host[1] = Program
    <3>1. Len(host) \in DOMAIN host /\ host[Len(host)].k = "program"
      BY <2>1, HostFacts
    <3> QED BY <3>1, SteadyFacts DEF StackOK
  <2>3. Count(host, 0 + 1) = Count(host, 0) + (IF Counts(host[0 + 1]) THEN 1 ELSE 0)
    BY CountNext
  <2>4. ~Counts(host[1]) /\ Count(host, 0) = 0
    BY <2>2, CountZero DEF Counts, Called, Program
  <2>5. Count(host, 1) = 0
    <3> HIDE DEF Counts
    <3> QED BY <2>3, <2>4
  <2> QED BY <2>1, <2>2, <2>5, SteadyFacts
<1> QED BY <1>1, <1>2, SteadyFacts, ThrowSteady DEF IInv

-----------------------------------------------------------------------------
(* Coroutines. *)

(* A thread without frames changes. *)
LEMMA AbsentChanges ==
    ASSUME NEW h, StackOK(h), NEW t, Steady(h, t), NEW u, FieldsOK(h, u),
           NEW co \in Coroutines, \A i \in DOMAIN h : h[i].L # co,
           \A L \in Threads : L # co => u[L] = t[L]
    PROVE  Steady(h, u)
<1>1. Len(h) \in DOMAIN h /\ h[1].k = "program" /\ DOMAIN h = 1 .. Len(h)
  BY StackFacts DEF StackOK, Program
<1>2. \A i \in DOMAIN h : h[i].L \in Threads /\ u[h[i].L] = t[h[i].L]
  BY DEF StackOK, FrameOK
<1>3. Leaving(h, u)
  BY <1>2 DEF Steady, Below, Leaving
<1>4. LevelsBelow(h, u)
  <2>1. u[Main].base = 0
    BY ThreadsAssumption DEF Steady, Below, LevelsBelow, Threads
  <2>2. \A i \in DOMAIN h : h[i].k = "resume" => i - 1 \in DOMAIN h
    BY <1>1
  <2> QED BY <1>2, <2>1, <2>2 DEF Steady, Below, LevelsBelow
<1>5. u[Last(h).L].nC = Count(h, Len(h))
  BY <1>1, <1>2 DEF Steady, Last
<1> QED BY <1>3, <1>4, <1>5 DEF Steady, Below

LEMMA ResumeThreadSteady ==
    ASSUME IInv, Steady(host, th), NEW co \in Coroutines, ResumeThread(co)
    PROVE  Steady(host', th')
<1> DEFINE n == Level(Running, co)
<1>1. /\ co \in Threads /\ n = Count(host, Len(host)) /\ n \in Nat
      /\ th[Running].status # "yield" /\ MaxCCalls \in Nat \ {0} /\ ExtraCCalls \in Nat \ {0}
  <2>1. MaxCCalls \in Nat \ {0} /\ ExtraCCalls \in Nat \ {0}
    BY BoundsAssumption
  <2> QED BY <2>1, Busy, SteadyFacts DEF Threads, Level, ResumeThread
<1>2. \A i \in DOMAIN host : host[i].L # co
  <2>1. th[co].body \/ (th[co].status = "yield" /\ co # Last(host).L)
    BY SteadyFacts DEF ResumeThread, Suspended
  <2> QED BY <2>1, SteadyFacts, SuspendedIsInactive DEF IInv
<1>3. {"status", "ci", "nC", "base", "body", "jmp"} \subseteq DOMAIN th[co] /\ DOMAIN th = Threads
  BY <1>1, SteadyFacts
<1>4. CASE n >= MaxCCalls
  <2>1. th' = [th EXCEPT ![co] = ResumeError(@, n)] /\ host' = host
    BY <1>4 DEF ResumeThread
  <2>2. {"status", "ci", "nC", "base", "body", "jmp"} \subseteq DOMAIN ResumeError(th[co], n)
    BY <1>3 DEF ResumeError
  <2>3. \A L \in Threads : L # co => th'[L] = th[L]
    BY <1>1, <1>3, <2>1
  <2>4. FieldsOK(host, th')
    BY <1>1, <1>3, <2>1, <2>2, SteadyFacts DEF FieldsOK
  <2>5. Steady(host, th')
    BY <1>2, <2>3, <2>4, SteadyFacts, AbsentChanges
  <2> QED BY <2>1, <2>5
<1>5. CASE ~(n >= MaxCCalls)
  <2> DEFINE f == Resume(co, th[co])
             e == Exec(co, Nexeccalls(th[co]), FALSE)
             h == Append(host, f)
  <2>1. /\ FrameOK(f) /\ FrameFields(f) /\ f.k = "resume" /\ f.L = co /\ Counts(f)
        /\ FrameOK(e) /\ FrameFields(e) /\ e.k = "exec" /\ ~e.called /\ e.L = co /\ ~Counts(e)
    BY <1>1 DEF FrameOK, FrameFields, IsTry, Counts, Called, Resume, Exec
  <2>2. /\ th' = [th EXCEPT ![co] = Started(@, n)]
        /\ host' = host \o <<f, e>>
    BY <1>5 DEF ResumeThread
  <2>3. LET r == Started(th[co], n) IN
        /\ {"status", "ci", "nC", "base", "body", "jmp"} \subseteq DOMAIN r
        /\ r.status = "ok" /\ r.nC = n + 1 /\ r.base = n + 1 /\ ~r.body
    BY <1>3 DEF Started
  <2>4. /\ \A L \in Threads : L # co => th'[L] = th[L]
        /\ {"status", "ci", "nC", "base", "body", "jmp"} \subseteq DOMAIN th'[co]
        /\ th'[co].status = "ok" /\ th'[co].nC = n + 1 /\ th'[co].base = n + 1 /\ ~th'[co].body
    BY <1>1, <1>3, <2>2, <2>3
  <2> HIDE DEF f, e
  <2>5. host' = Append(h, e)
    <3>1. PICK S : host \in Seq(S)
      BY DEF IInv, Good, StackOK
    <3> DEFINE T == S \cup {f, e}
    <3>2. host \in Seq(T) /\ f \in T /\ e \in T
      BY <3>1, SeqMonotonic
    <3> HIDE DEF T
    <3>3. host \o <<f, e>> = Append(Append(host, f), e)
      BY <3>2
    <3> QED BY <2>2, <3>3
  <2>6. FieldsOK(host, th')
    BY <2>4, SteadyFacts DEF FieldsOK
  <2>7. /\ th'[f.L].nC = Count(host, Len(host)) + (IF Counts(f) THEN 1 ELSE 0)
        /\ th'[f.L].nC < MaxCCalls + ExtraCCalls
    <3> HIDE DEF n, Counts
    <3> QED BY <1>1, <1>5, <2>1, <2>4
  <2>8. Steady(h, th') /\ Last(h) = f
    <3>1. /\ \A L \in Threads : L # f.L => th'[L] = th[L]
          /\ th[Last(host).L].status # "yield" /\ th'[f.L].status # "yield"
          /\ th'[f.L].base = th'[f.L].nC /\ ~th'[f.L].body
          /\ \A i \in DOMAIN host : host[i].L # f.L
      BY <1>1, <1>2, <2>1, <2>4, SteadyFacts
    <3> QED BY <2>1, <2>6, <2>7, <3>1, SteadyFacts, PushCounted
  <2>9. StackOK(h)
    BY <2>1, SteadyFacts, Pushed
  <2> HIDE DEF h
  <2>10. Steady(Append(h, e), th')
    <3>1. th'[e.L].nC = Count(h, Len(h)) /\ Count(h, Len(h)) \in Nat
      <4>1. Len(h) \in Nat
        BY <2>9, StackFacts
      <4> QED BY <2>1, <2>8, <4>1, CountType DEF Steady
    <3>2. th'[e.L].nC = Count(h, Len(h)) + (IF Counts(e) THEN 1 ELSE 0)
      BY <2>1, <3>1
    <3>3. /\ th'[Last(h).L].status # "yield" /\ th'[e.L].status # "yield"
          /\ th'[e.L].nC < MaxCCalls + ExtraCCalls /\ e.L = Last(h).L /\ Last(h).k = "resume"
      BY <2>1, <2>4, <2>7, <2>8
    <3>4. FieldsOK(h, th')
      BY <2>8 DEF Steady, Below
    <3> QED BY <2>1, <2>8, <2>9, <3>2, <3>3, <3>4, PushCounted
  <2> QED BY <2>5, <2>10
<1> QED BY <1>4, <1>5
(* A C function that may yield was called by Lua code that lua_resume      *)
(* runs: no C call lies between.                                           *)
LEMMA YieldsFromExec ==
    ASSUME IInv, Steady(host, th), Top.k = "c", ~(th[Running].nC > th[Running].base)
    PROVE  /\ ~Counts(Top)
           /\ \A i \in 1 .. Len(host) - 1 : host[i].L = Running => Light(host[i])
<1> DEFINE N == Len(host)
<1>1. /\ N \in Nat \ {0} /\ DOMAIN host = 1 .. N /\ Top = host[N] /\ Running = host[N].L
      /\ Running \in Threads /\ host[1] = Program /\ host[1].k = "program"
  BY HostFacts DEF Running, IInv, Good, StackOK, Program
<1>2. /\ Apart(host) /\ Placed(host) /\ LevelsBelow(host, th)
      /\ th[Running].nC = Count(host, N)
  BY SteadyFacts DEF Below
<1> HIDE DEF N
<1>3. PICK low \in 0 .. N :
         /\ low # 0 => host[low].k = "resume"
         /\ th[Running].base = Count(host, low)
  <2>1. CASE Running = Main
    <3>1. th[Running].base = 0 /\ Count(host, 0) = 0 /\ 0 \in 0 .. N
      BY <1>1, <1>2, <2>1, CountZero DEF LevelsBelow
    <3> QED BY <3>1
  <2>2. CASE Running # Main
    <3>1. N \in DOMAIN host /\ host[N].L # Main
      BY <1>1, <2>2
    <3>2. PICK r \in 2 .. N : host[r].k = "resume" /\ host[r].L = Running
      BY <1>1, <3>1, ActiveIsResumed DEF IInv
    <3>3. r \in DOMAIN host /\ r \in 0 .. N
      BY <1>1, <3>2
    <3> QED BY <1>2, <3>2, <3>3 DEF LevelsBelow
  <2> QED BY <2>1, <2>2
<1>4. ASSUME NEW j \in low + 1 .. N PROVE ~Counts(host[j])
  <2>1. SUFFICES ASSUME Counts(host[j]) PROVE FALSE
    OBVIOUS
  <2>2. low \in Nat /\ N \in Nat
    BY <1>1, <1>3
  <2>3. Count(host, low) < Count(host, N)
    BY <2>1, <2>2, CountLess
  <2>4. Count(host, low) \in Nat /\ Count(host, N) \in Nat
    BY <2>2, CountType
  <2> QED BY <1>2, <1>3, <2>3, <2>4
<1>5. low # N /\ N \in low + 1 .. N
  BY <1>1, <1>3
<1>6. ~Counts(host[N])
  BY <1>4, <1>5
<1>7. host[N].k = "c" /\ ~host[N].called
  BY <1>1, <1>6 DEF Counts, Called
<1>8. host[N - 1].k = "exec" /\ N - 1 \in 2 .. N
  <2>1. host[N - 1].k = "exec" /\ N # 1
    BY <1>1, <1>2, <1>7 DEF Placed
  <2>2. N - 1 # 1
    BY <1>1, <2>1
  <2> QED BY <1>1, <2>1, <2>2
<1>9. N - 1 \in low + 1 .. N
  BY <1>1, <1>3, <1>5, <1>8
<1>10. ~host[N - 1].called
  BY <1>4, <1>8, <1>9 DEF Counts, Called
<1>11. host[N - 2].k = "resume"
  <2>1. N - 1 \in DOMAIN host /\ N - 1 - 1 = N - 2
    BY <1>1, <1>8
  <2> QED BY <1>2, <1>8, <1>10, <2>1 DEF Placed
<1>12. ASSUME NEW i \in 1 .. N - 1, host[i].L = Running PROVE Light(host[i])
  <2>1. CASE i = N - 1
    BY <1>8, <1>10, <2>1 DEF Light
  <2>2. CASE i = N - 2
    BY <1>11, <2>2 DEF Light
  <2>3. CASE i # N - 1 /\ i # N - 2
    <3>1. i \in DOMAIN host /\ N \in DOMAIN host /\ i <= N /\ N - 2 \in i + 1 .. N
      BY <1>1, <2>3
    <3>2. host[N - 2].k # "resume"
      BY <1>1, <1>2, <1>12, <3>1 DEF Apart
    <3> QED BY <1>11, <3>2
  <2> QED BY <2>1, <2>2, <2>3
<1> QED BY <1>1, <1>6, <1>12 DEF N

LEMMA YieldSteady ==
    ASSUME IInv, Steady(host, th), Yield
    PROVE  Steady(host', th')
<1>1. Top.k = "c" /\ Running \in Threads /\ th[Running].status # "yield"
  BY Busy, HostFacts DEF Yield
<1>2. CASE th[Running].nC > th[Running].base
  BY <1>1, <1>2, RaiseErrorSteady DEF Yield
<1>3. CASE ~(th[Running].nC > th[Running].base)
  <2>1. host' = Front(host) /\ th' = [th EXCEPT ![Running].status = "yield"]
    BY <1>3 DEF Yield
  <2>2. /\ \A L \in Threads : L # Running => th'[L] = th[L]
        /\ \A L \in Threads : {"status", "ci", "nC", "base", "body", "jmp"} \subseteq DOMAIN th'[L]
        /\ th'[Running].nC = th[Running].nC
        /\ th'[Running].base = th[Running].base /\ th'[Running].body = th[Running].body
    BY <1>1, <2>1, SteadyFacts
  <2>3. FieldsOK(host, th')
    BY <2>2, SteadyFacts DEF FieldsOK
  <2>4. /\ ~Counts(Top)
        /\ \A i \in 1 .. Len(host) - 1 : host[i].L = Running => Light(host[i])
    BY <1>1, <1>3, YieldsFromExec
  <2>5. th'[Running].nC = th[Running].nC - (IF Counts(Top) THEN 1 ELSE 0)
    BY <2>2, <2>4, SteadyFacts
  <2>6. Last(host).k \notin {"program", "resume"}
    BY <1>1, SteadyFacts
  <2>7. Running = Last(host).L /\ Top = Last(host)
    BY SteadyFacts
  <2>8. StackOK(host) /\ Together(host)
    BY SteadyFacts
  <2> HIDE DEF Counts, Light
  <2>9. Steady(Front(host), th')
    BY <2>2, <2>3, <2>4, <2>5, <2>6, <2>7, <2>8, PopCounted
  <2> QED BY <2>1, <2>9
<1> QED BY <1>2, <1>3

-----------------------------------------------------------------------------
(* Hooks and the collector. *)

LEMMA NoHookSteady ==
    ASSUME IInv, Steady(host, th), th[Running].status # "yield", NEW w
    PROVE  Steady(Append(host, NoHook(Running, th[Running], w)), [th EXCEPT ![Running].allow = FALSE])
<1> DEFINE f == NoHook(Running, th[Running], w)
           u == [th EXCEPT ![Running].allow = FALSE]
<1>1. FrameOK(f) /\ FrameFields(f) /\ f.k = "nohook" /\ f.L = Running /\ ~Counts(f)
  BY HostFacts DEF FrameOK, FrameFields, IsTry, NoHook, Counts, Called
<1>2. /\ \A L \in Threads : L # Running => u[L] = th[L]
      /\ \A L \in Threads : {"status", "ci", "nC", "base", "body", "jmp"} \subseteq DOMAIN u[L]
      /\ u[Running].nC = th[Running].nC /\ u[Running].status = th[Running].status
      /\ u[Running].base = th[Running].base /\ u[Running].body = th[Running].body
  BY HostFacts, SteadyFacts
<1> HIDE DEF f, u
<1>3. FieldsOK(host, u)
  BY <1>2, SteadyFacts DEF FieldsOK
<1>4. u[f.L].nC = Count(host, Len(host)) + (IF Counts(f) THEN 1 ELSE 0) /\ u[f.L].nC < MaxCCalls + ExtraCCalls
  <2>1. /\ th[Running].nC = Count(host, Len(host)) /\ th[Running].nC \in Nat
        /\ th[Running].nC < MaxCCalls + ExtraCCalls
    BY SteadyFacts
  <2> QED BY <1>1, <1>2, <2>1
<1>5. /\ \A L \in Threads : L # f.L => u[L] = th[L]
      /\ th[Last(host).L].status # "yield" /\ u[f.L].status # "yield" /\ f.L = Last(host).L
      /\ u[f.L].base = th[f.L].base /\ u[f.L].body = th[f.L].body
  BY <1>1, <1>2, SteadyFacts
<1>6. Steady(Append(host, f), u)
  BY <1>1, <1>3, <1>4, <1>5, SteadyFacts, PushCounted
<1> QED BY <1>6 DEF f, u

LEMMA CallHookSteady ==
    ASSUME IInv, Steady(host, th), CallHook
    PROVE  Steady(host', th')
BY Busy, NoHookSteady DEF CallHook

LEMMA CallGCTMSteady ==
    ASSUME IInv, Steady(host, th), NEW kind, CallGCTM(kind)
    PROVE  Steady(host', th')
<1> DEFINE h == Append(host, NoHook(Running, th[Running], "gc"))
           t == [th EXCEPT ![Running].allow = FALSE]
<1>1. DoCall(h, t, Running, kind) /\ th[Running].status # "yield" /\ Running \in Threads
  BY Busy, HostFacts DEF CallGCTM
<1>2. Good(h, t, interp) /\ Last(h).L = Running
  BY PushNoHook
<1>3. Steady(h, t)
  BY <1>1, NoHookSteady
<1>4. t[Running].status # "yield"
  BY <1>1, SteadyFacts
<1> HIDE DEF h, t
<1> QED BY <1>1, <1>2, <1>3, <1>4, DoCallSteady

-----------------------------------------------------------------------------
(* The strengthening of IInv.  It holds while the process runs: once an    *)
(* exception has left Lua code, the levels of the main thread stay.        *)
IInv2 == IInv /\ (process = "runs" => Steady(host, th))

LEMMA InitIInv2 == Init => IInv2
<1> SUFFICES ASSUME Init PROVE IInv2
  OBVIOUS
<1>1. th = [L \in Threads |-> New(L)] /\ Main \in Threads
  BY DEF Init, Threads
<1>2. /\ \A L \in Threads : {"status", "ci", "nC", "base", "body", "jmp"} \subseteq DOMAIN th[L]
      /\ th[Main].base = 0 /\ th[Main].nC = 0 /\ th[Main].status # "yield"
  BY <1>1 DEF New
<1>3. Steady(<<Program>>, th)
  BY <1>2, ProgramSteady
<1> QED BY <1>3, InitIInv DEF IInv2, Init

LEMMA NextIInv2 == IInv2 /\ [Next]_vars => IInv2'
<1> SUFFICES ASSUME IInv2, [Next]_vars, process' = "runs" PROVE Steady(host', th')
  BY NextIInv DEF IInv2
<1>1. CASE Next
  <2> process = "runs" /\ IInv /\ Steady(host, th)
    BY <1>1 DEF Next, IInv2
  <2>1. CASE \E kind \in Kinds :
                \/ CallFunction(kind) \/ ErrorMessage(kind) \/ CallGCTM(kind)
                \/ \E e \in BOOLEAN : ProtectedCall(kind, e)
    BY <2>1, CallFunctionSteady, ErrorMessageSteady, CallGCTMSteady, ProtectedCallSteady
  <2>2. CASE \E kind \in Kinds \ {"lua"} : OpCallC(kind)
    BY <2>2, OpCallCSteady
  <2>3. CASE OpCallLua \/ OpReturn \/ CReturns
    BY <2>3, OpCallLuaSteady, OpReturnSteady, CReturnsSteady
  <2>4. CASE PcallReturns \/ NoHookReturns
    BY <2>4, QuietPopSteady
  <2>5. CASE RaiseError
    <3>1. /\ th[Running].status # "yield" /\ th' = th
          /\ host' = Append(host, Error(Running, FALSE, FALSE))
      BY <2>5, Busy DEF RaiseError
    <3> QED BY <3>1, RaiseErrorSteady
  <2>6. CASE HandlerReturns \/ MemoryError
    BY <2>6, ThrowStepSteady DEF HandlerReturns, MemoryError
  <2>7. CASE ClrException
    BY <2>7, ClrExceptionSteady
  <2>8. CASE \E co \in Coroutines : ResumeThread(co) \/ ResumeNoMemory(co)
    BY <2>8, ResumeThreadSteady, ResumeNoMemorySteady
  <2>9. CASE Yield
    BY <2>9, YieldSteady
  <2>10. CASE ExecYields \/ ResumeReturns
    BY <2>10, ExecYieldsSteady, ResumeReturnsSteady
  <2>11. CASE CallHook
    BY <2>11, CallHookSteady
  <2> QED BY <1>1, <2>1, <2>2, <2>3, <2>4, <2>5, <2>6, <2>7, <2>8, <2>9, <2>10, <2>11 DEF Next
<1>2. CASE UNCHANGED vars
  <2>1. host' = host /\ th' = th /\ process = "runs"
    BY <1>2 DEF vars
  <2> QED BY <2>1 DEF IInv2
<1> QED BY <1>1, <1>2

(* The frames and the levels of nCcalls agree in every state of a process  *)
(* that runs: see Steady.                                                  *)
THEOREM StrongInvariance == Spec => []IInv2
BY InitIInv2, NextIInv2, PTL DEF Spec

(* nCcalls counts the C calls below a thread, after every return, error,   *)
(* yield and resume, and never reaches what luaD_call allows to message    *)
(* handlers: the host stack is bounded.                                    *)
THEOREM CallsAreCounted == Spec => []LevelsCounted
<1>1. IInv2 => LevelsCounted
  <2> SUFFICES ASSUME IInv, Steady(host, th) PROVE LevelsCounted
    BY DEF IInv2, LevelsCounted
  <2> DEFINE Levels(n) == Cardinality({i \in 1 .. n : Counts(host[i])})
  <2>1. \A n : Levels(n) = Count(host, n)
    BY DEF Count
  <2> HIDE DEF Levels
  <2>2. th[Running].nC = Levels(Len(host)) /\ th[Running].nC < MaxCCalls + ExtraCCalls
    BY <2>1, SteadyFacts
  <2>3. \A i \in DOMAIN host : host[i].k = "resume" => th[host[i - 1].L].nC = Levels(i - 1)
    BY <2>1, SteadyFacts DEF Below, LevelsBelow
  <2> QED BY <2>2, <2>3 DEF LevelsCounted, Levels
<1> QED BY <1>1, StrongInvariance, PTL

(* A yield crosses no C function and no protected call: of a coroutine     *)
(* that yields, the host stack holds at most lua_resume and the            *)
(* luaV_execute that it entered, and while it does the coroutine runs.     *)
YieldsCrossNothing ==
    process = "runs" =>
        \A co \in Coroutines : th[co].status = "yield" =>
            \A i \in DOMAIN host : host[i].L = co =>
                /\ host[i].k = "resume" \/ (host[i].k = "exec" /\ ~host[i].called)
                /\ co = Running

(* The function that yields was called by luaV_execute, and that by        *)
(* lua_resume: what lua_yield reads off nCcalls and baseCcalls.            *)
THEOREM YieldsAreDirect == Spec => []YieldsCrossNothing
<1>1. IInv2 => YieldsCrossNothing
  <2> SUFFICES ASSUME IInv, Steady(host, th),
                      NEW co \in Coroutines, th[co].status = "yield",
                      NEW i \in DOMAIN host, host[i].L = co
               PROVE  Light(host[i]) /\ co = Running
    BY DEF IInv2, YieldsCrossNothing, Light
  <2> QED BY DEF Steady, Below, Leaving, Threads, Running, Top
<1> QED BY <1>1, StrongInvariance, PTL

-----------------------------------------------------------------------------
(* What a thread looks like without frames, and after a further frame of   *)
(* its own: hooks are off inside luaD_callhook and GCTM, the message       *)
(* handler is that of the last protected call, functions have a CallInfo.  *)
Blank == [allow |-> TRUE, errf |-> FALSE, ci |-> << >>]
Copies(n) == [j \in 1 .. n |-> "lua"]
After(r, f) ==
    [allow |-> IF f.k = "nohook" THEN FALSE ELSE r.allow,
     errf  |-> IF f.k = "pcall" THEN f.ef ELSE IF f.k = "resume" THEN FALSE ELSE r.errf,
     ci    |-> IF f.k = "exec" THEN r.ci \o Copies(f.n)
               ELSE IF f.k = "c" THEN Append(r.ci, "c") ELSE r.ci]

(* What the first n frames of h say of L. *)
View(h, L) ==
    LET at[n \in 0 .. Len(h)] ==
            IF n = 0 THEN Blank
            ELSE IF h[n].L = L THEN After(at[n - 1], h[n]) ELSE at[n - 1]
    IN  at

Fields ==
    [status : {"ok", "yield", "error"}, ci : Seq({"lua", "c"}), nC : Nat, base : Nat,
     allow : BOOLEAN, errf : BOOLEAN, jmp : Nat, body : BOOLEAN]
Typed(f) ==
    /\ f.k \in {"program", "exec", "c", "pcall", "resume", "error", "nohook"}
    /\ f.k = "exec" => "n" \in DOMAIN f /\ f.n \in Nat \ {0}
    /\ f.k = "pcall" =>
          /\ {"ef", "errf", "allow", "ci"} \subseteq DOMAIN f
          /\ f.ef \in BOOLEAN /\ f.errf \in BOOLEAN /\ f.allow \in BOOLEAN /\ f.ci \in Nat
    /\ f.k = "nohook" => f.old \in BOOLEAN
AllTyped(h, t) == t \in [Threads -> Fields] /\ \A i \in DOMAIN h : Typed(h[i])

Shown(r, v) == r.allow = v.allow /\ r.errf = v.errf
Matches(h, t, L) ==
    /\ Shown(t[L], View(h, L)[Len(h)])
    /\ (\E i \in DOMAIN h : h[i].L = L) /\ t[L].status # "yield" => t[L].ci = View(h, L)[Len(h)].ci

(* What a frame saved of its thread. *)
Saved(h, i) ==
    LET v == View(h, h[i].L)[i - 1] IN
    /\ h[i].k = "pcall" => Shown(h[i], v) /\ h[i].ci = Len(v.ci)
    /\ h[i].k = "nohook" => h[i].old = v.allow

(* The CallInfos of a coroutine that waits for a resume: Lua functions and *)
(* the C function that yielded.                                            *)
Waiting(c) == Len(c) > 1 /\ c[Len(c)] = "c" /\ \A i \in 1 .. Len(c) - 1 : c[i] = "lua"

Exact(h, t) ==
    /\ AllTyped(h, t)
    /\ \A L \in Threads : Matches(h, t, L) /\ (t[L].status = "yield" => Waiting(t[L].ci))
    /\ \A i \in DOMAIN h : Saved(h, i)

-----------------------------------------------------------------------------
(* The view exists, and is determined by the frames.                       *)

LEMMA Induction ==
    ASSUME NEW S, 0 \in S, \A n \in Nat : n \in S => n + 1 \in S
    PROVE  \A n \in Nat : n \in S
<1> DEFINE I == {n \in Nat : n \notin S}
<1> SUFFICES ASSUME I # {} PROVE FALSE
  OBVIOUS
<1>1. I \in SUBSET Nat
  OBVIOUS
<1> DEFINE m == Min(I)
<1>2. m \in I /\ \A j \in I : m <= j
  <2> HIDE DEF I
  <2> QED BY <1>1, Smallest
<1> HIDE DEF m
<1>3. m - 1 \in Nat /\ m - 1 \notin I /\ m - 1 + 1 = m
  BY <1>2
<1> QED BY <1>2, <1>3

LEMMA ViewFacts ==
    ASSUME NEW h, Len(h) \in Nat, NEW L
    PROVE  /\ View(h, L)[0] = Blank
           /\ \A n \in 1 .. Len(h) :
                 View(h, L)[n] = IF h[n].L = L THEN After(View(h, L)[n - 1], h[n]) ELSE View(h, L)[n - 1]
<1> DEFINE Step(f, n) == IF n = 0 THEN Blank ELSE IF h[n].L = L THEN After(f[n - 1], h[n]) ELSE f[n - 1]
           Rec(f, N) == f = [n \in 0 .. N |-> Step(f, n)]
           S == {N \in Nat : \E f : Rec(f, N)}
           view == CHOOSE f : Rec(f, Len(h))
<1>1. View(h, L) = view
  BY Zenon DEF View
<1>2. 0 \in S
  <2> DEFINE f == [n \in 0 .. 0 |-> Blank]
  <2>1. \A n \in 0 .. 0 : Step(f, n) = Blank
    OBVIOUS
  <2>2. Rec(f, 0)
    BY <2>1
  <2> QED BY <2>2
<1>3. ASSUME NEW N \in Nat, N \in S PROVE N + 1 \in S
  <2>1. PICK f : Rec(f, N)
    BY <1>3
  <2> DEFINE g == [n \in 0 .. N + 1 |-> IF n = N + 1 THEN Step(f, n) ELSE f[n]]
  <2>2. \A n \in 0 .. N + 1 : n # 0 => g[n - 1] = f[n - 1]
    OBVIOUS
  <2>3. \A n \in 0 .. N + 1 : Step(g, n) = Step(f, n)
    BY <2>2
  <2>4. \A n \in 0 .. N : f[n] = Step(f, n)
    <3> HIDE DEF Step
    <3> QED BY <2>1
  <2>5. \A n \in 0 .. N + 1 : g[n] = Step(g, n)
    <3>1. SUFFICES ASSUME NEW n \in 0 .. N + 1 PROVE g[n] = Step(f, n)
      BY <2>3
    <3> HIDE DEF Step
    <3> QED BY <2>4
  <2>6. Rec(g, N + 1)
    <3>1. g = [n \in 0 .. N + 1 |-> g[n]]
      OBVIOUS
    <3> HIDE DEF g, Step
    <3> QED BY <2>5, <3>1
  <2>7. \E e : Rec(e, N + 1)
    <3> HIDE DEF g, Rec
    <3> QED BY <2>6
  <2> HIDE DEF Rec
  <2> QED BY <2>7
<1> HIDE DEF Rec
<1>4. Len(h) \in S
  <2> HIDE DEF S
  <2> QED BY <1>2, <1>3, Induction
<1>5. Rec(view, Len(h))
  BY <1>4
<1> HIDE DEF view
<1>6. \A n \in 0 .. Len(h) : view[n] = Step(view, n)
  <2> HIDE DEF Step
  <2> QED BY <1>5 DEF Rec
<1> QED BY <1>1, <1>6

(* What a view depends on, and what a frame saved. *)
Same(g, f) ==
    /\ g.k = f.k /\ g.L = f.L
    /\ f.k = "exec" => g.n = f.n
    /\ f.k = "pcall" => g.ef = f.ef /\ g.errf = f.errf /\ g.allow = f.allow /\ g.ci = f.ci
    /\ f.k = "nohook" => g.old = f.old

LEMMA ViewSame ==
    ASSUME NEW g, NEW h, Len(g) \in Nat, Len(h) \in Nat, NEW L, NEW n \in Nat, n <= Len(g), n <= Len(h),
           \A i \in 1 .. n : Same(g[i], h[i])
    PROVE  \A m \in 0 .. n : View(g, L)[m] = View(h, L)[m]
<1> DEFINE S == {m \in Nat : m <= n => View(g, L)[m] = View(h, L)[m]}
<1>1. 0 \in S
  BY ViewFacts
<1>2. ASSUME NEW m \in Nat, m \in S PROVE m + 1 \in S
  <2>1. SUFFICES ASSUME m + 1 <= n PROVE View(g, L)[m + 1] = View(h, L)[m + 1]
    OBVIOUS
  <2>2. m + 1 \in 1 .. n /\ m + 1 \in 1 .. Len(g) /\ m + 1 \in 1 .. Len(h) /\ m + 1 - 1 = m
    BY <2>1
  <2>3. Same(g[m + 1], h[m + 1]) /\ View(g, L)[m] = View(h, L)[m]
    BY <1>2, <2>1, <2>2
  <2>4. \A r : After(r, g[m + 1]) = After(r, h[m + 1])
    BY <2>3 DEF After, Same
  <2>5. g[m + 1].L = h[m + 1].L
    BY <2>3 DEF Same
  <2> HIDE DEF S
  <2>6. View(g, L)[m + 1] = IF g[m + 1].L = L THEN After(View(g, L)[m], g[m + 1]) ELSE View(g, L)[m]
    BY <2>2, ViewFacts
  <2>7. View(h, L)[m + 1] = IF h[m + 1].L = L THEN After(View(h, L)[m], h[m + 1]) ELSE View(h, L)[m]
    BY <2>2, ViewFacts
  <2> QED BY <2>3, <2>4, <2>5, <2>6, <2>7
<1>3. \A m \in Nat : m \in S
  <2> HIDE DEF S
  <2> QED BY <1>1, <1>2, Induction
<1> QED BY <1>3

(* Frames of others change nothing. *)
LEMMA ViewSkips ==
    ASSUME NEW h, Len(h) \in Nat, NEW L, NEW m \in 0 .. Len(h), NEW n \in m .. Len(h),
           \A i \in m + 1 .. n : h[i].L # L
    PROVE  View(h, L)[n] = View(h, L)[m]
<1> DEFINE S == {i \in Nat : i >= m /\ i <= n => View(h, L)[i] = View(h, L)[m]}
<1>1. 0 \in S
  OBVIOUS
<1>2. ASSUME NEW i \in Nat, i \in S PROVE i + 1 \in S
  <2>1. SUFFICES ASSUME i + 1 >= m, i + 1 <= n PROVE View(h, L)[i + 1] = View(h, L)[m]
    OBVIOUS
  <2>2. CASE i + 1 = m
    BY <2>2
  <2>3. CASE i + 1 # m
    <3>1. i + 1 \in m + 1 .. n /\ i + 1 \in 1 .. Len(h) /\ i + 1 - 1 = i /\ i >= m /\ i <= n
      BY <2>1, <2>3
    <3>2. View(h, L)[i] = View(h, L)[m]
      BY <1>2, <3>1
    <3> HIDE DEF S
    <3> QED BY <3>1, <3>2, ViewFacts
  <2> QED BY <2>2, <2>3
<1>3. n \in S
  <2> HIDE DEF S
  <2> QED BY <1>1, <1>2, Induction
<1> QED BY <1>3

-----------------------------------------------------------------------------
(* CallInfos as sequences. *)
Infos == {"lua", "c"}

LEMMA CopiesFacts ==
    ASSUME NEW n \in Nat
    PROVE  Copies(n) \in Seq(Infos) /\ Len(Copies(n)) = n /\ \A j \in 1 .. n : Copies(n)[j] = "lua"
<1>1. Copies(n) \in [1 .. n -> Infos]
  BY DEF Copies, Infos
<1>2. Copies(n) \in Seq(Infos)
  BY <1>1, SeqDef
<1>3. DOMAIN Copies(n) = 1 .. n /\ DOMAIN Copies(n) = 1 .. Len(Copies(n)) /\ Len(Copies(n)) \in Nat
  BY <1>2, LenProperties DEF Copies
<1> QED BY <1>2, <1>3 DEF Copies

LEMMA FrontOfAppend ==
    ASSUME NEW s \in Seq(Infos), NEW e \in Infos
    PROVE  Front(Append(s, e)) = s
<1> DEFINE g == Append(s, e)
           f == Front(g)
<1>1. g \in Seq(Infos) /\ Len(g) = Len(s) + 1 /\ Len(s) \in Nat /\ \A i \in 1 .. Len(s) : g[i] = s[i]
  BY AppendProperties, LenProperties
<1>2. f = SubSeq(g, 1, Len(s))
  BY <1>1 DEF Front
<1>3. \A i \in 1 .. Len(s) : g[i] \in Infos /\ 1 + i - 1 = i
  BY <1>1, ElementOfSeq
<1> HIDE DEF g, f
<1>4. /\ f \in Seq(Infos) /\ Len(f) = Len(s)
      /\ \A i \in 1 .. Len(s) : f[i] = g[i]
  BY <1>1, <1>2, <1>3, SubSeqProperties
<1>5. \A i \in 1 .. Len(f) : f[i] = s[i]
  BY <1>1, <1>4
<1> QED BY <1>4, <1>5, SeqEqual DEF f, g

(* One more Lua function, and one less. *)
LEMMA CopiesNext ==
    ASSUME NEW s \in Seq(Infos), NEW n \in Nat
    PROVE  s \o Copies(n + 1) = Append(s \o Copies(n), "lua")
<1>1. Copies(n) \in Seq(Infos) /\ Len(Copies(n)) = n /\ \A j \in 1 .. n : Copies(n)[j] = "lua"
  BY CopiesFacts
<1>2. /\ Copies(n + 1) \in Seq(Infos) /\ Len(Copies(n + 1)) = n + 1
      /\ \A j \in 1 .. n + 1 : Copies(n + 1)[j] = "lua"
  BY CopiesFacts
<1> DEFINE a == s \o Copies(n)
           b == s \o Copies(n + 1)
           c == Append(a, "lua")
<1>3. /\ a \in Seq(Infos) /\ Len(a) = Len(s) + n
      /\ \A i \in 1 .. Len(s) + n : a[i] = IF i <= Len(s) THEN s[i] ELSE Copies(n)[i - Len(s)]
  BY <1>1, ConcatProperties
<1>4. /\ b \in Seq(Infos) /\ Len(b) = Len(s) + (n + 1)
      /\ \A i \in 1 .. Len(s) + (n + 1) : b[i] = IF i <= Len(s) THEN s[i] ELSE Copies(n + 1)[i - Len(s)]
  <2> DEFINE d == Copies(n + 1)
  <2>1. d \in Seq(Infos) /\ Len(d) = n + 1
    BY <1>2
  <2> HIDE DEF d
  <2>2. /\ s \o d \in Seq(Infos) /\ Len(s \o d) = Len(s) + Len(d)
        /\ \A i \in 1 .. Len(s) + Len(d) : (s \o d)[i] = IF i <= Len(s) THEN s[i] ELSE d[i - Len(s)]
    BY <2>1, ConcatProperties
  <2> QED BY <2>1, <2>2 DEF d
<1>5. "lua" \in Infos /\ Len(s) \in Nat
  BY LenProperties DEF Infos
<1> HIDE DEF a, b
<1>6. /\ c \in Seq(Infos) /\ Len(c) = Len(a) + 1 /\ c[Len(a) + 1] = "lua"
      /\ \A i \in 1 .. Len(a) : c[i] = a[i]
  BY <1>3, <1>5, AppendProperties
<1> HIDE DEF c
<1>7. ASSUME NEW i \in 1 .. Len(b) PROVE b[i] = c[i]
  <2>0. i \in 1 .. Len(s) + (n + 1) /\ i \in Nat
    BY <1>4, <1>5
  <2>1. CASE i <= Len(s)
    <3>1. i \in 1 .. Len(s) + n
      BY <1>5, <2>0, <2>1
    <3>2. a[i] = s[i] /\ b[i] = s[i]
      BY <1>3, <1>4, <2>0, <2>1, <3>1
    <3> QED BY <1>3, <1>6, <3>1, <3>2
  <2>2. CASE i > Len(s) /\ i <= Len(s) + n
    <3>1. i - Len(s) \in 1 .. n /\ i - Len(s) \in 1 .. n + 1 /\ ~(i <= Len(s)) /\ i \in 1 .. Len(s) + n
      BY <1>5, <2>2
    <3>2. a[i] = "lua" /\ b[i] = "lua"
      BY <1>1, <1>2, <1>3, <1>4, <3>1
    <3> QED BY <1>3, <1>6, <3>1, <3>2
  <2>3. CASE i > Len(s) + n
    <3>1. i = Len(a) + 1 /\ i - Len(s) = n + 1 /\ ~(i <= Len(s)) /\ i \in 1 .. Len(s) + (n + 1) /\ n + 1 \in 1 .. n + 1
      BY <1>3, <1>5, <2>0, <2>3
    <3>2. b[i] = "lua"
      BY <1>2, <1>4, <3>1
    <3> QED BY <1>6, <3>1, <3>2
  <2> QED BY <1>5, <2>0, <2>1, <2>2, <2>3
<1>8. Len(b) = Len(c)
  BY <1>3, <1>4, <1>5, <1>6
<1>9. b = c
  BY <1>4, <1>6, <1>7, <1>8, SeqEqual
<1> QED BY <1>9 DEF a, b, c

LEMMA CopiesZero ==
    ASSUME NEW s \in Seq(Infos)
    PROVE  s \o Copies(0) = s
<1>1. Copies(0) \in Seq(Infos) /\ Len(Copies(0)) = 0
  BY CopiesFacts
<1>2. Copies(0) = << >>
  BY <1>1, EmptySeq
<1> QED BY <1>2, ConcatEmptySeq

LEMMA CopiesFront ==
    ASSUME NEW s \in Seq(Infos), NEW n \in Nat \ {0}
    PROVE  Front(s \o Copies(n)) = s \o Copies(n - 1)
<1>1. n - 1 \in Nat /\ n - 1 + 1 = n /\ "lua" \in Infos
  BY DEF Infos
<1>2. s \o Copies(n - 1) \in Seq(Infos)
  BY <1>1, CopiesFacts, ConcatProperties
<1>3. s \o Copies(n) = Append(s \o Copies(n - 1), "lua")
  BY <1>1, CopiesNext
<1> QED BY <1>1, <1>2, <1>3, FrontOfAppend

-----------------------------------------------------------------------------
(* The values of a view. *)
Views == [allow : BOOLEAN, errf : BOOLEAN, ci : Seq(Infos)]

LEMMA AfterType ==
    ASSUME NEW r \in Views, NEW f, Typed(f)
    PROVE  After(r, f) \in Views
<1>1. r.allow \in BOOLEAN /\ r.errf \in BOOLEAN /\ r.ci \in Seq(Infos)
  BY DEF Views
<1>2. f.k = "exec" => r.ci \o Copies(f.n) \in Seq(Infos)
  <2>1. f.k = "exec" => f.n \in Nat
    BY DEF Typed
  <2> QED BY <1>1, <2>1, CopiesFacts, ConcatProperties
<1>3. Append(r.ci, "c") \in Seq(Infos)
  BY <1>1, AppendProperties DEF Infos
<1>4. f.k = "pcall" => f.ef \in BOOLEAN
  BY DEF Typed
<1> DEFINE a == IF f.k = "nohook" THEN FALSE ELSE r.allow
           e == IF f.k = "pcall" THEN f.ef ELSE IF f.k = "resume" THEN FALSE ELSE r.errf
           c == IF f.k = "exec" THEN r.ci \o Copies(f.n) ELSE IF f.k = "c" THEN Append(r.ci, "c") ELSE r.ci
<1>5. a \in BOOLEAN /\ e \in BOOLEAN /\ c \in Seq(Infos)
  BY <1>1, <1>2, <1>3, <1>4
<1> HIDE DEF a, e, c
<1>6. [allow |-> a, errf |-> e, ci |-> c] \in Views
  BY <1>5 DEF Views
<1> QED BY <1>6 DEF After, a, e, c

LEMMA ViewType ==
    ASSUME NEW h, Len(h) \in Nat, \A i \in 1 .. Len(h) : Typed(h[i]), NEW L
    PROVE  \A n \in 0 .. Len(h) : View(h, L)[n] \in Views
<1> DEFINE S == {n \in Nat : n <= Len(h) => View(h, L)[n] \in Views}
<1>1. 0 \in S
  <2>1. Blank \in Views
    BY EmptySeq DEF Blank, Views
  <2> QED BY <2>1, ViewFacts
<1>2. ASSUME NEW n \in Nat, n \in S PROVE n + 1 \in S
  <2>1. SUFFICES ASSUME n + 1 <= Len(h) PROVE View(h, L)[n + 1] \in Views
    OBVIOUS
  <2>2. View(h, L)[n] \in Views /\ n + 1 \in 1 .. Len(h) /\ n + 1 - 1 = n
    BY <1>2, <2>1
  <2> HIDE DEF S
  <2>3. Typed(h[n + 1])
    BY <2>2
  <2> QED BY <2>2, <2>3, ViewFacts, AfterType
<1>3. \A n \in Nat : n \in S
  <2> HIDE DEF S
  <2> QED BY <1>1, <1>2, Induction
<1> QED BY <1>3

(* Below a frame a thread had fewer CallInfos, and the others are the same. *)
Prefix(s, r) == Len(s) <= Len(r) /\ SubSeq(r, 1, Len(s)) = s

LEMMA PrefixOfConcat ==
    ASSUME NEW s \in Seq(Infos), NEW r \in Seq(Infos), NEW q \in Seq(Infos), Prefix(s, r)
    PROVE  Prefix(s, r \o q)
<1>1. Len(s) \in Nat /\ Len(r) \in Nat /\ Len(q) \in Nat /\ Len(r \o q) = Len(r) + Len(q)
  BY ConcatProperties, LenProperties
<1>2. CASE Len(s) = 0
  <2>1. s = << >>
    BY <1>2, EmptySeq
  <2>2. SubSeq(r \o q, 1, 0) = << >>
    BY SubSeqEmpty
  <2> QED BY <1>1, <1>2, <2>1, <2>2 DEF Prefix
<1>3. CASE Len(s) # 0
  <2>1. 1 \in 1 .. Len(r) /\ Len(s) \in 1 .. Len(r)
    BY <1>1, <1>3 DEF Prefix
  <2>2. SubSeq(r \o q, 1, Len(s)) = SubSeq(r, 1, Len(s))
    BY <2>1, SubSeqOfConcat1
  <2> QED BY <1>1, <2>2 DEF Prefix
<1> QED BY <1>2, <1>3

LEMMA ViewGrows ==
    ASSUME NEW h, Len(h) \in Nat, \A i \in 1 .. Len(h) : Typed(h[i]), NEW L,
           NEW m \in 0 .. Len(h), NEW n \in m .. Len(h)
    PROVE  Prefix(View(h, L)[m].ci, View(h, L)[n].ci)
<1> DEFINE c(i) == View(h, L)[i].ci
           S == {i \in Nat : i >= m /\ i <= n => Prefix(c(m), c(i))}
<1>0. \A i \in 0 .. Len(h) : c(i) \in Seq(Infos)
  BY ViewType DEF Views
<1>1. Prefix(c(m), c(m))
  <2>1. c(m) \in Seq(Infos)
    BY <1>0
  <2> HIDE DEF c
  <2> QED BY <2>1, SubSeqFull, LenProperties DEF Prefix
<1>2. 0 \in S
  <2>1. 0 >= m => m = 0
    OBVIOUS
  <2> HIDE DEF c
  <2> QED BY <1>1, <2>1
<1>3. ASSUME NEW i \in Nat, i \in S PROVE i + 1 \in S
  <2>1. SUFFICES ASSUME i + 1 >= m, i + 1 <= n PROVE Prefix(c(m), c(i + 1))
    OBVIOUS
  <2>2. CASE i + 1 = m
    BY <1>1, <2>2
  <2>3. CASE i + 1 # m
    <3>1. i + 1 \in 1 .. Len(h) /\ i + 1 - 1 = i /\ i >= m /\ i <= n /\ i \in 0 .. Len(h)
      BY <2>1, <2>3
    <3>2. Prefix(c(m), c(i))
      BY <1>3, <3>1
    <3> HIDE DEF S
    <3>3. Typed(h[i + 1]) /\ c(m) \in Seq(Infos) /\ c(i) \in Seq(Infos)
      BY <1>0, <3>1
    <3>4. \/ c(i + 1) = c(i)
          \/ c(i + 1) = c(i) \o Copies(h[i + 1].n) /\ h[i + 1].n \in Nat
          \/ c(i + 1) = Append(c(i), "c")
      <4>1. View(h, L)[i + 1] = IF h[i + 1].L = L THEN After(View(h, L)[i], h[i + 1]) ELSE View(h, L)[i]
        BY <3>1, ViewFacts
      <4>2. CASE h[i + 1].L # L
        BY <4>1, <4>2
      <4>3. CASE h[i + 1].L = L
        <5>1. c(i + 1) = After(View(h, L)[i], h[i + 1]).ci
          BY <4>1, <4>3
        <5>2. CASE h[i + 1].k = "exec"
          BY <3>3, <5>1, <5>2 DEF After, Typed
        <5>3. CASE h[i + 1].k # "exec"
          BY <5>1, <5>3 DEF After
        <5> QED BY <5>2, <5>3
      <4> QED BY <4>2, <4>3
    <3> HIDE DEF c
    <3>5. "c" \in Infos /\ <<"c">> \in Seq(Infos)
      BY DEF Infos
    <3>6. Append(c(i), "c") = c(i) \o <<"c">>
      BY <3>3, <3>5, AppendIsConcat
    <3> HIDE DEF Prefix
    <3>7. \A q \in Seq(Infos) : Prefix(c(m), c(i) \o q)
      BY <3>2, <3>3, PrefixOfConcat
    <3> QED BY <3>2, <3>4, <3>5, <3>6, <3>7, CopiesFacts
  <2> QED BY <2>2, <2>3
<1>4. n \in S
  <2> HIDE DEF S
  <2>1. n \in Nat
    OBVIOUS
  <2> QED BY <1>2, <1>3, <2>1, Induction
<1> HIDE DEF c
<1>5. Prefix(c(m), c(n))
  BY <1>4
<1> QED BY <1>5 DEF c

-----------------------------------------------------------------------------
(* The first n frames stay as they are; above them only R had frames, and  *)
(* only R has some.                                                        *)
LEMMA Rebuilt ==
    ASSUME NEW h, StackOK(h), NEW t, Exact(h, t), NEW g, StackOK(g), NEW u, AllTyped(g, u),
           NEW n \in Nat, n <= Len(h), n <= Len(g), \A i \in 1 .. n : Same(g[i], h[i]),
           NEW R \in Threads,
           \A i \in n + 1 .. Len(h) : h[i].L = R,
           \A i \in n + 1 .. Len(g) : g[i].L = R /\ Saved(g, i),
           \A L \in Threads : L # R => u[L] = t[L],
           Matches(g, u, R), u[R].status = "yield" => Waiting(u[R].ci)
    PROVE  Exact(g, u)
<1>1. /\ Len(h) \in Nat /\ Len(g) \in Nat /\ DOMAIN h = 1 .. Len(h) /\ DOMAIN g = 1 .. Len(g)
  BY StackFacts
<1>2. \A L : \A m \in 0 .. n : View(g, L)[m] = View(h, L)[m]
  BY <1>1, ViewSame
<1>3. \A i \in 1 .. n : g[i].L = h[i].L
  BY DEF Same
<1>4. ASSUME NEW L \in Threads, L # R PROVE Matches(g, u, L)
  <2>1. n \in 0 .. Len(h) /\ Len(h) \in n .. Len(h) /\ n \in 0 .. Len(g) /\ Len(g) \in n .. Len(g) /\ n \in 0 .. n
    BY <1>1
  <2>2. View(h, L)[Len(h)] = View(h, L)[n]
    BY <1>1, <1>4, <2>1, ViewSkips
  <2>3. View(g, L)[Len(g)] = View(g, L)[n]
    BY <1>1, <1>4, <2>1, ViewSkips
  <2>4. View(g, L)[Len(g)] = View(h, L)[Len(h)]
    BY <1>2, <2>1, <2>2, <2>3
  <2>5. (\E i \in DOMAIN g : g[i].L = L) => \E i \in DOMAIN h : h[i].L = L
    <3>1. SUFFICES ASSUME NEW i \in DOMAIN g, g[i].L = L PROVE i \in DOMAIN h /\ h[i].L = L
      OBVIOUS
    <3>2. i \in 1 .. n
      BY <1>1, <1>4, <3>1
    <3> QED BY <1>1, <1>3, <3>1, <3>2
  <2>6. Matches(h, t, L) /\ u[L] = t[L]
    BY <1>4 DEF Exact
  <2> QED BY <2>4, <2>5, <2>6 DEF Matches
<1>5. ASSUME NEW i \in DOMAIN g PROVE Saved(g, i)
  <2>1. CASE i \in 1 .. n
    <3>1. Saved(h, i) /\ Same(g[i], h[i]) /\ i - 1 \in 0 .. n
      BY <1>1, <2>1 DEF Exact
    <3>2. View(g, g[i].L)[i - 1] = View(h, h[i].L)[i - 1]
      BY <1>2, <1>3, <2>1, <3>1
    <3> QED BY <3>1, <3>2 DEF Saved, Same, Shown
  <2>2. CASE i \notin 1 .. n
    BY <1>1, <2>2
  <2> QED BY <2>1, <2>2
<1>6. \A L \in Threads : u[L].status = "yield" => Waiting(u[L].ci)
  BY DEF Exact
<1> QED BY <1>4, <1>5, <1>6 DEF Exact

-----------------------------------------------------------------------------
(* Frames come and go. *)

LEMMA TopView ==
    ASSUME NEW h, StackOK(h), NEW t, Exact(h, t)
    PROVE  LET R == Last(h).L
               N == Len(h) IN
           /\ R \in Threads /\ N \in Nat \ {0} /\ DOMAIN h = 1 .. N /\ Last(h) = h[N]
           /\ \A n \in 0 .. N : View(h, R)[n] \in Views
           /\ View(h, R)[N] = After(View(h, R)[N - 1], Last(h))
           /\ t[R].allow = View(h, R)[N].allow /\ t[R].errf = View(h, R)[N].errf
           /\ t[R].status # "yield" => t[R].ci = View(h, R)[N].ci
           /\ Typed(Last(h)) /\ Saved(h, N)
<1> DEFINE R == Last(h).L
           N == Len(h)
<1>1. N \in Nat \ {0} /\ DOMAIN h = 1 .. N /\ N \in DOMAIN h /\ Last(h) = h[N]
  BY StackFacts DEF Last
<1>2. R \in Threads
  BY <1>1 DEF StackOK, FrameOK
<1>3. Matches(h, t, R) /\ Saved(h, N) /\ \A i \in 1 .. N : Typed(h[i])
  BY <1>1, <1>2 DEF Exact, AllTyped
<1>4. View(h, R)[N] = After(View(h, R)[N - 1], Last(h))
  BY <1>1, ViewFacts
<1>5. \A n \in 0 .. N : View(h, R)[n] \in Views
  BY <1>1, <1>3, ViewType
<1> QED BY <1>1, <1>2, <1>3, <1>4, <1>5 DEF Matches, Shown

LEMMA PushExact ==
    ASSUME NEW h, StackOK(h), NEW t, Exact(h, t), t[Last(h).L].status # "yield",
           NEW f, FrameOK(f), Typed(f), f.k \notin {"program", "resume"}, f.L = Last(h).L,
           NEW u \in [Threads -> Fields], \A L \in Threads : L # f.L => u[L] = t[L],
           u[f.L].status # "yield",
           u[f.L].allow = After(t[f.L], f).allow, u[f.L].errf = After(t[f.L], f).errf,
           u[f.L].ci = After(t[f.L], f).ci,
           f.k = "pcall" => Shown(f, t[f.L]) /\ f.ci = Len(t[f.L].ci),
           f.k = "nohook" => f.old = t[f.L].allow
    PROVE  Exact(Append(h, f), u)
<1> DEFINE g == Append(h, f)
           N == Len(h)
           R == f.L
           v == View(h, R)[N]
<1>1. /\ StackOK(g) /\ Len(g) = N + 1 /\ g[N + 1] = f /\ \A i \in 1 .. N : g[i] = h[i]
      /\ N \in Nat \ {0} /\ DOMAIN h = 1 .. N /\ DOMAIN g = 1 .. N + 1
  BY Pushed, StackFacts
<1>2. R \in Threads /\ t[R].allow = v.allow /\ t[R].errf = v.errf /\ t[R].ci = v.ci
  BY TopView
<1> HIDE DEF g
<1>3. \A i \in 1 .. N : Same(g[i], h[i])
  BY <1>1 DEF Same
<1>4. AllTyped(g, u)
  <2>1. \A i \in DOMAIN g : Typed(g[i])
    <3>1. SUFFICES ASSUME NEW i \in DOMAIN g PROVE Typed(g[i])
      OBVIOUS
    <3>2. CASE i = N + 1
      BY <1>1, <3>2
    <3>3. CASE i # N + 1
      BY <1>1, <3>3 DEF Exact, AllTyped
    <3> QED BY <3>2, <3>3
  <2> QED BY <2>1 DEF AllTyped
<1>5. View(g, R)[N] = v
  BY <1>1, <1>3, ViewSame
<1>6. View(g, R)[N + 1] = After(v, f)
  <2>1. N + 1 \in 1 .. Len(g) /\ N + 1 - 1 = N /\ Len(g) \in Nat
    BY <1>1
  <2> HIDE DEF v
  <2> QED BY <1>1, <1>5, <2>1, ViewFacts
<1>7. /\ After(v, f).allow = After(t[R], f).allow /\ After(v, f).errf = After(t[R], f).errf
      /\ After(v, f).ci = After(t[R], f).ci
  BY <1>2 DEF After
<1> HIDE DEF v
<1>8. Matches(g, u, R)
  BY <1>1, <1>6, <1>7 DEF Matches, Shown
<1>9. Saved(g, N + 1)
  <2>1. N + 1 - 1 = N
    BY <1>1
  <2> QED BY <1>1, <1>2, <1>5, <2>1 DEF Saved, Shown
<1>10. \A i \in N + 1 .. Len(g) : g[i].L = R /\ Saved(g, i)
  <2>1. \A i \in N + 1 .. Len(g) : i = N + 1
    BY <1>1
  <2> QED BY <1>1, <1>9, <2>1
<1>11. \A i \in N + 1 .. Len(h) : h[i].L = R
  BY <1>1
<1>12. N \in Nat /\ N <= Len(h) /\ N <= Len(g)
  BY <1>1
<1> HIDE DEF N, R
<1>13. Exact(g, u)
  BY <1>1, <1>2, <1>3, <1>4, <1>8, <1>10, <1>11, <1>12, Rebuilt DEF R
<1> QED BY <1>13 DEF g

(* The last frame of a thread that goes on, or that yields. *)
LEMMA PopExact ==
    ASSUME NEW h, StackOK(h), NEW t, Exact(h, t), Last(h).k # "program",
           NEW u \in [Threads -> Fields], \A L \in Threads : L # Last(h).L => u[L] = t[L],
           Last(h).k = "resume" => \A i \in 1 .. Len(h) - 1 : h[i].L # Last(h).L,
           u[Last(h).L].allow = IF Last(h).k = "nohook" THEN Last(h).old ELSE t[Last(h).L].allow,
           u[Last(h).L].errf = IF Last(h).k = "pcall" THEN Last(h).errf ELSE t[Last(h).L].errf,
           \/ u[Last(h).L].status = "yield" /\ Waiting(u[Last(h).L].ci)
           \/ /\ u[Last(h).L].status = t[Last(h).L].status /\ t[Last(h).L].status # "yield"
              /\ Last(h).k = "exec" => Last(h).n = 1
              /\ u[Last(h).L].ci = IF Last(h).k \in {"exec", "c"} THEN Front(t[Last(h).L].ci) ELSE t[Last(h).L].ci
    PROVE  Exact(Front(h), u)
<1> DEFINE g == Front(h)
           N == Len(h)
           f == Last(h)
           R == f.L
           v == View(h, R)[N]
           w == View(h, R)[N - 1]
<1>1. /\ R \in Threads /\ N \in Nat \ {0} /\ DOMAIN h = 1 .. N /\ f = h[N]
      /\ v = After(w, f) /\ v \in Views /\ w \in Views
      /\ t[R].allow = v.allow /\ t[R].errf = v.errf
      /\ t[R].status # "yield" => t[R].ci = v.ci
      /\ Typed(f) /\ Saved(h, N)
  BY TopView
<1>2. N # 1 /\ N - 1 \in 1 .. N
  BY <1>1 DEF StackOK, Program
<1>3. /\ StackOK(g) /\ Len(g) = N - 1 /\ \A i \in 1 .. N - 1 : g[i] = h[i]
  BY <1>2, Kept DEF Front
<1>4. DOMAIN g = 1 .. N - 1
  BY <1>3, StackFacts
<1> HIDE DEF g, f, v, w
<1>5. \A i \in 1 .. N - 1 : Same(g[i], h[i])
  BY <1>3 DEF Same
<1>6. AllTyped(g, u)
  BY <1>1, <1>3, <1>4 DEF Exact, AllTyped
<1>7. View(g, R)[N - 1] = w
  <2>1. N - 1 \in Nat /\ N - 1 <= Len(g) /\ N - 1 <= Len(h) /\ Len(g) \in Nat /\ Len(h) \in Nat /\ N - 1 \in 0 .. N - 1
    BY <1>1, <1>2, <1>3
  <2> QED BY <1>5, <2>1, ViewSame DEF w
<1>8. /\ w.allow \in BOOLEAN /\ w.errf \in BOOLEAN /\ w.ci \in Seq(Infos)
  BY <1>1 DEF Views
<1>9. u[R].allow = w.allow
  <2>1. CASE f.k = "nohook"
    BY <1>1, <2>1 DEF Saved, f, w
  <2>2. CASE f.k # "nohook"
    BY <1>1, <2>2 DEF After, f
  <2> QED BY <2>1, <2>2
<1>10. u[R].errf = w.errf
  <2>1. CASE f.k = "pcall"
    BY <1>1, <2>1 DEF Saved, Shown, f, w
  <2>2. CASE f.k = "resume"
    <3>1. v.errf = FALSE
      BY <1>1, <2>2 DEF After
    <3>2. 0 \in 0 .. N /\ N - 1 \in 0 .. N /\ \A i \in 0 + 1 .. N - 1 : h[i].L # R
      BY <1>1, <2>2 DEF f
    <3>3. w = View(h, R)[0]
      <4>1. Len(h) \in Nat /\ 0 \in 0 .. Len(h) /\ N - 1 \in 0 .. Len(h)
        BY <1>1, <1>2, <3>2
      <4>2. View(h, R)[N - 1] = View(h, R)[0]
        <5> DEFINE n == N - 1
        <5>1. n \in 0 .. Len(h) /\ \A i \in 0 + 1 .. n : h[i].L # R
          BY <3>2, <4>1
        <5> HIDE DEF n
        <5>2. View(h, R)[n] = View(h, R)[0]
          BY <4>1, <5>1, ViewSkips
        <5> QED BY <5>2 DEF n
      <4> QED BY <4>2 DEF w
    <3>4. w.errf = FALSE
      BY <1>1, <3>3, ViewFacts DEF Blank
    <3> QED BY <1>1, <2>2, <3>1, <3>4 DEF f
  <2>3. CASE f.k \notin {"pcall", "resume"}
    BY <1>1, <2>3 DEF After, f
  <2> QED BY <2>1, <2>2, <2>3
<1>11. u[R].status # "yield" => u[R].ci = w.ci
  <2>1. SUFFICES ASSUME u[R].status # "yield" PROVE u[R].ci = w.ci
    OBVIOUS
  <2>2. /\ t[R].status # "yield" /\ t[R].ci = v.ci /\ (f.k = "exec" => f.n = 1)
        /\ u[R].ci = IF f.k \in {"exec", "c"} THEN Front(v.ci) ELSE v.ci
    BY <1>1, <2>1 DEF f
  <2>3. CASE f.k = "exec"
    <3>1. v.ci = w.ci \o Copies(1)
      <4>1. f.n = 1
        BY <2>2, <2>3
      <4>2. After(w, f).ci = w.ci \o Copies(f.n)
        BY <2>3 DEF After
      <4> QED BY <1>1, <4>1, <4>2
    <3>2. Front(w.ci \o Copies(1)) = w.ci
      <4>1. 1 \in Nat \ {0} /\ 1 - 1 = 0
        OBVIOUS
      <4>2. Front(w.ci \o Copies(1)) = w.ci \o Copies(1 - 1)
        BY <1>8, <4>1, CopiesFront
      <4> QED BY <1>8, <4>1, <4>2, CopiesZero
    <3> QED BY <2>2, <2>3, <3>1, <3>2
  <2>4. CASE f.k = "c"
    <3>1. v.ci = Append(w.ci, "c")
      BY <1>1, <2>4 DEF After
    <3> QED BY <1>8, <2>2, <2>4, <3>1, FrontOfAppend DEF Infos
  <2>5. CASE f.k \notin {"exec", "c"}
    BY <1>1, <2>2, <2>5 DEF After
  <2> QED BY <2>3, <2>4, <2>5
<1>12. Matches(g, u, R)
  BY <1>3, <1>7, <1>9, <1>10, <1>11 DEF Matches, Shown
<1> DEFINE n == N - 1
<1>13. /\ n \in Nat /\ n <= Len(h) /\ n <= Len(g) /\ \A i \in 1 .. n : Same(g[i], h[i])
       /\ \A i \in n + 1 .. Len(h) : h[i].L = R
       /\ \A i \in n + 1 .. Len(g) : g[i].L = R /\ Saved(g, i)
  <2>0. N \in Nat
    BY <1>1
  <2>1. \A i \in n + 1 .. Len(h) : i = N
    BY <2>0
  <2>2. h[N].L = R
    BY <1>1 DEF f
  <2>3. Len(g) = n
    BY <1>3
  <2>4. n \in Nat /\ n <= N
    BY <1>2, <2>0
  <2>5. \A i \in n + 1 .. n : FALSE
    BY <2>4
  <2> HIDE DEF Same
  <2>6. \A i \in 1 .. n : Same(g[i], h[i])
    BY <1>5
  <2> HIDE DEF n
  <2> QED BY <2>1, <2>2, <2>3, <2>4, <2>5, <2>6
<1>14. u[R].status = "yield" => Waiting(u[R].ci)
  BY <1>1 DEF f
<1>15. \A L \in Threads : L # R => u[L] = t[L]
  BY DEF f
<1> HIDE DEF n, N, R
<1>16. Exact(g, u)
  BY <1>1, <1>3, <1>6, <1>12, <1>13, <1>14, <1>15, Rebuilt
<1> QED BY <1>16 DEF g

(* Frames and threads change in what the view does not show. *)
LEMMA SameExact ==
    ASSUME NEW h, StackOK(h), NEW t, Exact(h, t), NEW g, StackOK(g), NEW u, AllTyped(g, u),
           Len(g) = Len(h), \A i \in 1 .. Len(h) : Same(g[i], h[i]),
           \A L \in Threads :
               /\ u[L].status = t[L].status /\ u[L].ci = t[L].ci
               /\ u[L].allow = t[L].allow /\ u[L].errf = t[L].errf
    PROVE  Exact(g, u)
<1> DEFINE N == Len(h)
<1>1. N \in Nat /\ DOMAIN h = 1 .. N /\ DOMAIN g = 1 .. N /\ Len(g) = N
  BY StackFacts
<1>2. \A L : \A m \in 0 .. N : View(g, L)[m] = View(h, L)[m]
  BY <1>1, ViewSame
<1>3. \A i \in 1 .. N : g[i].L = h[i].L
  BY DEF Same
<1>4. ASSUME NEW L \in Threads PROVE Matches(g, u, L)
  <2>1. View(g, L)[Len(g)] = View(h, L)[Len(h)]
    BY <1>1, <1>2
  <2>2. Matches(h, t, L)
    BY DEF Exact
  <2> QED BY <1>1, <1>3, <2>1, <2>2 DEF Matches, Shown
<1>5. ASSUME NEW i \in DOMAIN g PROVE Saved(g, i)
  <2>1. Saved(h, i) /\ Same(g[i], h[i]) /\ i - 1 \in 0 .. N
    BY <1>1 DEF Exact
  <2>2. View(g, g[i].L)[i - 1] = View(h, h[i].L)[i - 1]
    BY <1>1, <1>2, <1>3, <2>1
  <2> QED BY <2>1, <2>2 DEF Saved, Same, Shown
<1>6. \A L \in Threads : u[L].status = "yield" => Waiting(u[L].ci)
  BY DEF Exact
<1> QED BY <1>4, <1>5, <1>6 DEF Exact

(* A thread without frames changes. *)
LEMMA AbsentView ==
    ASSUME NEW h, Len(h) \in Nat, NEW L, NEW n \in 0 .. Len(h), \A i \in 1 .. n : h[i].L # L
    PROVE  View(h, L)[n] = Blank
<1>1. 0 \in 0 .. Len(h) /\ n \in 0 .. Len(h) /\ \A i \in 0 + 1 .. n : h[i].L # L
  OBVIOUS
<1>2. View(h, L)[n] = View(h, L)[0]
  BY <1>1, ViewSkips
<1> QED BY <1>2, ViewFacts

LEMMA AbsentExact ==
    ASSUME NEW h, StackOK(h), NEW t, Exact(h, t), NEW co \in Threads, \A i \in DOMAIN h : h[i].L # co,
           NEW u \in [Threads -> Fields], \A L \in Threads : L # co => u[L] = t[L],
           u[co].allow = TRUE, u[co].errf = FALSE, u[co].status = "yield" => Waiting(u[co].ci)
    PROVE  Exact(h, u)
<1> DEFINE N == Len(h)
<1>1. N \in Nat /\ DOMAIN h = 1 .. N /\ N <= N
  BY StackFacts
<1>2. View(h, co)[N] = Blank
  BY <1>1, AbsentView
<1>3. Matches(h, u, co)
  <2>1. Blank.allow = TRUE /\ Blank.errf = FALSE
    BY DEF Blank
  <2>2. Shown(u[co], View(h, co)[Len(h)])
    BY <1>2, <2>1 DEF Shown
  <2> QED BY <2>2 DEF Matches
<1>4. AllTyped(h, u)
  BY DEF Exact, AllTyped
<1>5. \A i \in N + 1 .. N : FALSE
  BY <1>1
<1>6. \A i \in 1 .. N : Same(h[i], h[i])
  BY DEF Same
<1>7. N \in Nat /\ N <= Len(h) /\ N = Len(h)
  BY <1>1
<1> HIDE DEF N
<1>8. /\ \A i \in N + 1 .. Len(h) : h[i].L = co
      /\ \A i \in N + 1 .. Len(h) : h[i].L = co /\ Saved(h, i)
  BY <1>5, <1>7
<1> QED BY <1>3, <1>4, <1>6, <1>7, <1>8, Rebuilt

(* luaV_execute goes on with one Lua function more, or less. *)
LEMMA EditTopExact ==
    ASSUME NEW h, StackOK(h), NEW t, Exact(h, t), t[Last(h).L].status # "yield", Last(h).k = "exec",
           NEW f, FrameOK(f), Typed(f), f.k = "exec", f.L = Last(h).L,
           NEW u \in [Threads -> Fields], \A L \in Threads : L # f.L => u[L] = t[L],
           u[f.L].status = t[f.L].status, u[f.L].allow = t[f.L].allow, u[f.L].errf = t[f.L].errf,
           \/ f.n = Last(h).n + 1 /\ u[f.L].ci = Append(t[f.L].ci, "lua")
           \/ f.n = Last(h).n - 1 /\ u[f.L].ci = Front(t[f.L].ci)
    PROVE  Exact([h EXCEPT ![Len(h)] = f], u)
<1> DEFINE g == [h EXCEPT ![Len(h)] = f]
           N == Len(h)
           e == Last(h)
           R == f.L
           n == N - 1
           v == View(h, R)[N]
           w == View(h, R)[n]
<1>1. /\ R \in Threads /\ N \in Nat \ {0} /\ DOMAIN h = 1 .. N /\ e = h[N]
      /\ v = After(w, e) /\ w \in Views
      /\ t[R].allow = v.allow /\ t[R].errf = v.errf /\ t[R].ci = v.ci
      /\ Typed(e)
  BY TopView
<1>2. /\ N \in 2 .. N /\ N \in Nat /\ n \in Nat /\ n <= N /\ N - 1 = n /\ N \in 1 .. N /\ n \in 0 .. n
      /\ \A i \in 1 .. n : i \in 1 .. N /\ i # N
      /\ \A i \in n + 1 .. N : i = N
  <2>1. N \in Nat /\ N # 0
    BY <1>1
  <2>2. N # 1
    <3>1. h[1] = Program /\ Program.k = "program" /\ e.k = "exec"
      BY DEF StackOK, Program
    <3> QED BY <1>1, <3>1
  <2> HIDE DEF N
  <2> QED BY <2>1, <2>2
<1>3. StackOK(g) /\ Len(g) = N /\ g[N] = f /\ \A i \in 1 .. N : i # N => g[i] = h[i]
  BY <1>2, Replaced
<1>4. DOMAIN g = 1 .. N
  BY <1>3, StackFacts
<1>5. e.n \in Nat \ {0} /\ e.k = "exec" /\ f.n \in Nat \ {0}
  BY <1>1 DEF Typed
<1>6. /\ u[R].allow = t[R].allow /\ u[R].errf = t[R].errf
      /\ \/ f.n = e.n + 1 /\ u[R].ci = Append(t[R].ci, "lua")
         \/ f.n = e.n - 1 /\ u[R].ci = Front(t[R].ci)
  OBVIOUS
<1> HIDE DEF g, e, v, w
<1>7. \A i \in 1 .. n : Same(g[i], h[i])
  <2> HIDE DEF n, N
  <2> QED BY <1>2, <1>3 DEF Same
<1>8. AllTyped(g, u)
  <2>1. \A i \in DOMAIN g : Typed(g[i])
    BY <1>1, <1>3, <1>4, <1>5 DEF Exact, AllTyped
  <2> QED BY <2>1 DEF AllTyped
<1>9. View(g, R)[N] = After(w, f)
  <2>1. n \in Nat /\ n <= Len(g) /\ n <= Len(h) /\ Len(g) \in Nat /\ Len(h) \in Nat /\ n \in 0 .. n
    <3> HIDE DEF n
    <3> QED BY <1>2, <1>3
  <2>2. View(g, R)[n] = w
    <3> HIDE DEF n
    <3> QED BY <1>7, <2>1, ViewSame DEF w
  <2>3. N \in 1 .. Len(g) /\ N - 1 = n /\ g[N].L = R
    <3> HIDE DEF n, N
    <3> QED BY <1>2, <1>3
  <2> HIDE DEF n
  <2> QED BY <1>3, <2>1, <2>2, <2>3, ViewFacts
<1>10. After(w, f).allow = v.allow /\ After(w, f).errf = v.errf
  BY <1>1, <1>5 DEF After
<1>11. After(w, f).ci = u[R].ci
  <2>1. After(w, f).ci = w.ci \o Copies(f.n) /\ v.ci = w.ci \o Copies(e.n) /\ w.ci \in Seq(Infos)
    BY <1>1, <1>5 DEF After, Views
  <2>2. CASE f.n = e.n + 1 /\ u[R].ci = Append(t[R].ci, "lua")
    <3>1. w.ci \o Copies(e.n + 1) = Append(w.ci \o Copies(e.n), "lua")
      BY <1>5, <2>1, CopiesNext
    <3> QED BY <1>1, <2>1, <2>2, <3>1
  <2>3. CASE f.n = e.n - 1 /\ u[R].ci = Front(t[R].ci)
    <3>1. Front(w.ci \o Copies(e.n)) = w.ci \o Copies(e.n - 1)
      BY <1>5, <2>1, CopiesFront
    <3> QED BY <1>1, <2>1, <2>3, <3>1
  <2> QED BY <1>6, <2>2, <2>3
<1>12. Matches(g, u, R)
  BY <1>1, <1>3, <1>6, <1>9, <1>10, <1>11 DEF Matches, Shown
<1>13. /\ \A i \in n + 1 .. Len(h) : h[i].L = R
       /\ \A i \in n + 1 .. Len(g) : g[i].L = R /\ Saved(g, i)
  <2>1. \A i \in n + 1 .. N : i = N
    BY <1>2
  <2>2. h[N].L = R /\ g[N].L = R
    BY <1>1, <1>3 DEF e
  <2>3. Saved(g, N)
    BY <1>3 DEF Saved
  <2> HIDE DEF n
  <2> QED BY <1>3, <2>1, <2>2, <2>3
<1>14. u[R].status # "yield"
  OBVIOUS
<1>15. \A L \in Threads : L # R => u[L] = t[L]
  OBVIOUS
<1>16. n <= Len(g) /\ n <= Len(h)
  BY <1>2, <1>3
<1>17. R \in Threads /\ StackOK(g)
  BY <1>1, <1>3
<1> HIDE DEF n, N, R
<1>18. Exact(g, u)
  <2>1. n \in Nat /\ (u[R].status = "yield" => Waiting(u[R].ci))
    BY <1>2, <1>14
  <2> QED BY <1>7, <1>8, <1>12, <1>13, <1>15, <1>16, <1>17, <2>1, Rebuilt
<1> QED BY <1>18 DEF g, N

(* lua_resume starts to run a thread without frames. *)
LEMMA PushResumeExact ==
    ASSUME NEW h, StackOK(h), NEW t, Exact(h, t), NEW co \in Threads, \A i \in DOMAIN h : h[i].L # co,
           NEW f, FrameOK(f), f.k = "resume", f.L = co,
           NEW u \in [Threads -> Fields], \A L \in Threads : L # co => u[L] = t[L],
           Shown(u[co], Blank), u[co].ci = Blank.ci, u[co].status # "yield"
    PROVE  Exact(Append(h, f), u)
<1> DEFINE g == Append(h, f)
           N == Len(h)
<1>1. /\ StackOK(g) /\ Len(g) = N + 1 /\ g[N + 1] = f /\ \A i \in 1 .. N : g[i] = h[i]
      /\ N \in Nat \ {0} /\ DOMAIN h = 1 .. N /\ DOMAIN g = 1 .. N + 1
  BY Pushed, StackFacts
<1> HIDE DEF g
<1>2. \A i \in 1 .. N : Same(g[i], h[i])
  BY <1>1 DEF Same
<1>3. AllTyped(g, u)
  <2>1. Typed(f)
    BY DEF Typed
  <2>2. \A i \in DOMAIN g : Typed(g[i])
    <3>1. SUFFICES ASSUME NEW i \in DOMAIN g PROVE Typed(g[i])
      OBVIOUS
    <3>2. CASE i = N + 1
      BY <1>1, <2>1, <3>2
    <3>3. CASE i # N + 1
      BY <1>1, <3>3 DEF Exact, AllTyped
    <3> QED BY <3>2, <3>3
  <2> QED BY <2>2 DEF AllTyped
<1>4. View(g, co)[N + 1] = After(Blank, f)
  <2>1. /\ N + 1 \in 1 .. Len(g) /\ N + 1 - 1 = N /\ Len(g) \in Nat /\ N \in 0 .. Len(g)
        /\ \A i \in 1 .. N : g[i].L # co
    BY <1>1
  <2>2. View(g, co)[N] = Blank
    BY <2>1, AbsentView
  <2> HIDE DEF N
  <2> QED BY <1>1, <2>1, <2>2, ViewFacts
<1>5. After(Blank, f) = Blank
  BY DEF After, Blank
<1>6. Matches(g, u, co)
  <2>1. View(g, co)[Len(g)] = Blank
    BY <1>1, <1>4, <1>5
  <2> QED BY <2>1 DEF Matches
<1>7. \A i \in N + 1 .. Len(g) : g[i].L = co /\ Saved(g, i)
  <2>1. \A i \in N + 1 .. Len(g) : i = N + 1
    BY <1>1
  <2>2. Saved(g, N + 1)
    BY <1>1 DEF Saved
  <2> QED BY <1>1, <2>1, <2>2
<1>8. /\ N \in Nat /\ N <= Len(h) /\ N <= Len(g)
      /\ \A i \in N + 1 .. Len(h) : h[i].L = co
  BY <1>1
<1> HIDE DEF N
<1>9. Exact(g, u)
  BY <1>1, <1>2, <1>3, <1>6, <1>7, <1>8, Rebuilt
<1> QED BY <1>9 DEF g

-----------------------------------------------------------------------------
(* Errors. *)

(* The frames above the innermost protected call are the running thread's, *)
(* and so is the call.                                                     *)
LEMMA AboveInnermost ==
    ASSUME NEW h, NEW t, NEW x, Good(h, t, x), NEW i, i = Innermost(h), i # 0
    PROVE  /\ i \in 2 .. Len(h) /\ IsTry(h[i]) /\ h[i].L = Last(h).L
           /\ \A j \in i .. Len(h) : h[j].L = Last(h).L
<1>1. Len(h) \in Nat \ {0} /\ DOMAIN h = 1 .. Len(h) /\ Together(h)
  BY StackFacts DEF Good
<1>2. /\ i \in 2 .. Len(h) /\ IsTry(h[i]) /\ h[i].L = Last(h).L
      /\ \A j \in i + 1 .. Len(h) : ~IsTry(h[j])
  BY <1>1, InnermostIsOwn
<1>3. ASSUME NEW j \in i .. Len(h) PROVE h[j].L = h[i].L
  <2>1. i \in DOMAIN h /\ j \in DOMAIN h /\ i <= j /\ \A m \in i + 1 .. j : m \in i + 1 .. Len(h)
    BY <1>1, <1>2
  <2>2. \A m \in i + 1 .. j : h[m].k # "resume"
    BY <1>2, <2>1 DEF IsTry
  <2> QED BY <1>1, <2>1, <2>2 DEF Together
<1> QED BY <1>2, <1>3

LEMMA DeadFields == Dead \in Fields /\ Dead.allow = TRUE /\ Dead.errf = FALSE /\ Dead.ci = << >> /\ Dead.status # "yield"
<1> DEFINE c == << >>
           r == [status |-> "error", ci |-> c, nC |-> 0, base |-> 0,
                 allow |-> TRUE, errf |-> FALSE, jmp |-> 0, body |-> FALSE]
<1>1. c \in Seq({"lua", "c"})
  BY EmptySeq
<1>2. Dead = r
  BY DEF Dead
<1> HIDE DEF c
<1>3. r \in Fields
  BY <1>1 DEF Fields
<1> QED BY <1>2, <1>3 DEF c

LEMMA CaughtExact ==
    ASSUME NEW h, NEW t, Good(h, t, interp), Exact(h, t), Apart(h),
           \A i \in DOMAIN h : h[i].k = "pcall" => h[i].nC \in Nat,
           t[Last(h).L].status = "yield" => \A i \in DOMAIN h : h[i].L = Last(h).L => Light(h[i]),
           Innermost(h) # 0, Caught(h, t, Innermost(h))
    PROVE  Exact(host', th')
<1> DEFINE i == Innermost(h)
           N == Len(h)
           n == i - 1
           f == h[i]
           R == Last(h).L
           g == SubSeq(h, 1, n)
           v == View(h, R)[n]
<1>1. StackOK(h) /\ DOMAIN t = Threads /\ N \in Nat /\ DOMAIN h = 1 .. N
  BY StackFacts DEF Good, ThreadsOK
<1>2. /\ i \in 2 .. N /\ IsTry(f) /\ f.L = R
      /\ \A j \in i .. N : h[j].L = R
  BY AboveInnermost
<1>3. host' = g /\ th' = [t EXCEPT ![R] = IF f.k = "pcall" THEN PcallFailed(@, f) ELSE ResumeFailed(@, f)]
  BY <1>2 DEF Caught
<1> HIDE DEF i, f
<1>4. /\ n \in 1 .. N /\ n \in Nat /\ n <= N /\ i \in 1 .. N /\ i \in Nat /\ n \in 0 .. N /\ n \in 0 .. n
      /\ N \in n .. N /\ n + 1 = i /\ i - 1 = n
  BY <1>1, <1>2
<1> HIDE DEF n, N
<1>5. StackOK(g) /\ Len(g) = n /\ \A j \in 1 .. n : g[j] = h[j]
  BY <1>1, <1>4, Kept DEF N
<1>6. DOMAIN g = 1 .. n
  BY <1>5, StackFacts
<1> HIDE DEF g
<1>7. /\ R \in Threads /\ t \in [Threads -> Fields] /\ Typed(f) /\ Saved(h, i) /\ Matches(h, t, R)
      /\ \A j \in 1 .. N : Typed(h[j])
  <2>1. R \in Threads
    BY <1>1, <1>2, <1>4 DEF StackOK, FrameOK, f
  <2> QED BY <1>1, <1>4, <2>1 DEF Exact, AllTyped, f
<1>8. v \in Views /\ View(h, R)[N] \in Views /\ Prefix(v.ci, View(h, R)[N].ci)
  BY <1>1, <1>4, <1>7, ViewType, ViewGrows DEF N
<1>9. f.jmp \in Nat
  BY <1>1, <1>2, <1>4 DEF Good, Linked, LinkedAt, f
<1>10. View(g, R)[n] = v /\ \A j \in 1 .. n : Same(g[j], h[j])
  <2>1. \A j \in 1 .. n : Same(g[j], h[j])
    BY <1>5 DEF Same
  <2>2. Len(g) \in Nat /\ Len(h) \in Nat /\ n <= Len(g) /\ n <= Len(h)
    BY <1>1, <1>4, <1>5 DEF N
  <2> QED BY <1>4, <2>1, <2>2, ViewSame
<1> HIDE DEF R, v
<1>11. ASSUME th' \in [Threads -> Fields], \A L \in Threads : L # R => th'[L] = t[L],
              th'[R].allow = v.allow, th'[R].errf = v.errf, th'[R].ci = v.ci, th'[R].status # "yield"
       PROVE  Exact(host', th')
  <2>1. AllTyped(g, th')
    BY <1>4, <1>5, <1>6, <1>7, <1>11 DEF AllTyped
  <2>2. Matches(g, th', R)
    BY <1>5, <1>10, <1>11 DEF Matches, Shown
  <2>3. /\ \A j \in n + 1 .. Len(h) : h[j].L = R
        /\ \A j \in n + 1 .. Len(g) : FALSE
    BY <1>2, <1>4, <1>5 DEF N
  <2>4. n <= Len(h) /\ n <= Len(g)
    BY <1>4, <1>5 DEF N
  <2>5. Exact(g, th')
    BY <1>1, <1>4, <1>5, <1>7, <1>10, <1>11, <2>1, <2>2, <2>3, <2>4, Rebuilt
  <2> QED BY <1>3, <2>5
<1>12. CASE f.k = "pcall"
  <2>1. t[R].status # "yield"
    <3>1. ~Light(f)
      BY <1>12 DEF Light
    <3> QED BY <1>1, <1>2, <1>4, <3>1 DEF f, R
  <2>2. /\ th'[R] = PcallFailed(t[R], f) /\ \A L \in Threads : L # R => th'[L] = t[L]
        /\ DOMAIN th' = Threads
    BY <1>1, <1>3, <1>7, <1>12
  <2>3. /\ f.allow = v.allow /\ f.errf = v.errf /\ f.ci = Len(v.ci)
    BY <1>2, <1>4, <1>7, <1>12 DEF Saved, Shown, f, v
  <2>4. t[R].ci = View(h, R)[N].ci
    <3>1. N \in DOMAIN h /\ h[N].L = R
      BY <1>1, <1>2, <1>4
    <3> QED BY <1>7, <2>1, <3>1 DEF Matches, N
  <2>5. SubSeq(t[R].ci, 1, f.ci) = v.ci
    BY <1>8, <2>3, <2>4 DEF Prefix
  <2>6. f.nC \in Nat
    BY <1>1, <1>4, <1>12 DEF f
  <2>7. t[R] \in Fields /\ v.allow \in BOOLEAN /\ v.errf \in BOOLEAN /\ v.ci \in Seq({"lua", "c"})
    BY <1>7, <1>8 DEF Views, Infos
  <2>8. /\ th'[R].allow = v.allow /\ th'[R].errf = v.errf /\ th'[R].ci = v.ci
        /\ th'[R].status = t[R].status
    BY <2>2, <2>3, <2>5, <2>7 DEF PcallFailed, Fields
  <2>9. th'[R] \in Fields
    BY <1>9, <2>2, <2>3, <2>5, <2>6, <2>7 DEF PcallFailed, Fields
  <2>10. th' \in [Threads -> Fields]
    BY <1>3, <1>7, <2>2, <2>9
  <2> QED BY <1>11, <2>1, <2>2, <2>8, <2>10
<1>13. CASE f.k = "resume"
  <2>1. /\ th'[R] = ResumeFailed(t[R], f) /\ \A L \in Threads : L # R => th'[L] = t[L]
        /\ DOMAIN th' = Threads
    BY <1>1, <1>3, <1>7, <1>13
  <2>2. \A j \in 1 .. n : h[j].L # R
    <3>1. SUFFICES ASSUME NEW j \in 1 .. n, h[j].L = R PROVE FALSE
      OBVIOUS
    <3>2. j \in DOMAIN h /\ i \in DOMAIN h /\ j <= i /\ i \in j + 1 .. i
      BY <1>1, <1>4
    <3>3. h[i].k # "resume"
      BY <1>2, <3>1, <3>2 DEF Apart, f
    <3> QED BY <1>13, <3>3 DEF f
  <2>3. v = Blank
    BY <1>1, <1>4, <2>2, AbsentView DEF v, N
  <2>4. /\ th'[R].allow = TRUE /\ th'[R].errf = FALSE /\ th'[R].ci = << >> /\ th'[R].status = "error"
    BY <2>1 DEF ResumeFailed, Dead
  <2>5. th'[R] \in Fields
    <3>1. ResumeFailed(t[R], f) = [Dead EXCEPT !.jmp = f.jmp]
      BY DEF ResumeFailed
    <3>2. [Dead EXCEPT !.jmp = f.jmp] \in Fields
      BY <1>9, DeadFields DEF Fields
    <3> QED BY <2>1, <3>1, <3>2
  <2>6. th' \in [Threads -> Fields]
    BY <1>3, <1>7, <2>1, <2>5
  <2>7. th'[R].allow = v.allow /\ th'[R].errf = v.errf /\ th'[R].ci = v.ci
    BY <2>3, <2>4 DEF Blank
  <2> QED BY <1>11, <2>1, <2>4, <2>6, <2>7
<1> QED BY <1>2, <1>12, <1>13 DEF IsTry

(* Only the frames of the main thread go when it has no protected call.    *)
LEMMA ProgramExact ==
    ASSUME NEW h, StackOK(h), NEW t, Exact(h, t), \A i \in DOMAIN h : h[i].L = Main,
           NEW u \in [Threads -> Fields], \A L \in Threads : L # Main => u[L] = t[L],
           u[Main].allow = TRUE, u[Main].errf = FALSE, u[Main].ci = << >>, u[Main].status # "yield"
    PROVE  Exact(<<Program>>, u)
<1> DEFINE g == <<Program>>
           N == Len(h)
<1>1. N \in Nat \ {0} /\ DOMAIN h = 1 .. N /\ h[1] = Program
  BY StackFacts DEF StackOK
<1>2. /\ Len(g) = 1 /\ DOMAIN g = 1 .. 1 /\ g[1] = Program /\ g \in Seq({Program}) /\ g # << >>
      /\ Program.k = "program" /\ Program.L = Main /\ DOMAIN Program = {"k", "L"} /\ Main \in Threads
  BY DEF Program, Threads
<1> HIDE DEF g, N
<1>3. StackOK(g)
  BY <1>2 DEF StackOK, FrameOK, IsTry
<1>4. \A i \in 1 .. 1 : Same(g[i], h[i])
  BY <1>1, <1>2 DEF Same
<1>5. AllTyped(g, u)
  BY <1>2 DEF AllTyped, Typed
<1>6. View(g, Main)[1] = Blank
  <2>1. 1 \in 1 .. Len(g) /\ 1 - 1 = 0 /\ Len(g) \in Nat
    BY <1>2
  <2>2. View(g, Main)[1] = After(View(g, Main)[0], g[1]) /\ View(g, Main)[0] = Blank
    BY <1>2, <2>1, ViewFacts
  <2>3. After(Blank, Program) = Blank
    BY <1>2 DEF After, Blank
  <2> QED BY <1>2, <2>2, <2>3
<1>7. Matches(g, u, Main)
  <2>1. Blank.allow = TRUE /\ Blank.errf = FALSE /\ Blank.ci = << >>
    BY DEF Blank
  <2> QED BY <1>2, <1>6, <2>1 DEF Matches, Shown
<1>8. /\ 1 \in Nat /\ 1 <= Len(h) /\ 1 <= Len(g)
      /\ \A i \in 1 + 1 .. Len(h) : h[i].L = Main
      /\ \A i \in 1 + 1 .. Len(g) : FALSE
  BY <1>1, <1>2 DEF N
<1>9. Exact(g, u)
  BY <1>2, <1>3, <1>4, <1>5, <1>7, <1>8, Rebuilt
<1> QED BY <1>9 DEF g

(* What CaughtExact and ThrowExact ask of the levels. *)
LEMMA CallsTyped ==
    ASSUME NEW h, StackOK(h), NEW t, Below(h, t)
    PROVE  /\ Apart(h)
           /\ \A i \in DOMAIN h : h[i].k = "pcall" => h[i].nC \in Nat
           /\ t[Last(h).L].status = "yield" => \A i \in DOMAIN h : h[i].L = Last(h).L => Light(h[i])
<1>0. /\ Len(h) \in Nat \ {0} /\ DOMAIN h = 1 .. Len(h)
  BY StackFacts
<1>1. \A i \in DOMAIN h : h[i].k = "pcall" => h[i].nC \in Nat
  <2>1. SUFFICES ASSUME NEW i \in DOMAIN h, h[i].k = "pcall" PROVE h[i].nC \in Nat
    OBVIOUS
  <2>2. i - 1 \in Nat
    BY <1>0
  <2>3. h[i].nC = Count(h, i - 1)
    BY <2>1 DEF Below, LevelsBelow
  <2> QED BY <2>2, <2>3, CountType
<1>2. Last(h).L \in Threads
  BY <1>0 DEF StackOK, FrameOK, Last
<1> QED BY <1>1, <1>2 DEF Below, Leaving

LEMMA ThrowExact ==
    ASSUME NEW h, NEW t, Good(h, t, interp), Below(h, t), Exact(h, t), NEW L \in Threads, Throw(h, t, L),
           \/ L = Last(h).L
           \/ L \in Coroutines /\ (Innermost(h) = 0 => h = <<Program>>)
    PROVE  Exact(host', th')
<1> DEFINE m == t[L].jmp
<1>0. /\ Len(h) \in Nat \ {0} /\ DOMAIN h = 1 .. Len(h) /\ h[1] = Program /\ StackOK(h)
      /\ DOMAIN t = Threads /\ t \in [Threads -> Fields]
  BY StackFacts DEF Good, StackOK, ThreadsOK, Exact, AllTyped
<1>1. /\ Apart(h)
      /\ \A i \in DOMAIN h : h[i].k = "pcall" => h[i].nC \in Nat
      /\ t[Last(h).L].status = "yield" => \A i \in DOMAIN h : h[i].L = Last(h).L => Light(h[i])
  BY <1>0, CallsTyped
<1>2. CASE m # 0
  <2> DEFINE f == [h[m] EXCEPT !.thrown = TRUE]
             g == [h EXCEPT ![m] = f]
  <2>1. m \in 1 .. Len(h) /\ IsTry(h[m])
    BY <1>0, <1>2 DEF Good, Linked, LinkedAt
  <2>2. m \in 2 .. Len(h) /\ m \in DOMAIN h
    BY <1>0, <2>1 DEF IsTry, Program
  <2>3. FrameOK(h[m]) /\ Typed(h[m])
    BY <2>2 DEF Good, StackOK, Exact, AllTyped
  <2>4. f.k = h[m].k /\ f.L = h[m].L /\ f.jmp = h[m].jmp /\ DOMAIN f = DOMAIN h[m]
    BY <2>1, <2>3 DEF FrameOK
  <2>5. /\ h[m].k \in {"pcall", "resume"}
        /\ h[m].k = "pcall" => f.ef = h[m].ef /\ f.errf = h[m].errf /\ f.allow = h[m].allow /\ f.ci = h[m].ci
        /\ h[m].k = "pcall" => f.nC = h[m].nC
    <3>1. h[m].k = "pcall" => "nC" \in DOMAIN h[m]
      BY <2>2 DEF Below, FieldsOK, FrameFields
    <3> QED BY <2>1, <2>3, <3>1 DEF Typed, IsTry
  <2>6. FrameOK(f) /\ Typed(f) /\ Same(f, h[m]) /\ Alike(f, h[m])
    BY <2>1, <2>3, <2>4, <2>5 DEF FrameOK, Typed, Same, Alike, IsTry
  <2>7. f.k = "pcall" => f.nC \in Nat
    BY <1>1, <2>2, <2>4, <2>5
  <2>8. Good(g, t, interp) /\ Len(g) = Len(h)
    BY <2>2, <2>6, EditFrame
  <2>9. Caught(g, t, Innermost(h))
    BY <1>2 DEF Throw
  <2>10. /\ StackOK(g) /\ DOMAIN g = 1 .. Len(h)
         /\ \A i \in 1 .. Len(h) : g[i] = IF i = m THEN f ELSE h[i]
    BY <1>0, <2>8, StackFacts DEF Good
  <2> HIDE DEF f, g
  <2>11. \A i \in 1 .. Len(h) : Same(g[i], h[i]) /\ Typed(g[i]) /\ (g[i].k = "pcall" => g[i].nC \in Nat)
    BY <1>0, <1>1, <2>6, <2>7, <2>10 DEF Same, Exact, AllTyped
  <2>12. AllTyped(g, t)
    BY <1>0, <2>10, <2>11 DEF AllTyped
  <2>13. Exact(g, t)
    BY <1>0, <2>8, <2>10, <2>11, <2>12, SameExact
  <2>14. \A i \in 1 .. Len(h) : g[i].k = h[i].k /\ g[i].L = h[i].L
    BY <2>11 DEF Same
  <2>15. Last(g).L = Last(h).L
    BY <1>0, <2>8, <2>14 DEF Last
  <2>16. Innermost(g) = Innermost(h)
    BY <2>8, <2>15, InnermostIsOwn
  <2>17. Innermost(h) # 0
    <3>1. Innermost(h) = 0 => m \in Innermost(h) + 1 .. Len(h)
      BY <2>1
    <3> QED BY <2>1, <3>1, InnermostIsOwn
  <2>18. Apart(g)
    BY <1>0, <1>1, <2>10, <2>14 DEF Apart
  <2>19. t[Last(g).L].status = "yield" => \A i \in DOMAIN g : g[i].L = Last(g).L => Light(g[i])
    <3>1. Light(h[m]) => Light(f)
      BY <2>1, <2>4 DEF Light, IsTry, f
    <3>2. \A i \in 1 .. Len(h) : Light(h[i]) => Light(g[i])
      BY <2>10, <3>1
    <3> QED BY <1>0, <1>1, <2>10, <2>14, <2>15, <3>2
  <2> QED BY <2>8, <2>9, <2>10, <2>11, <2>13, <2>16, <2>17, <2>18, <2>19, CaughtExact
<1>3. CASE m = 0
  <2> DEFINE u == [t EXCEPT ![L] = Dead]
  <2>1. Caught(h, u, Innermost(h))
    BY <1>3 DEF Throw
  <2>2. /\ u[L] = Dead /\ \A M \in Threads : M # L => u[M] = t[M]
        /\ u \in [Threads -> Fields] /\ Dead.jmp = 0
    BY <1>0, DeadFields DEF Dead
  <2>3. Good(h, u, interp)
    <3>1. ThreadsOK(u) /\ \A M \in Threads : u[M].jmp = t[M].jmp
      BY <1>3, <2>2 DEF ThreadsOK, Fields
    <3> QED BY <3>1, OtherFields
  <2> HIDE DEF u
  <2>33. u[L].allow = TRUE /\ u[L].errf = FALSE /\ u[L].ci = << >> /\ u[L].status # "yield"
    BY <2>2, DeadFields
  <2>4. CASE L = Last(h).L
    <3>1. Innermost(h) = 0
      BY <1>3, <2>4, InnermostIsOwn
    <3>2. \A i \in DOMAIN h : h[i].k # "resume"
      BY <1>0, <3>1, InnermostIsOwn DEF IsTry
    <3>3. ASSUME NEW i \in DOMAIN h PROVE h[i].L = Main
      <4>1. 1 \in DOMAIN h /\ 1 <= i /\ \A j \in 1 + 1 .. i : h[j].k # "resume"
        BY <1>0, <3>2
      <4>2. h[1].L = h[i].L
        BY <4>1 DEF Good, Together
      <4> QED BY <1>0, <4>2 DEF Program
    <3>4. L = Main
      BY <1>0, <2>4, <3>3 DEF Last
    <3>5. Exact(<<Program>>, u)
      <4>1. StackOK(h) /\ Exact(h, t) /\ u \in [Threads -> Fields]
        BY <1>0, <2>2
      <4>2. \A M \in Threads : M # Main => u[M] = t[M]
        BY <2>2, <3>4
      <4>3. u[Main].allow = TRUE /\ u[Main].errf = FALSE /\ u[Main].ci = << >> /\ u[Main].status # "yield"
        BY <2>33, <3>4
      <4> QED BY <3>3, <4>1, <4>2, <4>3, ProgramExact
    <3> QED BY <2>1, <3>1, <3>5 DEF Caught
  <2>5. CASE L # Last(h).L
    <3>1. L \in Coroutines
      BY <2>5
    <3>2. \A i \in DOMAIN h : h[i].L # L
      BY <1>3, <3>1, SuspendedIsInactive
    <3>3. Exact(h, u)
      <4>1. StackOK(h) /\ Exact(h, t) /\ L \in Threads /\ u \in [Threads -> Fields]
        BY <1>0, <2>2
      <4>2. \A M \in Threads : M # L => u[M] = t[M]
        BY <2>2
      <4>3. u[L].status = "yield" => Waiting(u[L].ci)
        BY <2>33
      <4>4. u[L].allow = TRUE /\ u[L].errf = FALSE
        BY <2>33
      <4> QED BY <3>2, <4>1, <4>2, <4>3, <4>4, AbsentExact
    <3>4. CASE Innermost(h) = 0
      BY <2>1, <2>5, <3>3, <3>4 DEF Caught
    <3>5. CASE Innermost(h) # 0
      <4>1. u[Last(h).L] = t[Last(h).L]
        <5>1. Last(h).L \in Threads
          BY <1>0 DEF StackOK, FrameOK, Last
        <5> QED BY <2>2, <2>5, <5>1
      <4> QED BY <1>1, <2>1, <2>3, <3>3, <3>5, <4>1, CaughtExact
    <3> QED BY <3>4, <3>5
  <2> QED BY <2>4, <2>5
<1> QED BY <1>2, <1>3

-----------------------------------------------------------------------------
(* Calls. *)

LEMMA FieldsFacts ==
    ASSUME NEW r \in Fields
    PROVE  /\ r.nC \in Nat /\ r.allow \in BOOLEAN /\ r.errf \in BOOLEAN /\ r.ci \in Seq(Infos)
           /\ \A n \in Nat : [r EXCEPT !.nC = n] \in Fields
           /\ \A c \in Seq(Infos) : [r EXCEPT !.ci = c] \in Fields
           /\ [r EXCEPT !.allow = FALSE] \in Fields
BY DEF Fields, Infos

LEMMA PrecallExact ==
    ASSUME NEW h, NEW t, Good(h, t, interp), Exact(h, t), t[Last(h).L].status # "yield",
           NEW kind, NEW called, Precall(h, t, Last(h).L, kind, called)
    PROVE  Exact(host', th')
<1> DEFINE R == Last(h).L
           f == IF kind = "lua" THEN Exec(R, 1, called)
                ELSE CFunc(R, IF kind = "managed" THEN interp ELSE None, called)
           s == t[R].ci
<1>1. StackOK(h) /\ R \in Threads /\ DOMAIN t = Threads /\ t[R] \in Fields /\ s \in Seq(Infos) /\ interp \in Threads
  <2>1. StackOK(h) /\ R \in Threads /\ t \in [Threads -> Fields] /\ interp \in Threads
    BY TopView DEF Good, Exact, AllTyped
  <2> QED BY <2>1, FieldsFacts
<1>2. host' = Append(h, f) /\ th' = [t EXCEPT ![R].ci = Append(@, CallInfo(kind))]
  BY DEF Precall
<1>3. /\ FrameOK(f) /\ Typed(f) /\ f.k \in {"exec", "c"} /\ f.L = R
  BY <1>1 DEF FrameOK, Typed, IsTry, Exec, CFunc
<1>4. After(t[R], f).allow = t[R].allow /\ After(t[R], f).errf = t[R].errf
  BY <1>3 DEF After
<1>5. After(t[R], f).ci = Append(s, CallInfo(kind))
  <2>1. CASE kind = "lua"
    <3>1. f.k = "exec" /\ f.n = 1 /\ CallInfo(kind) = "lua"
      BY <2>1 DEF Exec, CallInfo
    <3>2. s \o Copies(0 + 1) = Append(s \o Copies(0), "lua") /\ s \o Copies(0) = s
      BY <1>1, CopiesNext, CopiesZero
    <3>3. After(t[R], f).ci = s \o Copies(f.n)
      <4> HIDE DEF f
      <4> QED BY <3>1 DEF After
    <3> HIDE DEF f, s
    <3>4. 0 + 1 = 1
      OBVIOUS
    <3> QED BY <3>1, <3>2, <3>3, <3>4
  <2>2. CASE kind # "lua"
    BY <2>2 DEF CFunc, CallInfo, After
  <2> QED BY <2>1, <2>2
<1> HIDE DEF f
<1>6. Append(s, CallInfo(kind)) \in Seq(Infos)
  <2>1. CallInfo(kind) \in Infos
    BY DEF CallInfo, Infos
  <2> HIDE DEF s
  <2> QED BY <1>1, <2>1, AppendProperties
<1>7. th'[R] = [t[R] EXCEPT !.ci = Append(s, CallInfo(kind))] /\ \A L \in Threads : L # R => th'[L] = t[L]
  BY <1>1, <1>2
<1>8. th'[R] \in Fields
  BY <1>1, <1>6, <1>7, FieldsFacts
<1>9. th' \in [Threads -> Fields]
  BY <1>1, <1>2, <1>7, <1>8 DEF Exact, AllTyped
<1>10. /\ th'[R].allow = t[R].allow /\ th'[R].errf = t[R].errf /\ th'[R].status = t[R].status
       /\ th'[R].ci = Append(s, CallInfo(kind))
  BY <1>1, <1>7 DEF Fields
<1>11. Exact(Append(h, f), th')
  <2>1. f.k \notin {"program", "resume", "pcall", "nohook"}
    BY <1>3
  <2>2. th'[f.L].status # "yield" /\ \A L \in Threads : L # f.L => th'[L] = t[L]
    BY <1>3, <1>7, <1>10
  <2>3. /\ th'[f.L].allow = After(t[f.L], f).allow /\ th'[f.L].errf = After(t[f.L], f).errf
        /\ th'[f.L].ci = After(t[f.L], f).ci
    BY <1>3, <1>4, <1>5, <1>10
  <2>4. StackOK(h) /\ FrameOK(f) /\ Typed(f) /\ f.L = Last(h).L
    BY <1>1, <1>3
  <2> QED BY <1>9, <2>1, <2>2, <2>3, <2>4, PushExact
<1> QED BY <1>2, <1>11

LEMMA DoCallExact ==
    ASSUME NEW h, NEW t, Good(h, t, interp), Steady(h, t), Exact(h, t), t[Last(h).L].status # "yield",
           NEW kind, DoCall(h, t, Last(h).L, kind)
    PROVE  Exact(host', th')
<1> DEFINE R == Last(h).L
           n == t[R].nC + 1
           u == [t EXCEPT ![R].nC = n]
<1>1. StackOK(h) /\ R \in Threads /\ DOMAIN t = Threads /\ t[R] \in Fields /\ n \in Nat
  <2>1. StackOK(h) /\ R \in Threads /\ t \in [Threads -> Fields]
    BY TopView DEF Good, Exact, AllTyped
  <2>2. t[R] \in Fields /\ DOMAIN t = Threads
    BY <2>1
  <2>3. t[R].nC \in Nat
    BY <2>2, FieldsFacts
  <2> QED BY <2>1, <2>2, <2>3
<1>2. \/ host' = Append(h, Error(R, FALSE, TRUE)) /\ th' = u
      \/ Throw(h, u, R)
      \/ Precall(h, u, R, kind, TRUE)
  BY DEF DoCall
<1> HIDE DEF n
<1>3. u[R] = [t[R] EXCEPT !.nC = n] /\ \A L \in Threads : L # R => u[L] = t[L]
  BY <1>1
<1>4. u \in [Threads -> Fields]
  BY <1>1, <1>3, FieldsFacts DEF Exact, AllTyped
<1> HIDE DEF u
<1>5. /\ u[R].allow = t[R].allow /\ u[R].errf = t[R].errf /\ u[R].status = t[R].status /\ u[R].ci = t[R].ci
      /\ u[R].jmp = t[R].jmp /\ u[R].base = t[R].base /\ u[R].body = t[R].body
  BY <1>1, <1>3 DEF Fields
<1>6. /\ \A L \in Threads :
            /\ u[L].status = t[L].status /\ u[L].ci = t[L].ci
            /\ u[L].allow = t[L].allow /\ u[L].errf = t[L].errf /\ u[L].jmp = t[L].jmp
      /\ \A i \in 1 .. Len(h) : Same(h[i], h[i])
  BY <1>3, <1>5 DEF Same
<1>7. Exact(h, u)
  <2>1. AllTyped(h, u)
    BY <1>4 DEF Exact, AllTyped
  <2> QED BY <1>1, <1>6, <2>1, SameExact
<1>8. Good(h, u, interp)
  <2>1. ThreadsOK(u)
    BY <1>4 DEF ThreadsOK, Fields
  <2> QED BY <1>6, <2>1, OtherFields
<1>9. Below(h, u)
  <2>1. FieldsOK(h, u)
    BY <1>4 DEF Steady, Below, FieldsOK, Fields
  <2> QED BY <1>1, <1>3, <1>5, <2>1, RunningChanges DEF Steady
<1>10. CASE host' = Append(h, Error(R, FALSE, TRUE)) /\ th' = u
  <2> DEFINE f == Error(R, FALSE, TRUE)
  <2>1. FrameOK(f) /\ Typed(f) /\ f.k = "error" /\ f.L = R
    BY <1>1 DEF FrameOK, Typed, IsTry, Error
  <2> HIDE DEF f
  <2>2. After(t[R], f).allow = t[R].allow /\ After(t[R], f).errf = t[R].errf /\ After(t[R], f).ci = t[R].ci
    BY <2>1 DEF After
  <2>3. f.k \notin {"program", "resume", "pcall", "nohook"}
    BY <2>1
  <2>4. u[f.L].status # "yield" /\ \A L \in Threads : L # f.L => u[L] = t[L]
    BY <1>3, <1>5, <2>1
  <2>5. /\ u[f.L].allow = After(t[f.L], f).allow /\ u[f.L].errf = After(t[f.L], f).errf
        /\ u[f.L].ci = After(t[f.L], f).ci
    BY <1>5, <2>1, <2>2
  <2>6. StackOK(h) /\ f.L = Last(h).L
    BY <1>1, <2>1
  <2>7. Exact(Append(h, f), u)
    BY <1>4, <2>1, <2>3, <2>4, <2>5, <2>6, PushExact
  <2> QED BY <1>10, <2>7 DEF f
<1>11. CASE Throw(h, u, R)
  BY <1>1, <1>7, <1>8, <1>9, <1>11, ThrowExact
<1>12. CASE Precall(h, u, R, kind, TRUE)
  BY <1>5, <1>7, <1>8, <1>12, PrecallExact
<1> QED BY <1>2, <1>10, <1>11, <1>12

(* The state before a step. *)
LEMMA ExactFacts ==
    ASSUME IInv, Exact(host, th)
    PROVE  /\ StackOK(host) /\ Running \in Threads /\ Running = Last(host).L /\ Top = Last(host)
           /\ th \in [Threads -> Fields] /\ DOMAIN th = Threads /\ th[Running] \in Fields
           /\ FrameOK(Top) /\ Typed(Top)
<1>1. StackOK(host) /\ Running \in Threads /\ FrameOK(Top) /\ Top = Last(host) /\ Running = Last(host).L
  BY HostFacts DEF IInv, Good, Running, Top
<1>2. th \in [Threads -> Fields]
  BY DEF Exact, AllTyped
<1>3. Typed(Top)
  BY <1>1, TopView
<1> QED BY <1>1, <1>2, <1>3

LEMMA CallFunctionExact ==
    ASSUME IInv, Steady(host, th), Exact(host, th), NEW kind, CallFunction(kind)
    PROVE  Exact(host', th')
<1>1. th[Running].status # "yield" /\ DoCall(host, th, Running, kind)
  BY Busy DEF CallFunction
<1>2. Running = Last(host).L
  BY ExactFacts
<1> QED BY <1>1, <1>2, DoCallExact DEF IInv

LEMMA ProtectedCallExact ==
    ASSUME IInv, Steady(host, th), Exact(host, th), NEW kind, NEW e \in BOOLEAN, ProtectedCall(kind, e)
    PROVE  Exact(host', th')
<1> DEFINE R == Running
           f == Pcall(R, th[R], e)
           t == [th EXCEPT ![R].errf = e, ![R].jmp = Len(host) + 1]
           h == Append(host, f)
<1>1. DoCall(h, t, R, kind)
  BY DEF ProtectedCall
<1>2. Good(h, t, interp) /\ Last(h).L = R
  BY PushPcall
<1>3. th[R].status # "yield"
  BY Busy DEF ProtectedCall
<1>4. Steady(h, t) /\ t[R].status # "yield"
  BY <1>3, PcallSteady
<1>5. /\ StackOK(host) /\ R \in Threads /\ R = Last(host).L
      /\ th \in [Threads -> Fields] /\ DOMAIN th = Threads /\ th[R] \in Fields
  BY ExactFacts
<1>6. Len(host) + 1 \in Nat
  BY <1>5, StackFacts
<1>7. /\ t[R] = [th[R] EXCEPT !.errf = e, !.jmp = Len(host) + 1]
      /\ \A L \in Threads : L # R => t[L] = th[L]
      /\ DOMAIN t = Threads
  BY <1>5
<1>8. t[R] \in Fields /\ t[R].allow = th[R].allow /\ t[R].errf = e /\ t[R].ci = th[R].ci
  BY <1>5, <1>6, <1>7 DEF Fields
<1>9. t \in [Threads -> Fields]
  BY <1>5, <1>7, <1>8
<1>10. th[R].allow \in BOOLEAN /\ th[R].errf \in BOOLEAN /\ Len(th[R].ci) \in Nat
  BY <1>5, FieldsFacts, LenProperties
<1>11. /\ FrameOK(f) /\ Typed(f) /\ f.k = "pcall" /\ f.L = R /\ f.ef = e
       /\ Shown(f, th[R]) /\ f.ci = Len(th[R].ci)
  BY <1>5, <1>10 DEF FrameOK, Typed, IsTry, Pcall, Shown
<1> HIDE DEF t, f
<1>12. After(th[R], f).allow = th[R].allow /\ After(th[R], f).errf = e /\ After(th[R], f).ci = th[R].ci
  BY <1>11 DEF After
<1> HIDE DEF R
<1>13. Exact(h, t)
  <2>1. f.k \notin {"program", "resume", "exec", "c", "nohook"}
    BY <1>11
  <2>2. th[Last(host).L].status # "yield" /\ f.L = Last(host).L /\ t[f.L].status # "yield"
    BY <1>3, <1>4, <1>5, <1>11
  <2>3. /\ t[f.L].allow = After(th[f.L], f).allow /\ t[f.L].errf = After(th[f.L], f).errf
        /\ t[f.L].ci = After(th[f.L], f).ci
    BY <1>8, <1>11, <1>12
  <2>4. \A L \in Threads : L # f.L => t[L] = th[L]
    BY <1>7, <1>11
  <2>5. StackOK(host) /\ FrameOK(f) /\ Typed(f) /\ Shown(f, th[f.L]) /\ f.ci = Len(th[f.L].ci)
    BY <1>5, <1>11
  <2> QED BY <1>9, <2>1, <2>2, <2>3, <2>4, <2>5, PushExact
<1> HIDE DEF h
<1> QED BY <1>1, <1>2, <1>4, <1>13, DoCallExact

LEMMA OpCallCExact ==
    ASSUME IInv, Steady(host, th), Exact(host, th), NEW kind, OpCallC(kind)
    PROVE  Exact(host', th')
<1>1. th[Running].status # "yield" /\ Precall(host, th, Running, kind, FALSE)
  BY Busy DEF OpCallC
<1>2. Running = Last(host).L
  BY ExactFacts
<1> QED BY <1>1, <1>2, PrecallExact DEF IInv

(* A call that is counted can be given back. *)
LEMMA CountedTop ==
    ASSUME IInv, Steady(host, th)
    PROVE  Counts(Top) => th[Running].nC - 1 \in Nat
<1> DEFINE n == Len(host) - 1
<1>1. n \in Nat /\ n + 1 = Len(host) /\ Top = host[n + 1]
  BY HostFacts
<1>2. th[Running].nC = Count(host, n + 1)
  BY <1>1, SteadyFacts
<1> HIDE DEF n
<1>3. Count(host, n + 1) = Count(host, n) + (IF Counts(host[n + 1]) THEN 1 ELSE 0) /\ Count(host, n) \in Nat
  BY <1>1, CountNext, CountType
<1> HIDE DEF Counts
<1> QED BY <1>1, <1>2, <1>3

LEMMA OpCallLuaExact ==
    ASSUME IInv, Steady(host, th), Exact(host, th), OpCallLua
    PROVE  Exact(host', th')
<1> DEFINE R == Running
           f == [Top EXCEPT !.n = @ + 1]
           c == Append(th[R].ci, "lua")
<1>1. /\ StackOK(host) /\ R \in Threads /\ R = Last(host).L /\ Top = Last(host)
      /\ th \in [Threads -> Fields] /\ DOMAIN th = Threads /\ th[R] \in Fields
      /\ FrameOK(Top) /\ Typed(Top)
  BY ExactFacts
<1>2. Top.k = "exec" /\ th[R].status # "yield"
  BY DEF OpCallLua, InLua
<1>3. host' = [host EXCEPT ![Len(host)] = f]
  <2>1. host[Len(host)] = Top
    BY HostFacts
  <2> QED BY <2>1 DEF OpCallLua
<1>4. Top.n \in Nat \ {0} /\ "n" \in DOMAIN Top /\ {"k", "L"} \subseteq DOMAIN Top
  BY <1>1, <1>2 DEF Typed, FrameOK
<1>5. f.k = "exec" /\ f.L = R /\ f.n = Top.n + 1 /\ DOMAIN f = DOMAIN Top
  BY <1>1, <1>2, <1>4
<1>6. c \in Seq(Infos)
  <2>1. th[R].ci \in Seq(Infos) /\ "lua" \in Infos
    BY <1>1, FieldsFacts DEF Infos
  <2> QED BY <2>1, AppendProperties
<1> HIDE DEF f
<1>7. FrameOK(f) /\ Typed(f)
  BY <1>1, <1>4, <1>5 DEF FrameOK, Typed, IsTry
<1>8. th' = [th EXCEPT ![R].ci = c]
  BY DEF OpCallLua
<1> HIDE DEF R
<1>9. th'[R] = [th[R] EXCEPT !.ci = c] /\ \A L \in Threads : L # R => th'[L] = th[L]
  BY <1>1, <1>8
<1> HIDE DEF c
<1>10. th' \in [Threads -> Fields]
  BY <1>1, <1>6, <1>8, <1>9, FieldsFacts
<1>11. /\ th'[R].allow = th[R].allow /\ th'[R].errf = th[R].errf /\ th'[R].status = th[R].status
       /\ th'[R].ci = c
  BY <1>1, <1>9 DEF Fields
<1>12. Exact([host EXCEPT ![Len(host)] = f], th')
  <2>1. f.n = Last(host).n + 1 /\ th'[f.L].ci = Append(th[f.L].ci, "lua")
    BY <1>1, <1>5, <1>11 DEF c
  <2>2. th[Last(host).L].status # "yield" /\ Last(host).k = "exec" /\ f.L = Last(host).L
    BY <1>1, <1>2, <1>5
  <2>3. /\ th'[f.L].allow = th[f.L].allow /\ th'[f.L].errf = th[f.L].errf /\ th'[f.L].status = th[f.L].status
        /\ \A L \in Threads : L # f.L => th'[L] = th[L]
    BY <1>5, <1>9, <1>11
  <2>4. StackOK(host) /\ f.k = "exec"
    BY <1>1, <1>5
  <2> QED BY <1>7, <1>10, <2>1, <2>2, <2>3, <2>4, EditTopExact, SMTT(60)
<1> QED BY <1>3, <1>12

(* A frame of the running thread ends, and the thread goes on.             *)
LEMMA PopTopExact ==
    ASSUME IInv, Steady(host, th), Exact(host, th), Top.k # "program", host' = Front(host),
           NEW r \in Fields, th' = [th EXCEPT ![Running] = r],
           r.allow = IF Top.k = "nohook" THEN Top.old ELSE th[Running].allow,
           r.errf = IF Top.k = "pcall" THEN Top.errf ELSE th[Running].errf,
           r.status = th[Running].status,
           \/ r.status = "yield" /\ r.ci = th[Running].ci
           \/ /\ r.status # "yield"
              /\ Top.k = "exec" => Top.n = 1
              /\ r.ci = IF Top.k \in {"exec", "c"} THEN Front(th[Running].ci) ELSE th[Running].ci
    PROVE  Exact(host', th')
<1>1. /\ StackOK(host) /\ Running \in Threads /\ Running = Last(host).L /\ Top = Last(host)
      /\ th \in [Threads -> Fields] /\ DOMAIN th = Threads
  BY ExactFacts
<1>2. th'[Running] = r /\ \A L \in Threads : L # Running => th'[L] = th[L]
  BY <1>1
<1>3. th' \in [Threads -> Fields]
  BY <1>1, <1>2
<1>4. Top.k = "resume" => \A i \in 1 .. Len(host) - 1 : host[i].L # Running
  <2>1. SUFFICES ASSUME Top.k = "resume", NEW i \in 1 .. Len(host) - 1, host[i].L = Running PROVE FALSE
    OBVIOUS
  <2>2. /\ i \in DOMAIN host /\ Len(host) \in DOMAIN host /\ i <= Len(host) /\ Len(host) \in i + 1 .. Len(host)
        /\ host[Len(host)] = Top
    BY HostFacts
  <2>3. Apart(host)
    BY SteadyFacts DEF Below
  <2>4. host[Len(host)].L = Running
    BY <2>2 DEF Running
  <2> QED BY <2>1, <2>2, <2>3, <2>4 DEF Apart
<1>5. th[Running].status = "yield" => Waiting(th[Running].ci)
  BY <1>1 DEF Exact
<1>6. \/ th'[Running].status = "yield" /\ Waiting(th'[Running].ci)
      \/ /\ th'[Running].status = th[Running].status /\ th[Running].status # "yield"
         /\ Top.k = "exec" => Top.n = 1
         /\ th'[Running].ci = IF Top.k \in {"exec", "c"} THEN Front(th[Running].ci) ELSE th[Running].ci
  BY <1>2, <1>5
<1>7. /\ th'[Running].allow = IF Top.k = "nohook" THEN Top.old ELSE th[Running].allow
      /\ th'[Running].errf = IF Top.k = "pcall" THEN Top.errf ELSE th[Running].errf
  BY <1>2
<1>8. Exact(Front(host), th')
  <2>1. /\ \/ th'[Last(host).L].status = "yield" /\ Waiting(th'[Last(host).L].ci)
           \/ /\ th'[Last(host).L].status = th[Last(host).L].status /\ th[Last(host).L].status # "yield"
              /\ Last(host).k = "exec" => Last(host).n = 1
              /\ th'[Last(host).L].ci = IF Last(host).k \in {"exec", "c"} THEN Front(th[Last(host).L].ci)
                                        ELSE th[Last(host).L].ci
    BY <1>1, <1>6
  <2>2. /\ th'[Last(host).L].allow = IF Last(host).k = "nohook" THEN Last(host).old ELSE th[Last(host).L].allow
        /\ th'[Last(host).L].errf = IF Last(host).k = "pcall" THEN Last(host).errf ELSE th[Last(host).L].errf
    BY <1>1, <1>7
  <2>3. /\ \A L \in Threads : L # Last(host).L => th'[L] = th[L]
        /\ Last(host).k = "resume" => \A i \in 1 .. Len(host) - 1 : host[i].L # Last(host).L
        /\ Last(host).k # "program" /\ StackOK(host)
    BY <1>1, <1>2, <1>4
  <2> QED BY <1>3, <2>1, <2>2, <2>3, PopExact, ZenonT(60)
<1> QED BY <1>8


LEMMA TopFront ==
    ASSUME IInv, Exact(host, th), th[Running].status # "yield", Top.k \in {"exec", "c"}
    PROVE  Front(th[Running].ci) \in Seq(Infos)
<1> DEFINE N == Len(host)
           w == View(host, Running)[N - 1]
<1>1. /\ N \in Nat \ {0} /\ w \in Views /\ Typed(Top)
      /\ th[Running].ci = After(w, Top).ci
  <2>1. StackOK(host) /\ Running = Last(host).L /\ Top = Last(host)
    BY ExactFacts
  <2>2. LET R == Last(host).L IN
        /\ N \in Nat \ {0} /\ View(host, R)[N - 1] \in Views
        /\ th[R].status # "yield" => th[R].ci = After(View(host, R)[N - 1], Last(host)).ci
        /\ Typed(Last(host))
    <3>1. N \in Nat \ {0} => N - 1 \in 0 .. N
      OBVIOUS
    <3> QED BY <2>1, <3>1, TopView
  <2> QED BY <2>1, <2>2
<1> HIDE DEF w
<1>2. w.ci \in Seq(Infos)
  BY <1>1 DEF Views
<1>3. CASE Top.k = "exec"
  <2>1. Top.n \in Nat \ {0}
    BY <1>1, <1>3 DEF Typed
  <2>2. th[Running].ci = w.ci \o Copies(Top.n)
    BY <1>1, <1>3 DEF After
  <2>3. Front(w.ci \o Copies(Top.n)) = w.ci \o Copies(Top.n - 1)
    BY <1>2, <2>1, CopiesFront
  <2>4. w.ci \o Copies(Top.n - 1) \in Seq(Infos)
    <3>1. Top.n - 1 \in Nat
      BY <2>1
    <3> QED BY <1>2, <3>1, CopiesFacts, ConcatProperties
  <2> QED BY <2>2, <2>3, <2>4
<1>4. CASE Top.k = "c"
  <2>1. th[Running].ci = Append(w.ci, "c")
    BY <1>1, <1>4 DEF After
  <2> QED BY <1>2, <2>1, FrontOfAppend DEF Infos
<1> QED BY <1>3, <1>4

LEMMA LeftExact ==
    ASSUME IInv, Steady(host, th), Exact(host, th), th[Running].status # "yield",
           Top.k = "c" \/ (Top.k = "exec" /\ Top.n = 1), host' = Front(host),
           th' = [th EXCEPT ![Running] = Left([th[Running] EXCEPT !.ci = Front(@)], Top)]
    PROVE  Exact(host', th')
<1> DEFINE c == Front(th[Running].ci)
           q == [th[Running] EXCEPT !.ci = c]
           n == IF Called(Top) THEN q.nC - 1 ELSE q.nC
           r == [q EXCEPT !.nC = n]
<1>1. th[Running] \in Fields /\ c \in Seq(Infos)
  BY ExactFacts, TopFront
<1>2. th' = [th EXCEPT ![Running] = r]
  BY DEF Left
<1> HIDE DEF c
<1>3. q \in Fields /\ q.nC = th[Running].nC /\ q.ci = c
  <2>1. q \in Fields
    BY <1>1, FieldsFacts
  <2> QED BY <1>1, <2>1 DEF Fields
<1>4. n \in Nat
  <2>1. Called(Top) => th[Running].nC - 1 \in Nat
    BY CountedTop DEF Counts
  <2>2. q.nC \in Nat
    BY <1>3, FieldsFacts
  <2> HIDE DEF q
  <2> QED BY <1>3, <2>1, <2>2
<1> HIDE DEF n
<1>5. r \in Fields
  <2> HIDE DEF q
  <2> QED BY <1>3, <1>4, FieldsFacts
<1>6. /\ r.allow = th[Running].allow /\ r.errf = th[Running].errf /\ r.status = th[Running].status
      /\ r.ci = c
  BY <1>1 DEF Fields
<1> HIDE DEF r
<1>7. Top.k \notin {"program", "nohook", "pcall"} /\ (Top.k = "exec" => Top.n = 1)
  OBVIOUS
<1>8. /\ r.allow = IF Top.k = "nohook" THEN Top.old ELSE th[Running].allow
      /\ r.errf = IF Top.k = "pcall" THEN Top.errf ELSE th[Running].errf
  BY <1>6, <1>7
<1>9. /\ r.status # "yield" /\ (Top.k = "exec" => Top.n = 1)
      /\ r.ci = IF Top.k \in {"exec", "c"} THEN Front(th[Running].ci) ELSE th[Running].ci
  BY <1>6, <1>7 DEF c
<1> QED BY <1>2, <1>5, <1>6, <1>7, <1>8, <1>9, PopTopExact

LEMMA OpReturnExact ==
    ASSUME IInv, Steady(host, th), Exact(host, th), OpReturn
    PROVE  Exact(host', th')
<1> DEFINE R == Running
<1>1. /\ StackOK(host) /\ R \in Threads /\ R = Last(host).L /\ Top = Last(host)
      /\ th \in [Threads -> Fields] /\ DOMAIN th = Threads /\ th[R] \in Fields
      /\ FrameOK(Top) /\ Typed(Top)
  BY ExactFacts
<1>2. Top.k = "exec" /\ th[R].status # "yield"
  BY DEF OpReturn, InLua
<1>3. Top.n \in Nat \ {0} /\ "n" \in DOMAIN Top /\ {"k", "L"} \subseteq DOMAIN Top
  BY <1>1, <1>2 DEF Typed, FrameOK
<1>4. CASE ~(Top.n > 1)
  <2>1. Top.n = 1
    BY <1>3, <1>4
  <2>2. host' = Front(host) /\ th' = [th EXCEPT ![R] = Left([th[R] EXCEPT !.ci = Front(@)], Top)]
    BY <1>4 DEF OpReturn
  <2> QED BY <1>2, <2>1, <2>2, LeftExact
<1>5. CASE Top.n > 1
  <2> DEFINE f == [Top EXCEPT !.n = @ - 1]
             c == Front(th[R].ci)
  <2>1. host' = [host EXCEPT ![Len(host)] = f] /\ th' = [th EXCEPT ![R].ci = c]
    <3>1. host[Len(host)] = Top
      BY HostFacts
    <3> QED BY <1>5, <3>1 DEF OpReturn
  <2>2. f.k = "exec" /\ f.L = R /\ f.n = Top.n - 1 /\ DOMAIN f = DOMAIN Top /\ Top.n - 1 \in Nat \ {0}
    BY <1>1, <1>2, <1>3, <1>5
  <2>3. c \in Seq(Infos)
    BY <1>2, TopFront
  <2> HIDE DEF f
  <2>4. FrameOK(f) /\ Typed(f)
    BY <1>1, <1>3, <2>2 DEF FrameOK, Typed, IsTry
  <2> HIDE DEF R
  <2>5. th'[R] = [th[R] EXCEPT !.ci = c] /\ \A L \in Threads : L # R => th'[L] = th[L]
    BY <1>1, <2>1
  <2> HIDE DEF c
  <2>6. th' \in [Threads -> Fields]
    BY <1>1, <2>1, <2>3, <2>5, FieldsFacts
  <2>7. /\ th'[R].allow = th[R].allow /\ th'[R].errf = th[R].errf /\ th'[R].status = th[R].status
        /\ th'[R].ci = c
    BY <1>1, <2>5 DEF Fields
  <2>8. Exact([host EXCEPT ![Len(host)] = f], th')
    <3>1. f.n = Last(host).n - 1 /\ th'[f.L].ci = Front(th[f.L].ci)
      BY <1>1, <2>2, <2>7 DEF c
    <3>2. th[Last(host).L].status # "yield" /\ Last(host).k = "exec" /\ f.L = Last(host).L
      BY <1>1, <1>2, <2>2
    <3>3. /\ th'[f.L].allow = th[f.L].allow /\ th'[f.L].errf = th[f.L].errf /\ th'[f.L].status = th[f.L].status
          /\ \A L \in Threads : L # f.L => th'[L] = th[L]
      BY <2>2, <2>5, <2>7
    <3>4. StackOK(host) /\ f.k = "exec"
      BY <1>1, <2>2
    <3> QED BY <2>4, <2>6, <3>1, <3>2, <3>3, <3>4, EditTopExact, SMTT(60)
  <2> QED BY <2>1, <2>8
<1> QED BY <1>4, <1>5

LEMMA CReturnsExact ==
    ASSUME IInv, Steady(host, th), Exact(host, th), CReturns
    PROVE  Exact(host', th')
<1>1. th[Running].status # "yield"
  BY Busy DEF CReturns
<1> QED BY <1>1, LeftExact DEF CReturns

(* luaV_execute leaves a thread that yields. *)
LEMMA ExecYieldsExact ==
    ASSUME IInv, Steady(host, th), Exact(host, th), ExecYields
    PROVE  Exact(host', th')
<1>1. th[Running] \in Fields /\ th' = [th EXCEPT ![Running] = th[Running]]
  <2>1. th[Running] \in Fields /\ th \in [Threads -> Fields]
    BY ExactFacts
  <2> QED BY <2>1 DEF ExecYields
<1>2. /\ th[Running].allow = IF Top.k = "nohook" THEN Top.old ELSE th[Running].allow
      /\ th[Running].errf = IF Top.k = "pcall" THEN Top.errf ELSE th[Running].errf
  BY DEF ExecYields
<1>3. Top.k # "program" /\ host' = Front(host) /\ th[Running].status = "yield"
  BY DEF ExecYields
<1> QED BY <1>1, <1>2, <1>3, PopTopExact

LEMMA TopHandler ==
    ASSUME IInv, IsTry(Top)
    PROVE  Top.jmp \in Nat
BY HostFacts DEF IInv, Good, Linked, LinkedAt

LEMMA PcallReturnsExact ==
    ASSUME IInv, Steady(host, th), Exact(host, th), PcallReturns
    PROVE  Exact(host', th')
<1> DEFINE R == Running
           e == Top.errf
           j == Top.jmp
           r == [th[R] EXCEPT !.errf = e, !.jmp = j]
<1>1. th[R] \in Fields /\ DOMAIN th = Threads /\ R \in Threads /\ Typed(Top)
  BY ExactFacts
<1>2. Top.k = "pcall" /\ host' = Front(host) /\ th[R].status # "yield"
  BY SteadyFacts DEF PcallReturns
<1>3. e \in BOOLEAN /\ j \in Nat
  BY <1>1, <1>2, TopHandler DEF Typed, IsTry
<1>4. th' = [th EXCEPT ![R].errf = e, ![R].jmp = j]
  BY DEF PcallReturns
<1> HIDE DEF e, j
<1>5. th' = [th EXCEPT ![R] = r]
  BY <1>1, <1>4
<1>6. /\ r \in Fields /\ r.allow = th[R].allow /\ r.errf = e /\ r.status = th[R].status
      /\ r.ci = th[R].ci
  BY <1>1, <1>3 DEF Fields
<1> HIDE DEF r
<1>7. Top.k \notin {"program", "nohook", "exec", "c"}
  BY <1>2
<1>8. /\ r.allow = IF Top.k = "nohook" THEN Top.old ELSE th[R].allow
      /\ r.errf = IF Top.k = "pcall" THEN Top.errf ELSE th[R].errf
  BY <1>2, <1>6, <1>7 DEF e
<1>9. /\ r.status # "yield" /\ (Top.k = "exec" => Top.n = 1)
      /\ r.ci = IF Top.k \in {"exec", "c"} THEN Front(th[R].ci) ELSE th[R].ci
  BY <1>2, <1>6, <1>7
<1> QED BY <1>2, <1>5, <1>6, <1>7, <1>8, <1>9, PopTopExact

LEMMA NoHookReturnsExact ==
    ASSUME IInv, Steady(host, th), Exact(host, th), NoHookReturns
    PROVE  Exact(host', th')
<1> DEFINE R == Running
           a == Top.old
           r == [th[R] EXCEPT !.allow = a]
<1>1. th[R] \in Fields /\ DOMAIN th = Threads /\ R \in Threads /\ Typed(Top)
  BY ExactFacts
<1>2. Top.k = "nohook" /\ host' = Front(host) /\ th[R].status # "yield"
  BY SteadyFacts DEF NoHookReturns
<1>3. a \in BOOLEAN
  BY <1>1, <1>2 DEF Typed
<1>4. th' = [th EXCEPT ![R].allow = a]
  BY DEF NoHookReturns
<1> HIDE DEF a
<1>5. th' = [th EXCEPT ![R] = r]
  BY <1>1, <1>4
<1>6. /\ r \in Fields /\ r.allow = a /\ r.errf = th[R].errf /\ r.status = th[R].status
      /\ r.ci = th[R].ci
  BY <1>1, <1>3 DEF Fields
<1> HIDE DEF r
<1>7. Top.k \notin {"program", "pcall", "exec", "c"}
  BY <1>2
<1>8. /\ r.allow = IF Top.k = "nohook" THEN Top.old ELSE th[R].allow
      /\ r.errf = IF Top.k = "pcall" THEN Top.errf ELSE th[R].errf
  BY <1>2, <1>6, <1>7 DEF a
<1>9. /\ r.status # "yield" /\ (Top.k = "exec" => Top.n = 1)
      /\ r.ci = IF Top.k \in {"exec", "c"} THEN Front(th[R].ci) ELSE th[R].ci
  BY <1>2, <1>6, <1>7
<1> QED BY <1>2, <1>5, <1>6, <1>7, <1>8, <1>9, PopTopExact

LEMMA ResumeReturnsExact ==
    ASSUME IInv, Steady(host, th), Exact(host, th), ResumeReturns
    PROVE  Exact(host', th')
<1> DEFINE R == Running
           n == th[R].nC - 1
           j == Top.jmp
           r == [th[R] EXCEPT !.nC = n, !.jmp = j]
<1>1. th[R] \in Fields /\ DOMAIN th = Threads /\ R \in Threads
  BY ExactFacts
<1>2. Top.k = "resume" /\ host' = Front(host)
  BY DEF ResumeReturns
<1>3. n \in Nat /\ j \in Nat
  BY <1>2, TopHandler, CountedTop DEF IsTry, Counts
<1>4. th' = [th EXCEPT ![R].nC = n, ![R].jmp = j]
  BY DEF ResumeReturns
<1> HIDE DEF n, j
<1>5. th' = [th EXCEPT ![R] = r]
  BY <1>1, <1>4
<1>6. /\ r \in Fields /\ r.allow = th[R].allow /\ r.errf = th[R].errf /\ r.status = th[R].status
      /\ r.ci = th[R].ci
  BY <1>1, <1>3 DEF Fields
<1> HIDE DEF r
<1>7. Top.k \notin {"program", "pcall", "nohook", "exec", "c"}
  BY <1>2
<1>8. /\ r.allow = IF Top.k = "nohook" THEN Top.old ELSE th[R].allow
      /\ r.errf = IF Top.k = "pcall" THEN Top.errf ELSE th[R].errf
  BY <1>6, <1>7
<1>9. \/ r.status = "yield" /\ r.ci = th[R].ci
      \/ /\ r.status # "yield"
         /\ Top.k = "exec" => Top.n = 1
         /\ r.ci = IF Top.k \in {"exec", "c"} THEN Front(th[R].ci) ELSE th[R].ci
  BY <1>6, <1>7
<1> QED BY <1>2, <1>5, <1>6, <1>7, <1>8, <1>9, PopTopExact

(* luaG_errormsg starts. *)
LEMMA RaiseErrorExact ==
    ASSUME IInv, Exact(host, th), th[Running].status # "yield",
           host' = Append(host, Error(Running, FALSE, FALSE)), th' = th
    PROVE  Exact(host', th')
<1> DEFINE R == Running
           f == Error(R, FALSE, FALSE)
<1>1. StackOK(host) /\ R \in Threads /\ R = Last(host).L /\ th \in [Threads -> Fields]
  BY ExactFacts
<1>2. FrameOK(f) /\ Typed(f) /\ f.k = "error" /\ f.L = R
  BY <1>1 DEF FrameOK, Typed, IsTry, Error
<1>3. host' = Append(host, f)
  OBVIOUS
<1> HIDE DEF f, R
<1>4. After(th[R], f).allow = th[R].allow /\ After(th[R], f).errf = th[R].errf /\ After(th[R], f).ci = th[R].ci
  BY <1>2 DEF After
<1>5. f.k \notin {"program", "resume", "pcall", "nohook"}
  BY <1>2
<1>6. /\ th'[f.L].status # "yield" /\ th[Last(host).L].status # "yield"
      /\ \A L \in Threads : L # f.L => th'[L] = th[L]
  BY <1>1, <1>2 DEF R
<1>7. /\ th'[f.L].allow = After(th[f.L], f).allow /\ th'[f.L].errf = After(th[f.L], f).errf
      /\ th'[f.L].ci = After(th[f.L], f).ci
  BY <1>2, <1>4
<1>8. StackOK(host) /\ f.L = Last(host).L /\ th' \in [Threads -> Fields]
  BY <1>1, <1>2
<1>9. Exact(Append(host, f), th')
  BY <1>2, <1>5, <1>6, <1>7, <1>8, PushExact
<1> QED BY <1>3, <1>9

LEMMA ThrowTopExact ==
    ASSUME IInv, Steady(host, th), Exact(host, th), Throw(host, th, Running)
    PROVE  Exact(host', th')
<1>1. Running \in Threads /\ Running = Last(host).L /\ Below(host, th)
  BY HostFacts, SteadyFacts
<1> QED BY <1>1, ThrowExact DEF IInv

LEMMA ErrorMessageExact ==
    ASSUME IInv, Steady(host, th), Exact(host, th), NEW kind, ErrorMessage(kind)
    PROVE  Exact(host', th')
<1>1. CASE Throw(host, th, Running)
  BY <1>1, ThrowTopExact
<1>2. CASE DoCall(Append(Front(host), [Top EXCEPT !.handled = TRUE]), th, Running, kind)
  <2> DEFINE f == [Top EXCEPT !.handled = TRUE]
             h == [host EXCEPT ![Len(host)] = f]
  <2>1. Top.k = "error" /\ th[Running].status # "yield"
    BY SteadyFacts DEF ErrorMessage
  <2>2. /\ Alike(f, Top) /\ Counted(f, Top) /\ FrameOK(f) /\ FrameFields(f)
        /\ f.L = Running /\ f.k # "program"
    BY <2>1, HostFacts, SteadyFacts DEF Alike, Counted, FrameOK, FrameFields, IsTry, Running
  <2> HIDE DEF f
  <2>3. Append(Front(host), f) = h
    BY <2>1, <2>2, ReplaceTop DEF IInv, Good, Top
  <2>4. Good(h, th, interp) /\ Len(h) = Len(host)
    BY <2>1, <2>2, HostFacts, EditFrame DEF IInv
  <2>5. Last(h).L = Running
    BY <2>2, <2>4, HostFacts DEF Last
  <2>6. Steady(h, th)
    <3>1. Len(host) \in 2 .. Len(host) /\ Counted(f, host[Len(host)])
      BY <2>1, <2>2, HostFacts
    <3> QED BY <2>2, <3>1, SteadyFacts, EditCounted
  <2>7. \A i \in 1 .. Len(host) : h[i] = IF i = Len(host) THEN f ELSE host[i]
    BY HostFacts
  <2>8. /\ StackOK(host) /\ StackOK(h) /\ DOMAIN h = 1 .. Len(host) /\ DOMAIN host = 1 .. Len(host)
        /\ host[Len(host)] = Top
    <3>1. StackOK(host) /\ StackOK(h)
      BY <2>4, SteadyFacts DEF Good
    <3> HIDE DEF h
    <3> QED BY <2>4, <3>1, StackFacts, HostFacts
  <2> HIDE DEF h
  <2>9. Same(f, Top) /\ Typed(f)
    BY <2>1, <2>2 DEF Alike, Same, Typed
  <2>10. \A i \in 1 .. Len(host) : Same(h[i], host[i]) /\ Typed(h[i])
    BY <2>7, <2>8, <2>9 DEF Same, Exact, AllTyped
  <2>11. AllTyped(h, th)
    BY <2>8, <2>10 DEF Exact, AllTyped
  <2>12. Exact(h, th)
    BY <2>4, <2>8, <2>10, <2>11, SameExact
  <2>13. DoCall(h, th, Running, kind)
    BY <1>2, <2>3 DEF f
  <2> QED BY <2>1, <2>4, <2>5, <2>6, <2>12, <2>13, DoCallExact
<1> QED BY <1>1, <1>2 DEF ErrorMessage

(* An exception without a protected call around it is torn; see Next.      *)
LEMMA ClrExceptionExact ==
    ASSUME IInv, Steady(host, th), Exact(host, th), ClrException
    PROVE  AllTyped(host', th') /\ (process' = "runs" => Exact(host', th'))
<1>1. CASE Innermost(host) # 0
  <2>1. Caught(host, th, Innermost(host)) /\ StackOK(host) /\ Below(host, th)
    BY SteadyFacts DEF ClrException
  <2>2. Exact(host', th')
    BY <1>1, <2>1, CallsTyped, CaughtExact DEF IInv
  <2> QED BY <2>2 DEF Exact
<1>2. CASE Innermost(host) = 0
  <2>1. host' = <<Program>> /\ th' = th /\ process' # "runs"
    BY <1>2 DEF ClrException, Caught
  <2>2. \A i \in DOMAIN <<Program>> : Typed(<<Program>>[i])
    BY DEF Typed, Program
  <2> QED BY <2>1, <2>2 DEF Exact, AllTyped
<1> QED BY <1>1, <1>2

(* luaD_throw on a thread that does not run. *)
LEMMA ResumeNoMemoryExact ==
    ASSUME IInv, Steady(host, th), Exact(host, th), NEW co \in Coroutines, ResumeNoMemory(co)
    PROVE  AllTyped(host', th') /\ (process' = "runs" => Exact(host', th'))
<1>1. co \in Threads /\ Throw(host, th, co) /\ Below(host, th)
  BY SteadyFacts DEF ResumeNoMemory, Threads
<1>2. CASE Innermost(host) # 0
  <2>1. Exact(host', th')
    BY <1>1, <1>2, ThrowExact DEF IInv
  <2> QED BY <2>1 DEF Exact
<1>3. CASE Innermost(host) = 0 /\ Top = Program
  <2>1. Len(host) = 1
    <3>1. Len(host) \in DOMAIN host /\ host[Len(host)].k = "program"
      BY <1>3, HostFacts DEF Program
    <3> QED BY <3>1, SteadyFacts DEF StackOK
  <2>2. host = <<Program>>
    <3>1. StackOK(host) /\ host[1] = Program
      BY SteadyFacts DEF StackOK
    <3>2. PICK S : host \in Seq(S)
      BY <3>1 DEF StackOK
    <3>3. <<Program>> \in Seq({Program}) /\ Len(<<Program>>) = 1 /\ <<Program>>[1] = Program
      OBVIOUS
    <3> HIDE DEF Program
    <3>4. host \in Seq(S \cup {Program}) /\ <<Program>> \in Seq(S \cup {Program})
      BY <3>2, <3>3, SeqMonotonic
    <3>5. \A i \in 1 .. Len(host) : host[i] = <<Program>>[i]
      BY <2>1, <3>1, <3>3
    <3> QED BY <2>1, <3>3, <3>4, <3>5, SeqEqual
  <2>3. Exact(host', th')
    BY <1>1, <2>2, ThrowExact DEF IInv
  <2> QED BY <2>3 DEF Exact
<1>4. CASE Innermost(host) = 0 /\ Top # Program
  <2>1. process' # "runs"
    BY <1>4 DEF ResumeNoMemory
  <2>2. th[co].jmp = 0
    <3>1. th[co].jmp \in Nat /\ (th[co].jmp # 0 => th[co].jmp \in 1 .. Len(host) /\ IsTry(host[th[co].jmp]))
      <4>1. Len(host) \in Nat
        BY HostFacts
      <4> QED BY <1>1, <4>1 DEF IInv, Good, Linked, LinkedAt
    <3>2. \A j \in Innermost(host) + 1 .. Len(host) : ~IsTry(host[j])
      BY InnermostIsOwn DEF IInv
    <3>3. \A j \in 1 .. Len(host) : ~IsTry(host[j])
      BY <1>4, <3>2
    <3> QED BY <3>1, <3>3
  <2>3. host' = <<Program>> /\ th' = [th EXCEPT ![co] = Dead]
    BY <1>1, <1>4, <2>2 DEF Throw, Caught
  <2>4. th' \in [Threads -> Fields]
    BY <1>1, <2>3, DeadFields DEF Exact, AllTyped
  <2>5. \A i \in DOMAIN <<Program>> : Typed(<<Program>>[i])
    BY DEF Typed, Program
  <2> QED BY <2>1, <2>3, <2>4, <2>5 DEF AllTyped
<1> QED BY <1>2, <1>3, <1>4

-----------------------------------------------------------------------------
(* Hooks and the collector. *)

LEMMA NoHookExact ==
    ASSUME IInv, Exact(host, th), th[Running].status # "yield", NEW w
    PROVE  Exact(Append(host, NoHook(Running, th[Running], w)), [th EXCEPT ![Running].allow = FALSE])
<1> DEFINE R == Running
           f == NoHook(R, th[R], w)
           u == [th EXCEPT ![R].allow = FALSE]
<1>1. /\ StackOK(host) /\ R \in Threads /\ R = Last(host).L
      /\ th \in [Threads -> Fields] /\ DOMAIN th = Threads /\ th[R] \in Fields
  BY ExactFacts
<1>2. th[R].allow \in BOOLEAN
  BY <1>1, FieldsFacts
<1>3. FrameOK(f) /\ Typed(f) /\ f.k = "nohook" /\ f.L = R /\ f.old = th[R].allow
  BY <1>1, <1>2 DEF FrameOK, Typed, IsTry, NoHook
<1>4. u[R] = [th[R] EXCEPT !.allow = FALSE] /\ \A L \in Threads : L # R => u[L] = th[L]
  BY <1>1
<1>5. u \in [Threads -> Fields]
  BY <1>1, <1>4, FieldsFacts
<1>6. u[R].allow = FALSE /\ u[R].errf = th[R].errf /\ u[R].status = th[R].status /\ u[R].ci = th[R].ci
  BY <1>1, <1>4 DEF Fields
<1> HIDE DEF f, u
<1>7. After(th[R], f).allow = FALSE /\ After(th[R], f).errf = th[R].errf /\ After(th[R], f).ci = th[R].ci
  BY <1>3 DEF After
<1> HIDE DEF R
<1>8. f.k \notin {"program", "resume", "pcall"} /\ f.old = th[f.L].allow
  BY <1>3
<1>9. /\ u[f.L].status # "yield" /\ th[Last(host).L].status # "yield"
      /\ \A L \in Threads : L # f.L => u[L] = th[L]
  BY <1>1, <1>3, <1>4, <1>6 DEF R
<1>10. /\ u[f.L].allow = After(th[f.L], f).allow /\ u[f.L].errf = After(th[f.L], f).errf
       /\ u[f.L].ci = After(th[f.L], f).ci
  BY <1>3, <1>6, <1>7
<1>11. StackOK(host) /\ f.L = Last(host).L
  BY <1>1, <1>3
<1>12. Exact(Append(host, f), u)
  BY <1>3, <1>5, <1>8, <1>9, <1>10, <1>11, PushExact
<1> QED BY <1>12 DEF f, u, R

LEMMA CallHookExact ==
    ASSUME IInv, Steady(host, th), Exact(host, th), CallHook
    PROVE  Exact(host', th')
BY Busy, NoHookExact DEF CallHook

LEMMA CallGCTMExact ==
    ASSUME IInv, Steady(host, th), Exact(host, th), NEW kind, CallGCTM(kind)
    PROVE  Exact(host', th')
<1> DEFINE h == Append(host, NoHook(Running, th[Running], "gc"))
           t == [th EXCEPT ![Running].allow = FALSE]
<1>1. DoCall(h, t, Running, kind) /\ th[Running].status # "yield" /\ Running \in Threads
  BY Busy, HostFacts DEF CallGCTM
<1>2. Good(h, t, interp) /\ Last(h).L = Running
  BY PushNoHook
<1>3. Steady(h, t) /\ Exact(h, t)
  BY <1>1, NoHookSteady, NoHookExact
<1>4. t[Running].status # "yield"
  BY <1>1, SteadyFacts
<1> HIDE DEF h, t
<1> QED BY <1>1, <1>2, <1>3, <1>4, DoCallExact

-----------------------------------------------------------------------------
(* Coroutines. *)

LEMMA WaitingFacts ==
    ASSUME NEW n \in Nat \ {0}
    PROVE  Waiting(Append(<< >> \o Copies(n), "c"))
<1> DEFINE s == << >> \o Copies(n)
           c == Append(s, "c")
<1>1. Copies(n) \in Seq(Infos) /\ Len(Copies(n)) = n /\ \A j \in 1 .. n : Copies(n)[j] = "lua"
  BY CopiesFacts
<1>2. s = Copies(n)
  BY <1>1, ConcatEmptySeq
<1> HIDE DEF s
<1>3. /\ Len(c) = n + 1 /\ c[n + 1] = "c" /\ \A i \in 1 .. n : c[i] = s[i]
  <2>1. s \in Seq(Infos) /\ Len(s) = n /\ "c" \in Infos
    BY <1>1, <1>2 DEF Infos
  <2> QED BY <2>1, AppendProperties
<1> HIDE DEF c
<1>4. \A i \in 1 .. Len(c) - 1 : c[i] = "lua"
  BY <1>1, <1>2, <1>3
<1>5. Waiting(c)
  BY <1>3, <1>4 DEF Waiting
<1> QED BY <1>5 DEF c, s

(* What a coroutine leaves that yields. *)
LEMMA YieldLeaves ==
    ASSUME IInv, Steady(host, th), Exact(host, th), Top.k = "c", ~(th[Running].nC > th[Running].base)
    PROVE  Waiting(th[Running].ci)
<1> DEFINE N == Len(host)
           R == Running
           at(n) == View(host, R)[n]
<1>1. /\ StackOK(host) /\ R \in Threads /\ N \in Nat \ {0} /\ DOMAIN host = 1 .. N /\ Top = host[N]
      /\ host[1] = Program /\ R = host[N].L
  BY HostFacts, ExactFacts DEF StackOK, Running
<1>2. th[R].status # "yield"
  BY Busy
<1>3. /\ ~Counts(Top)
      /\ \A i \in 1 .. N - 1 : host[i].L = R => Light(host[i])
  BY YieldsFromExec
<1>4. Apart(host) /\ Placed(host) /\ Together(host) /\ \A i \in 1 .. N : Typed(host[i])
  BY <1>1, SteadyFacts DEF Below, Exact, AllTyped
<1> HIDE DEF N, R, at
<1>5. ~host[N].called /\ host[N].k = "c" /\ N # 1
  BY <1>1, <1>3 DEF Counts, Called, Program
<1>6. N - 1 \in 1 .. N /\ N - 1 \in 1 .. N - 1 /\ N \in 1 .. N /\ N - 1 <= N
  BY <1>1, <1>5
<1>7. host[N - 1].k = "exec"
  BY <1>1, <1>4, <1>5, <1>6 DEF Placed
<1>8. host[N - 1].L = R
  <2>1. \A n \in N - 1 + 1 .. N : n = N
    BY <1>1
  <2>2. \A n \in N - 1 + 1 .. N : host[n].k # "resume"
    BY <1>5, <2>1
  <2> QED BY <1>1, <1>4, <1>6, <2>2 DEF Together
<1>9. ~host[N - 1].called
  BY <1>3, <1>6, <1>7, <1>8 DEF Light
<1>10. N - 1 # 1 /\ N - 2 \in 1 .. N /\ N - 1 - 1 = N - 2 /\ N - 2 <= N - 1
  <2>1. N - 1 # 1
    BY <1>1, <1>7 DEF Program
  <2> QED BY <1>1, <1>6, <2>1
<1>11. host[N - 2].k = "resume"
  BY <1>1, <1>4, <1>6, <1>7, <1>9, <1>10 DEF Placed
<1>12. host[N - 2].L = R
  <2>1. \A n \in N - 2 + 1 .. N - 1 : n = N - 1
    BY <1>1
  <2>2. \A n \in N - 2 + 1 .. N - 1 : host[n].k # "resume"
    BY <1>7, <2>1
  <2> QED BY <1>1, <1>4, <1>6, <1>8, <1>10, <2>2 DEF Together
<1>13. \A i \in 1 .. N - 3 : host[i].L # R
  <2>1. SUFFICES ASSUME NEW i \in 1 .. N - 3, host[i].L = R PROVE FALSE
    OBVIOUS
  <2>2. i \in 1 .. N /\ i <= N - 2 /\ N - 2 \in i + 1 .. N - 2
    BY <1>1, <1>10
  <2> QED BY <1>1, <1>4, <1>10, <1>11, <1>12, <2>1, <2>2 DEF Apart
<1>14. at(N - 3) = Blank
  <2>1. Len(host) \in Nat /\ N - 3 \in 0 .. Len(host)
    BY <1>1, <1>10 DEF N
  <2> QED BY <1>13, <2>1, AbsentView DEF at
<1>15. /\ at(N - 2) = After(at(N - 3), host[N - 2])
       /\ at(N - 1) = After(at(N - 2), host[N - 1])
       /\ at(N) = After(at(N - 1), host[N])
  <2>1. \A n \in 1 .. N : at(n) = IF host[n].L = R THEN After(at(n - 1), host[n]) ELSE at(n - 1)
    BY <1>1, ViewFacts DEF at, N
  <2>2. N - 2 - 1 = N - 3 /\ N - 1 - 1 = N - 2
    BY <1>1
  <2> QED BY <1>1, <1>6, <1>8, <1>10, <1>12, <2>1, <2>2
<1>16. at(N - 2).ci = << >>
  BY <1>11, <1>14, <1>15 DEF After, Blank
<1>17. at(N - 1).ci = << >> \o Copies(host[N - 1].n)
  <2>1. at(N - 1).ci = at(N - 2).ci \o Copies(host[N - 1].n)
    <3>1. \A r : After(r, host[N - 1]).ci = r.ci \o Copies(host[N - 1].n)
      BY <1>7 DEF After
    <3> QED BY <1>15, <3>1
  <2> QED BY <1>16, <2>1
<1>18. at(N).ci = Append(at(N - 1).ci, "c")
  BY <1>5, <1>15 DEF After
<1>19. host[N - 1].n \in Nat \ {0}
  BY <1>4, <1>6, <1>7 DEF Typed
<1>20. th[R].ci = at(N).ci
  <2>1. Matches(host, th, R)
    BY <1>1 DEF Exact
  <2>2. N \in DOMAIN host /\ host[N].L = R
    BY <1>1, <1>6
  <2> QED BY <1>2, <2>1, <2>2 DEF Matches, at, N
<1> QED BY <1>17, <1>18, <1>19, <1>20, WaitingFacts DEF R

LEMMA YieldExact ==
    ASSUME IInv, Steady(host, th), Exact(host, th), Yield
    PROVE  Exact(host', th')
<1> DEFINE R == Running
           r == [th[R] EXCEPT !.status = "yield"]
<1>1. Top.k = "c" /\ th[R].status # "yield" /\ th[R] \in Fields /\ DOMAIN th = Threads /\ R \in Threads
  BY Busy, ExactFacts DEF Yield
<1>2. CASE th[R].nC > th[R].base
  BY <1>1, <1>2, RaiseErrorExact DEF Yield
<1>3. CASE ~(th[R].nC > th[R].base)
  <2>1. host' = Front(host) /\ th' = [th EXCEPT ![R] = r]
    BY <1>1, <1>3 DEF Yield
  <2>2. /\ r \in Fields /\ r.status = "yield" /\ r.ci = th[R].ci
        /\ r.allow = th[R].allow /\ r.errf = th[R].errf
    BY <1>1 DEF Fields
  <2>3. Waiting(th[R].ci)
    BY <1>1, <1>3, YieldLeaves
  <2>4. /\ StackOK(host) /\ R = Last(host).L /\ Top = Last(host) /\ th \in [Threads -> Fields]
    BY ExactFacts
  <2> HIDE DEF r, R
  <2>5. th'[R] = r /\ \A L \in Threads : L # R => th'[L] = th[L]
    BY <1>1, <2>1
  <2>6. th' \in [Threads -> Fields]
    BY <1>1, <2>1, <2>2, <2>4
  <2>7. Last(host).k \notin {"program", "resume", "nohook", "pcall"}
    BY <1>1, <2>4
  <2>8. /\ \A L \in Threads : L # Last(host).L => th'[L] = th[L]
        /\ th'[Last(host).L].allow = IF Last(host).k = "nohook" THEN Last(host).old ELSE th[Last(host).L].allow
        /\ th'[Last(host).L].errf = IF Last(host).k = "pcall" THEN Last(host).errf ELSE th[Last(host).L].errf
    BY <2>2, <2>4, <2>5, <2>7
  <2>9. th'[Last(host).L].status = "yield" /\ Waiting(th'[Last(host).L].ci)
    BY <2>2, <2>3, <2>4, <2>5
  <2>10. Exact(Front(host), th')
    BY <2>4, <2>6, <2>7, <2>8, <2>9, PopExact
  <2> QED BY <2>1, <2>10
<1> QED BY <1>2, <1>3

(* resume hands the Lua functions that wait to one luaV_execute. *)
LEMMA ResumedCopies ==
    ASSUME NEW r \in Fields, \/ r.status = "yield" /\ Waiting(r.ci)
                             \/ r.status = "ok"
    PROVE  LET n == Len(Resumed(r)) IN n \in Nat \ {0} /\ Resumed(r) = Copies(n) /\ Resumed(r) \in Seq(Infos)
<1> DEFINE q == Resumed(r)
           n == Len(q)
<1>1. q \in Seq(Infos) /\ n # 0 /\ \A i \in 1 .. n : q[i] = "lua"
  <2>1. CASE r.status = "ok"
    BY <2>1 DEF Resumed, Infos
  <2>2. CASE r.status = "yield" /\ Waiting(r.ci)
    <3> DEFINE c == r.ci
    <3>1. c \in Seq(Infos) /\ Len(c) \in Nat
      BY FieldsFacts, LenProperties
    <3>2. Len(c) > 1 /\ c[Len(c)] = "c" /\ \A i \in 1 .. Len(c) - 1 : c[i] = "lua"
      BY <2>2 DEF Waiting
    <3>3. q = SubSeq(c, 1, Len(c) - 1)
      BY <2>2, <3>2 DEF Resumed, Last, Front
    <3> DEFINE m == Len(c) - 1
    <3> HIDE DEF c, q
    <3>4. m \in Nat \ {0} /\ \A i \in 1 .. m : c[i] = "lua" /\ c[i] \in Infos /\ 1 + i - 1 = i
      BY <3>1, <3>2 DEF Infos
    <3>4a. q = SubSeq(c, 1, m)
      BY <3>3
    <3>4b. m \in Nat \ {0}
      BY <3>4
    <3> HIDE DEF m
    <3>5. q = SubSeq(c, 1, m) /\ m \in Int /\ 1 <= m /\ m - 1 + 1 = m
      BY <3>4a, <3>4b
    <3>6. \A i \in 1 .. m : c[i] \in Infos
      BY <3>4
    <3>7. /\ SubSeq(c, 1, m) \in Seq(Infos)
          /\ Len(SubSeq(c, 1, m)) = IF 1 <= m THEN m - 1 + 1 ELSE 0
          /\ \A i \in 1 .. m - 1 + 1 : SubSeq(c, 1, m)[i] = c[1 + i - 1]
      BY <3>5, <3>6, SubSeqProperties
    <3>8. q \in Seq(Infos) /\ Len(q) = m /\ \A i \in 1 .. m : q[i] = c[i]
      BY <3>4, <3>5, <3>7
    <3> QED BY <3>4, <3>8
  <2> QED BY <2>1, <2>2
<1>2. n \in Nat \ {0}
  <2> HIDE DEF q
  <2> QED BY <1>1, LenProperties
<1> HIDE DEF n, q
<1>3. Copies(n) \in Seq(Infos) /\ Len(Copies(n)) = n /\ \A j \in 1 .. n : Copies(n)[j] = "lua"
  BY <1>2, CopiesFacts
<1>4. q = Copies(n)
  BY <1>1, <1>3, SeqEqual DEF n
<1> QED BY <1>1, <1>2, <1>4 DEF n, q

LEMMA ResumeThreadExact ==
    ASSUME IInv, Steady(host, th), Exact(host, th), NEW co \in Coroutines, ResumeThread(co)
    PROVE  Exact(host', th')
<1> DEFINE n == Level(Running, co)
<1>1. /\ co \in Threads /\ n \in Nat /\ StackOK(host) /\ Len(host) \in Nat
      /\ th \in [Threads -> Fields] /\ DOMAIN th = Threads /\ th[co] \in Fields
  <2>1. /\ co \in Threads /\ Running \in Threads /\ th \in [Threads -> Fields]
        /\ StackOK(host) /\ Len(host) \in Nat
    BY ExactFacts, HostFacts DEF Threads
  <2>2. th[Running].nC \in Nat
    BY <2>1, FieldsFacts
  <2> QED BY <2>1, <2>2 DEF Level
<1>2. \A i \in DOMAIN host : host[i].L # co
  <2>1. th[co].body \/ (th[co].status = "yield" /\ co # Last(host).L)
    BY SteadyFacts DEF ResumeThread, Suspended
  <2> QED BY <2>1, SteadyFacts, SuspendedIsInactive DEF IInv
<1>3. th[co].allow = TRUE /\ th[co].errf = FALSE
  <2>1. DOMAIN host = 1 .. Len(host) /\ Len(host) \in 0 .. Len(host)
    BY <1>1, StackFacts
  <2>2. View(host, co)[Len(host)] = Blank
    BY <1>1, <1>2, <2>1, AbsentView
  <2>3. Matches(host, th, co) /\ Blank.allow = TRUE /\ Blank.errf = FALSE
    BY <1>1 DEF Exact, Blank
  <2> QED BY <2>2, <2>3 DEF Matches, Shown
<1>4. /\ \/ th[co].status = "yield" /\ Waiting(th[co].ci)
         \/ th[co].status = "ok"
      /\ n \in Nat
  BY <1>1 DEF Exact, ResumeThread, Suspended
<1> HIDE DEF n
<1>5. CASE n >= MaxCCalls
  <2> DEFINE r == ResumeError(th[co], n)
  <2>1. host' = host /\ th' = [th EXCEPT ![co] = r]
    BY <1>5 DEF ResumeThread, n
  <2>2. /\ r \in Fields /\ r.allow = th[co].allow /\ r.errf = th[co].errf
        /\ r.status = th[co].status /\ r.ci = th[co].ci
    BY <1>1 DEF ResumeError, Fields
  <2> HIDE DEF r
  <2>3. /\ th'[co] = r /\ \A L \in Threads : L # co => th'[L] = th[L]
        /\ th' \in [Threads -> Fields]
    BY <1>1, <2>1, <2>2
  <2>4. /\ th'[co].allow = TRUE /\ th'[co].errf = FALSE
        /\ th'[co].status = "yield" => Waiting(th'[co].ci)
    BY <1>3, <1>4, <2>2, <2>3
  <2>5. Exact(host, th')
    <3> DEFINE u == th'
    <3>1. StackOK(host) /\ Exact(host, th) /\ co \in Threads
      BY <1>1
    <3>2. u \in [Threads -> Fields] /\ \A L \in Threads : L # co => u[L] = th[L]
      BY <2>3
    <3>3. u[co].allow = TRUE /\ u[co].errf = FALSE
      BY <2>4
    <3>4. u[co].status = "yield" => Waiting(u[co].ci)
      BY <2>4
    <3> HIDE DEF u
    <3>5. Exact(host, u)
      BY <1>2, <3>1, <3>2, <3>3, <3>4, AbsentExact
    <3> QED BY <3>5 DEF u
  <2> QED BY <2>1, <2>5
<1>6. CASE ~(n >= MaxCCalls)
  <2> DEFINE f == Resume(co, th[co])
             m == Len(Resumed(th[co]))
             e == Exec(co, m, FALSE)
             h == Append(host, f)
             none == << >>
             s == [th[co] EXCEPT !.status = "ok", !.ci = none]
             t == [th EXCEPT ![co] = s]
             r == Started(th[co], n)
  <2>1. th' = [th EXCEPT ![co] = r] /\ host' = host \o <<f, e>>
    BY <1>6 DEF ResumeThread, Nexeccalls, n
  <2>2. /\ m \in Nat \ {0} /\ Resumed(th[co]) = Copies(m) /\ Resumed(th[co]) \in Seq(Infos)
    BY <1>1, <1>4, ResumedCopies
  <2> HIDE DEF m
  <2>3. /\ FrameOK(f) /\ f.k = "resume" /\ f.L = co
        /\ FrameOK(e) /\ Typed(e) /\ e.k = "exec" /\ e.L = co /\ e.n = m
    BY <1>1, <2>2 DEF FrameOK, IsTry, Typed, Resume, Exec
  <2>4. none \in Seq(Infos)
    BY EmptySeq
  <2>5. /\ s \in Fields /\ s.status = "ok" /\ s.ci = << >> /\ s.allow = th[co].allow /\ s.errf = th[co].errf
    <3>1. s.ci = none
      BY <1>1 DEF Fields
    <3>2. none = << >>
      OBVIOUS
    <3> HIDE DEF none
    <3> QED BY <1>1, <2>4, <3>1, <3>2 DEF Fields, Infos
  <2>6. /\ r \in Fields /\ r.status = "ok" /\ r.ci = Copies(m) /\ r.allow = th[co].allow /\ r.errf = th[co].errf
    <3> DEFINE q == Resumed(th[co])
               j == Len(host) + 1
               l == n + 1
    <3>1. q \in Seq({"lua", "c"}) /\ q = Copies(m)
      BY <2>2 DEF Infos
    <3>2. j \in Nat /\ l \in Nat /\ th[co] \in Fields
      BY <1>1, <1>4
    <3>3. r = [th[co] EXCEPT !.status = "ok", !.ci = q, !.nC = l, !.base = l, !.jmp = j, !.body = FALSE]
      BY DEF Started
    <3> HIDE DEF q, j, l, r
    <3> QED BY <3>1, <3>2, <3>3 DEF Fields
  <2> HIDE DEF f, e, s, r
  <2>7. /\ t \in [Threads -> Fields] /\ t[co] = s /\ \A L \in Threads : L # co => t[L] = th[L]
    BY <1>1, <2>5
  <2>8. /\ th' \in [Threads -> Fields] /\ th'[co] = r /\ \A L \in Threads : L # co => th'[L] = t[L]
    BY <1>1, <2>1, <2>6
  <2> HIDE DEF t
  <2>9. Exact(h, t)
    <3>1. Shown(t[co], Blank) /\ t[co].ci = Blank.ci /\ t[co].status # "yield"
      BY <1>3, <2>5, <2>7 DEF Shown, Blank
    <3>2. StackOK(host) /\ Exact(host, th) /\ co \in Threads
      BY <1>1
    <3>3. FrameOK(f) /\ f.k = "resume" /\ f.L = co
      BY <2>3
    <3>4. t \in [Threads -> Fields] /\ \A L \in Threads : L # co => t[L] = th[L]
      BY <2>7
    <3>5. Exact(Append(host, f), t)
      BY <1>2, <3>1, <3>2, <3>3, <3>4, PushResumeExact
    <3> QED BY <3>5
  <2>10. StackOK(h) /\ Last(h) = f
    <3>1. /\ StackOK(h) /\ Len(h) = Len(host) + 1 /\ h[Len(host) + 1] = f
      BY <1>1, <2>3, Pushed
    <3> HIDE DEF h
    <3> QED BY <3>1 DEF Last
  <2> HIDE DEF h
  <2>11. After(t[co], e).allow = s.allow /\ After(t[co], e).errf = s.errf /\ After(t[co], e).ci = Copies(m)
    <3>1. After(t[co], e).ci = s.ci \o Copies(m)
      BY <2>3, <2>7 DEF After
    <3>2. << >> \o Copies(m) = Copies(m)
      BY <2>2, ConcatEmptySeq
    <3>3. After(t[co], e).allow = s.allow /\ After(t[co], e).errf = s.errf
      BY <2>3, <2>7 DEF After
    <3> QED BY <2>5, <3>1, <3>2, <3>3
  <2>12. Exact(Append(h, e), th')
    <3>1. e.k \notin {"program", "resume", "pcall", "nohook"} /\ e.L = Last(h).L
      BY <2>3, <2>10
    <3>2. /\ t[Last(h).L].status # "yield" /\ th'[e.L].status # "yield"
          /\ \A L \in Threads : L # e.L => th'[L] = t[L]
      BY <2>3, <2>5, <2>6, <2>7, <2>8, <2>10
    <3>3. /\ th'[e.L].allow = After(t[e.L], e).allow /\ th'[e.L].errf = After(t[e.L], e).errf
          /\ th'[e.L].ci = After(t[e.L], e).ci
      BY <2>3, <2>5, <2>6, <2>8, <2>11
    <3>4. FrameOK(e) /\ Typed(e) /\ th' \in [Threads -> Fields]
      BY <2>3, <2>8
    <3> QED BY <2>9, <2>10, <3>1, <3>2, <3>3, <3>4, PushExact
  <2>13. host' = Append(h, e)
    <3>1. PICK S : host \in Seq(S)
      BY <1>1 DEF StackOK
    <3> DEFINE T == S \cup {f, e}
    <3>2. host \in Seq(T) /\ f \in T /\ e \in T
      BY <3>1, SeqMonotonic
    <3> HIDE DEF T
    <3>3. host \o <<f, e>> = Append(Append(host, f), e)
      BY <3>2
    <3> QED BY <2>1, <3>3 DEF h
  <2> QED BY <2>12, <2>13
<1> QED BY <1>5, <1>6

-----------------------------------------------------------------------------
(* The invariant, and the properties. *)

IInv3 ==
    /\ IInv2
    /\ process \in {"runs", "exited", "torn"}
    /\ AllTyped(host, th)
    /\ process = "runs" => Exact(host, th)

LEMMA InitIInv3 == Init => IInv3
<1> SUFFICES ASSUME Init PROVE IInv3
  OBVIOUS
<1> DEFINE g == <<Program>>
<1>1. /\ Len(g) = 1 /\ DOMAIN g = 1 .. 1 /\ g[1] = Program
      /\ Program.k = "program" /\ Program.L = Main /\ Main \in Threads
  BY DEF Program, Threads
<1>2. /\ th \in [Threads -> Fields] /\ DOMAIN th = Threads
      /\ \A L \in Threads : /\ th[L].allow = Blank.allow /\ th[L].errf = Blank.errf
                            /\ th[L].ci = Blank.ci /\ th[L].status # "yield"
  <2> DEFINE none == << >>
  <2>1. none \in Seq({"lua", "c"})
    BY EmptySeq
  <2>2. ASSUME NEW L \in Threads
        PROVE  /\ New(L) \in Fields /\ New(L).allow = Blank.allow /\ New(L).errf = Blank.errf
               /\ New(L).ci = Blank.ci /\ New(L).status # "yield"
    <3>1. /\ New(L) = [status |-> "ok", ci |-> none, nC |-> 0, base |-> 0,
                       allow |-> TRUE, errf |-> FALSE, jmp |-> 0, body |-> L # Main]
          /\ Blank = [allow |-> TRUE, errf |-> FALSE, ci |-> none]
      BY DEF New, Blank
    <3> HIDE DEF none
    <3> QED BY <2>1, <3>1 DEF Fields
  <2>3. th = [L \in Threads |-> New(L)]
    BY DEF Init
  <2> QED BY <2>2, <2>3
<1>3. host = g /\ process = "runs"
  BY DEF Init
<1> HIDE DEF g
<1>4. AllTyped(g, th)
  BY <1>1, <1>2 DEF AllTyped, Typed
<1>5. ASSUME NEW L \in Threads PROVE View(g, L)[Len(g)] = Blank
  <2>1. 1 \in 1 .. Len(g) /\ 1 - 1 = 0 /\ Len(g) \in Nat
    BY <1>1
  <2>2. /\ View(g, L)[0] = Blank
        /\ View(g, L)[1] = IF g[1].L = L THEN After(View(g, L)[0], g[1]) ELSE View(g, L)[0]
    BY <2>1, ViewFacts
  <2>3. After(Blank, Program) = Blank
    BY <1>1 DEF After, Blank
  <2> QED BY <1>1, <2>2, <2>3
<1>6. Exact(g, th)
  <2>1. \A L \in Threads : Matches(g, th, L)
    BY <1>2, <1>5 DEF Matches, Shown
  <2>2. \A i \in DOMAIN g : Saved(g, i)
    BY <1>1 DEF Saved
  <2> QED BY <1>2, <1>4, <2>1, <2>2 DEF Exact
<1> QED BY <1>3, <1>4, <1>6, InitIInv2 DEF IInv3

LEMMA NextIInv3 == IInv3 /\ [Next]_vars => IInv3'
<1> SUFFICES ASSUME IInv3, [Next]_vars
             PROVE  /\ process' \in {"runs", "exited", "torn"} /\ AllTyped(host', th')
                    /\ process' = "runs" => Exact(host', th')
  BY NextIInv2 DEF IInv3
<1>1. CASE Next
  <2>1. process = "runs" /\ IInv /\ Steady(host, th) /\ Exact(host, th)
    BY <1>1 DEF Next, IInv2, IInv3
  <2>2. Exact(host', th') => AllTyped(host', th')
    BY DEF Exact
  <2>3. CASE \E kind \in Kinds :
                \/ CallFunction(kind) \/ ErrorMessage(kind) \/ CallGCTM(kind)
                \/ \E e \in BOOLEAN : ProtectedCall(kind, e)
    <3>1. Exact(host', th')
      BY <2>1, <2>3, CallFunctionExact, ErrorMessageExact, CallGCTMExact, ProtectedCallExact
    <3>2. process' = process
      BY <2>3 DEF CallFunction, ErrorMessage, CallGCTM, ProtectedCall
    <3> QED BY <2>1, <2>2, <3>1, <3>2
  <2>4. CASE \E kind \in Kinds \ {"lua"} : OpCallC(kind)
    <3>1. Exact(host', th')
      BY <2>1, <2>4, OpCallCExact
    <3>2. process' = process
      BY <2>4 DEF OpCallC
    <3> QED BY <2>1, <2>2, <3>1, <3>2
  <2>5. CASE OpCallLua \/ OpReturn \/ CReturns \/ ExecYields \/ NoHookReturns
    <3>1. Exact(host', th')
      BY <2>1, <2>5, OpCallLuaExact, OpReturnExact, CReturnsExact, ExecYieldsExact, NoHookReturnsExact
    <3>2. process' = process
      BY <2>5 DEF OpCallLua, OpReturn, CReturns, ExecYields, NoHookReturns
    <3> QED BY <2>1, <2>2, <3>1, <3>2
  <2>6. CASE PcallReturns \/ ResumeReturns
    <3>1. Exact(host', th')
      BY <2>1, <2>6, PcallReturnsExact, ResumeReturnsExact
    <3>2. process' \in {"runs", "exited"}
      BY <2>6 DEF PcallReturns, ResumeReturns, Survives
    <3> QED BY <2>2, <3>1, <3>2
  <2>7. CASE RaiseError
    <3>1. /\ th[Running].status # "yield" /\ th' = th
          /\ host' = Append(host, Error(Running, FALSE, FALSE))
      BY <2>1, <2>7, Busy DEF RaiseError
    <3>2. Exact(host', th')
      BY <2>1, <3>1, RaiseErrorExact
    <3>3. process' = process
      BY <2>7 DEF RaiseError
    <3> QED BY <2>1, <2>2, <3>2, <3>3
  <2>8. CASE HandlerReturns \/ MemoryError
    <3>1. Exact(host', th')
      BY <2>1, <2>8, ThrowTopExact DEF HandlerReturns, MemoryError
    <3>2. process' = process
      BY <2>8 DEF HandlerReturns, MemoryError
    <3> QED BY <2>1, <2>2, <3>1, <3>2
  <2>9. CASE ClrException
    <3>1. AllTyped(host', th') /\ (process' = "runs" => Exact(host', th'))
      BY <2>1, <2>9, ClrExceptionExact
    <3>2. process' \in {"runs", "torn"}
      BY <2>9 DEF ClrException
    <3> QED BY <3>1, <3>2
  <2>10. CASE \E co \in Coroutines : ResumeThread(co)
    <3>1. Exact(host', th')
      BY <2>1, <2>10, ResumeThreadExact
    <3>2. process' = process
      BY <2>10 DEF ResumeThread
    <3> QED BY <2>1, <2>2, <3>1, <3>2
  <2>11. CASE \E co \in Coroutines : ResumeNoMemory(co)
    <3>1. AllTyped(host', th') /\ (process' = "runs" => Exact(host', th'))
      BY <2>1, <2>11, ResumeNoMemoryExact
    <3>2. process' \in {"runs", "torn"}
      BY <2>11 DEF ResumeNoMemory
    <3> QED BY <3>1, <3>2
  <2>12. CASE Yield
    <3>1. Exact(host', th') /\ process' = process
      BY <2>1, <2>12, YieldExact DEF Yield
    <3> QED BY <2>1, <2>2, <3>1
  <2>13. CASE CallHook
    <3>1. Exact(host', th') /\ process' = process
      BY <2>1, <2>13, CallHookExact DEF CallHook
    <3> QED BY <2>1, <2>2, <3>1
  <2> QED BY <1>1, <2>3, <2>4, <2>5, <2>6, <2>7, <2>8, <2>9, <2>10, <2>11, <2>12, <2>13 DEF Next
<1>2. CASE UNCHANGED vars
  <2>1. host' = host /\ th' = th /\ process' = process
    BY <1>2 DEF vars
  <2> QED BY <2>1 DEF IInv3
<1> QED BY <1>1, <1>2

(* The fields of each thread are those its frames on the host stack say,   *)
(* and what a frame saved is the view below it: see Exact.                 *)
THEOREM FramesInvariance == Spec => []IInv3
BY InitIInv3, NextIInv3, PTL DEF Spec

(* Functions computes the CallInfos of a view. *)
LEMMA FunctionsAreViewed ==
    ASSUME StackOK(host), AllTyped(host, th), NEW L \in Threads
    PROVE  Functions(L) = View(host, L)[Len(host)].ci
<1> DEFINE N == Len(host)
           Step(f, i) ==
               IF i = 0 THEN << >>
               ELSE IF host[i].L # L THEN f[i - 1]
               ELSE CASE host[i].k = "exec" -> f[i - 1] \o [j \in 1 .. host[i].n |-> "lua"]
                      [] host[i].k = "c" -> Append(f[i - 1], "c")
                      [] OTHER -> f[i - 1]
           Rec(f) == f = [i \in 0 .. N |-> Step(f, i)]
           functions == CHOOSE f : Rec(f)
           shown == [i \in 0 .. N |-> View(host, L)[i].ci]
<1>1. N \in Nat \ {0} /\ DOMAIN host = 1 .. N
  BY StackFacts
<1>2. Functions(L) = functions[N]
  BY Zenon DEF Functions
<1> HIDE DEF N
<1>3. /\ View(host, L)[0] = Blank
      /\ \A i \in 1 .. N : View(host, L)[i] = IF host[i].L = L THEN After(View(host, L)[i - 1], host[i])
                                               ELSE View(host, L)[i - 1]
  <2>1. Len(host) \in Nat
    BY <1>1 DEF N
  <2> QED BY <2>1, ViewFacts DEF N
<1>4. ASSUME NEW i \in 0 .. N PROVE Step(shown, i) = View(host, L)[i].ci
  <2>1. CASE i = 0
    BY <1>3, <2>1 DEF Blank
  <2>2. CASE i # 0
    <3>1. i \in 1 .. N /\ i - 1 \in 0 .. N
      BY <1>1, <2>2
    <3> DEFINE v == View(host, L)[i - 1]
               c == v.ci
               f == host[i]
    <3>2. shown[i - 1] = c
      BY <3>1
    <3>3. View(host, L)[i] = IF f.L = L THEN After(v, f) ELSE v
      BY <1>3, <3>1
    <3>4. After(v, f).ci = IF f.k = "exec" THEN c \o [j \in 1 .. f.n |-> "lua"]
                           ELSE IF f.k = "c" THEN Append(c, "c") ELSE c
      BY DEF After, Copies
    <3>5. Step(shown, i) = IF f.L # L THEN c
                           ELSE CASE f.k = "exec" -> c \o [j \in 1 .. f.n |-> "lua"]
                                  [] f.k = "c" -> Append(c, "c")
                                  [] OTHER -> c
      <4> HIDE DEF shown, c
      <4> QED BY <2>2, <3>2
    <3> DEFINE lua == c \o [j \in 1 .. f.n |-> "lua"]
               call == Append(c, "c")
    <3>6. c = v.ci
      OBVIOUS
    <3>7. After(v, f).ci = IF f.k = "exec" THEN lua ELSE IF f.k = "c" THEN call ELSE c
      BY <3>4
    <3>8. Step(shown, i) = IF f.L # L THEN c
                           ELSE CASE f.k = "exec" -> lua [] f.k = "c" -> call [] OTHER -> c
      BY <3>5
    <3> HIDE DEF v, f, c, lua, call, Step, shown
    <3> QED BY <3>3, <3>6, <3>7, <3>8
  <2> QED BY <2>1, <2>2
<1> HIDE DEF Step
<1>5. Rec(shown)
  BY <1>4
<1>6. Rec(functions)
  <2>1. \E f : Rec(f)
    <3> HIDE DEF shown, Rec
    <3> QED BY <1>5
  <2> HIDE DEF Rec
  <2> QED BY <2>1
<1> HIDE DEF functions, shown
<1>7. /\ \A i \in 0 .. N : functions[i] = Step(functions, i)
      /\ \A i \in 0 .. N : shown[i] = Step(shown, i)
  BY <1>5, <1>6
<1> HIDE DEF Rec
<1>8. functions[N] = shown[N]
  <2> DEFINE S == {i \in Nat : i <= N => functions[i] = shown[i]}
  <2>1. 0 \in S
    <3>1. 0 \in 0 .. N
      BY <1>1
    <3>2. \A f : Step(f, 0) = << >>
      BY DEF Step
    <3> QED BY <1>7, <3>1, <3>2
  <2>2. ASSUME NEW i \in Nat, i \in S PROVE i + 1 \in S
    <3>1. SUFFICES ASSUME i + 1 <= N PROVE functions[i + 1] = shown[i + 1]
      OBVIOUS
    <3>2. i + 1 \in 0 .. N /\ i <= N /\ i + 1 # 0 /\ i + 1 - 1 = i
      BY <1>1, <3>1
    <3>3. functions[i] = shown[i]
      BY <2>2, <3>2
    <3>4. Step(functions, i + 1) = Step(shown, i + 1)
      BY <3>2, <3>3 DEF Step
    <3> HIDE DEF S
    <3> QED BY <1>7, <3>2, <3>4
  <2>3. \A i \in Nat : i \in S
    <3> HIDE DEF S
    <3> QED BY <2>1, <2>2, Induction
  <2> QED BY <1>1, <2>3
<1>9. shown[N] = View(host, L)[N].ci
  BY <1>1 DEF shown
<1> QED BY <1>2, <1>8, <1>9 DEF N

(* luaV_execute returns after as many Lua functions as it runs, and after  *)
(* every return, error, yield and resume the CallInfos of a thread are its *)
(* functions on the host stack.                                            *)
THEOREM FramesAreFunctions == Spec => []FramesMatch
<1>1. IInv3 => FramesMatch
  <2> SUFFICES ASSUME IInv3 PROVE FramesMatch
    OBVIOUS
  <2>1. /\ IInv /\ StackOK(host) /\ AllTyped(host, th)
        /\ Len(host) \in Nat \ {0} /\ DOMAIN host = 1 .. Len(host)
    BY HostFacts DEF IInv3, IInv2, IInv, Good
  <2>2. host # << >> /\ host[1] = Program
    BY <2>1 DEF StackOK
  <2>3. ASSUME NEW i \in 2 .. Len(host)
        PROVE  /\ host[i].k \in {"exec", "c", "pcall", "resume", "error", "nohook"}
               /\ host[i].L \in Threads
               /\ host[i].k = "exec" => host[i].n \in Nat \ {0}
    <3>1. i \in DOMAIN host /\ i # 1
      BY <2>1
    <3> QED BY <2>1, <3>1 DEF StackOK, FrameOK, AllTyped, Typed
  <2>4. th \in [Threads -> ThreadState]
    <3>1. th \in [Threads -> Fields]
      BY <2>1 DEF AllTyped
    <3>2. ASSUME NEW L \in Threads PROVE th[L] \in ThreadState
      <4>1. th[L] \in Fields
        BY <3>1
      <4>2. th[L].jmp \in 0 .. Len(host)
        BY <2>1 DEF IInv, Good, Linked, LinkedAt
      <4> QED BY <4>1, <4>2 DEF Fields, ThreadState
    <3> QED BY <3>1, <3>2
  <2>5. interp \in Threads /\ process \in {"runs", "exited", "torn"}
    BY <2>1, HostFacts DEF IInv3
  <2>6. TypeOK
    BY <2>2, <2>3, <2>4, <2>5 DEF TypeOK
  <2>7. ASSUME process = "runs", NEW L \in Threads, Active(L), th[L].status # "yield"
        PROVE  th[L].ci = Functions(L)
    <3>1. Matches(host, th, L)
      BY <2>7 DEF IInv3, Exact
    <3>2. th[L].ci = View(host, L)[Len(host)].ci
      BY <2>7, <3>1 DEF Matches, Active
    <3> QED BY <2>1, <3>2, FunctionsAreViewed
  <2> QED BY <2>6, <2>7 DEF FramesMatch
<1> QED BY <1>1, FramesInvariance, PTL

(* A yield crosses no C function and no protected call, and the CallInfos  *)
(* it leaves for the resume are those of Lua functions.                    *)
THEOREM YieldsLeaveLua == Spec => []YieldsDirectly
<1>1. IInv3 => YieldsDirectly
  <2> SUFFICES ASSUME IInv, Steady(host, th), Exact(host, th),
                      NEW co \in Coroutines, th[co].status = "yield"
               PROVE  /\ \A i \in 1 .. Len(th[co].ci) - 1 : th[co].ci[i] = "lua"
                      /\ \A i \in DOMAIN host : host[i].L = co => host[i].k \in {"resume", "exec"}
                      /\ Active(co) => co = Running
    BY DEF IInv3, IInv2, YieldsDirectly
  <2>1. co \in Threads
    BY DEF Threads
  <2>2. Waiting(th[co].ci)
    BY <2>1 DEF Exact
  <2>3. \A i \in DOMAIN host : host[i].L = co => Light(host[i]) /\ co = Running
    BY <2>1 DEF Steady, Below, Leaving, Running, Top
  <2>4. \A i \in 1 .. Len(th[co].ci) - 1 : th[co].ci[i] = "lua"
    BY <2>2 DEF Waiting
  <2>5. \A i \in DOMAIN host : host[i].L = co => host[i].k \in {"resume", "exec"}
    BY <2>3 DEF Light
  <2>6. Active(co) => co = Running
    BY <2>3 DEF Active
  <2> QED BY <2>4, <2>5, <2>6
<1> QED BY <1>1, FramesInvariance, PTL

(* What a view says of hooks, and of the message handler. *)
LEMMA ViewAllows ==
    ASSUME NEW h, Len(h) \in Nat, NEW L
    PROVE  \A n \in 0 .. Len(h) :
               View(h, L)[n].allow = IF \E j \in 1 .. n : h[j].k = "nohook" /\ h[j].L = L THEN FALSE ELSE TRUE
<1> DEFINE Off(n) == \E j \in 1 .. n : h[j].k = "nohook" /\ h[j].L = L
           Hooks(n) == IF Off(n) THEN FALSE ELSE TRUE
           S == {n \in Nat : n <= Len(h) => View(h, L)[n].allow = Hooks(n)}
<1>1. 0 \in S
  <2>1. ~Off(0)
    OBVIOUS
  <2>2. View(h, L)[0].allow = TRUE
    BY ViewFacts DEF Blank
  <2> HIDE DEF Off
  <2>3. Hooks(0) = TRUE
    BY <2>1
  <2> HIDE DEF Hooks
  <2> QED BY <2>2, <2>3
<1> HIDE DEF Hooks
<1>2. ASSUME NEW n \in Nat, n \in S PROVE n + 1 \in S
  <2>1. SUFFICES ASSUME n + 1 <= Len(h) PROVE View(h, L)[n + 1].allow = Hooks(n + 1)
    OBVIOUS
  <2>2. n + 1 \in 1 .. Len(h) /\ n + 1 - 1 = n /\ n <= Len(h)
    BY <2>1
  <2>3. View(h, L)[n].allow = Hooks(n)
    BY <1>2, <2>2
  <2>4. Off(n + 1) <=> (Off(n) \/ (h[n + 1].k = "nohook" /\ h[n + 1].L = L))
    <3>1. \A j \in 1 .. n + 1 : j = n + 1 \/ j \in 1 .. n
      OBVIOUS
    <3>2. n + 1 \in 1 .. n + 1 /\ \A j \in 1 .. n : j \in 1 .. n + 1
      OBVIOUS
    <3> QED BY <3>1, <3>2
  <2> HIDE DEF S
  <2>5. View(h, L)[n + 1] = IF h[n + 1].L = L THEN After(View(h, L)[n], h[n + 1]) ELSE View(h, L)[n]
    BY <2>2, ViewFacts
  <2>6. View(h, L)[n + 1].allow =
            IF h[n + 1].L = L /\ h[n + 1].k = "nohook" THEN FALSE ELSE View(h, L)[n].allow
    <3> DEFINE r == View(h, L)[n]
               f == h[n + 1]
    <3>1. After(r, f).allow = IF f.k = "nohook" THEN FALSE ELSE r.allow
      BY DEF After
    <3> HIDE DEF r, f, Off
    <3> QED BY <2>5, <3>1 DEF r, f
  <2> HIDE DEF Off
  <2>7. CASE h[n + 1].L = L /\ h[n + 1].k = "nohook"
    <3>1. Hooks(n + 1) = FALSE
      BY <2>4, <2>7 DEF Hooks
    <3> QED BY <2>6, <2>7, <3>1
  <2>8. CASE ~(h[n + 1].L = L /\ h[n + 1].k = "nohook")
    <3>1. Hooks(n + 1) = Hooks(n)
      BY <2>4, <2>8 DEF Hooks
    <3>2. View(h, L)[n + 1].allow = View(h, L)[n].allow
      BY <2>6, <2>8
    <3> QED BY <2>3, <3>1, <3>2
  <2> QED BY <2>7, <2>8
<1>3. \A n \in Nat : n \in S
  <2> HIDE DEF S
  <2> QED BY <1>1, <1>2, Induction
<1>4. \A n \in 0 .. Len(h) : View(h, L)[n].allow = Hooks(n)
  BY <1>3
<1> QED BY <1>4 DEF Hooks

LEMMA ViewHandles ==
    ASSUME NEW h, Len(h) \in Nat, NEW L, NEW m \in 0 .. Len(h), NEW n \in m .. Len(h),
           \A i \in m + 1 .. n : ~(IsTry(h[i]) /\ h[i].L = L)
    PROVE  View(h, L)[n].errf = View(h, L)[m].errf
<1> DEFINE S == {i \in Nat : i >= m /\ i <= n => View(h, L)[i].errf = View(h, L)[m].errf}
<1>1. 0 \in S
  OBVIOUS
<1>2. ASSUME NEW i \in Nat, i \in S PROVE i + 1 \in S
  <2>1. SUFFICES ASSUME i + 1 >= m, i + 1 <= n PROVE View(h, L)[i + 1].errf = View(h, L)[m].errf
    OBVIOUS
  <2>2. CASE i + 1 = m
    BY <2>2
  <2>3. CASE i + 1 # m
    <3>1. i + 1 \in m + 1 .. n /\ i + 1 \in 1 .. Len(h) /\ i + 1 - 1 = i /\ i >= m /\ i <= n
      BY <2>1, <2>3
    <3>2. View(h, L)[i].errf = View(h, L)[m].errf
      BY <1>2, <3>1
    <3> HIDE DEF S
    <3>3. View(h, L)[i + 1] = IF h[i + 1].L = L THEN After(View(h, L)[i], h[i + 1]) ELSE View(h, L)[i]
      BY <3>1, ViewFacts
    <3>4. CASE h[i + 1].L = L
      <4>1. h[i + 1].k \notin {"pcall", "resume"}
        BY <3>1, <3>4 DEF IsTry
      <4>2. After(View(h, L)[i], h[i + 1]).errf = View(h, L)[i].errf
        BY <4>1 DEF After
      <4> QED BY <3>2, <3>3, <3>4, <4>2
    <3> QED BY <3>2, <3>3, <3>4
  <2> QED BY <2>2, <2>3
<1>3. n \in S
  <2> HIDE DEF S
  <2> QED BY <1>1, <1>2, Induction
<1> QED BY <1>3

(* The hooks of a thread are off just while a hook or a __gc of it runs,   *)
(* after every error too, and its message handler is the one given to its  *)
(* last protected call, none inside a coroutine that has made none.        *)
THEOREM HooksAndHandlersAgree == Spec => []HooksAndHandlers
<1>1. IInv3 => HooksAndHandlers
  <2> SUFFICES ASSUME IInv, Exact(host, th), NEW L \in Threads
               PROVE  LET i == th[L].jmp IN
                      /\ th[L].allow <=> \A j \in DOMAIN host : host[j].k = "nohook" => host[j].L # L
                      /\ th[L].errf = (i # 0 /\ host[i].k = "pcall" /\ host[i].ef)
    BY DEF IInv3, IInv2, HooksAndHandlers
  <2> DEFINE N == Len(host)
             m == th[L].jmp
             v == View(host, L)
  <2>1. N \in Nat \ {0} /\ DOMAIN host = 1 .. N /\ N \in 0 .. N
    BY HostFacts
  <2>2. th[L].allow = v[N].allow /\ th[L].errf = v[N].errf
    BY DEF Exact, Matches, Shown
  <2>3. v[N].allow = IF \E j \in 1 .. N : host[j].k = "nohook" /\ host[j].L = L THEN FALSE ELSE TRUE
    BY <2>1, ViewAllows
  <2>4. LinkedAt(host, L, N + 1, m)
    BY DEF IInv, Good, Linked
  <2>5. /\ m \in 0 .. N /\ N \in m .. N
        /\ \A i \in m + 1 .. N : ~(IsTry(host[i]) /\ host[i].L = L)
        /\ m # 0 => IsTry(host[m]) /\ host[m].L = L
    <3>1. N + 1 - 1 = N
      BY <2>1
    <3> HIDE DEF m, N
    <3> QED BY <2>1, <2>4, <3>1 DEF LinkedAt
  <2>6. v[N].errf = v[m].errf
    <3> HIDE DEF m
    <3> QED BY <2>1, <2>5, ViewHandles
  <2> HIDE DEF m
  <2>7. v[m].errf = (m # 0 /\ host[m].k = "pcall" /\ host[m].ef)
    <3>1. CASE m = 0
      <4>1. v[m].errf = FALSE
        BY <2>1, <3>1, ViewFacts DEF Blank
      <4> HIDE DEF v
      <4> QED BY <3>1, <4>1
    <3>2. CASE m # 0
      <4>1. m \in 1 .. N
        BY <2>1, <2>5, <3>2
      <4>2. v[m] = After(v[m - 1], host[m])
        BY <2>1, <2>5, <3>2, <4>1, ViewFacts
      <4>3. host[m].k \in {"pcall", "resume"}
        BY <2>5, <3>2 DEF IsTry
      <4>4. host[m].k = "pcall" => host[m].ef \in BOOLEAN
        BY <2>1, <4>1 DEF Exact, AllTyped, Typed
      <4>5. v[m].errf = IF host[m].k = "pcall" THEN host[m].ef ELSE FALSE
        <5> DEFINE f == host[m]
                   r == v[m - 1]
        <5>1. After(r, f).errf = IF f.k = "pcall" THEN f.ef ELSE IF f.k = "resume" THEN FALSE ELSE r.errf
          BY DEF After
        <5> HIDE DEF f, r, v
        <5> QED BY <4>2, <4>3, <5>1 DEF f, r
      <4> HIDE DEF v
      <4> QED BY <3>2, <4>4, <4>5
    <3> QED BY <3>1, <3>2
  <2> HIDE DEF N, v
  <2>8. th[L].errf = (m # 0 /\ host[m].k = "pcall" /\ host[m].ef)
    BY <2>2, <2>6, <2>7
  <2>9. th[L].allow <=> \A j \in DOMAIN host : host[j].k = "nohook" => host[j].L # L
    BY <2>1, <2>2, <2>3
  <2> QED BY <2>8, <2>9 DEF m
<1> QED BY <1>1, FramesInvariance, PTL
=============================================================================
