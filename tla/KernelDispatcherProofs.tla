----------------------- MODULE KernelDispatcherProofs -----------------------
(***************************************************************************)
(* Proofs about KernelDispatcher, for every set of threads, functions and  *)
(* programs: the compiler lock is held as often as its owner has           *)
(* compilations under way, no version of a function is both compiled and   *)
(* refused, compiled code is linked to the versions its calls are meant    *)
(* for, and whether a function compiles does not depend on what was        *)
(* compiled before.  The first half follows the lock, the compilations     *)
(* under way and the links; the second half says what every frame of a     *)
(* stack is for, and from that what it returns.                            *)
(***************************************************************************)
EXTENDS KernelDispatcher, FiniteSetTheorems, TLAPS

----------------------------------------------------------------------------
(* The invariant *)

Steps == {"decorate", "result", "template", "acquire", "check", "body", "resolve"}
Frames == [step : Steps, fn : Functions, args : ArgLists, id : Nat, n : Nat \ {0},
           sigs : Seq(ArgLists)]

TypeInv ==
  /\ DOMAIN overloads = Functions /\ overloads = [f \in Functions |-> overloads[f]]
  /\ \A f \in Functions : DOMAIN overloads[f] \subseteq ArgLists
  /\ failed \in [Functions -> SUBSET ArgLists]
  /\ can_compile \in [Functions -> BOOLEAN]
  /\ ids \in Nat
  /\ stack \in [Threads -> Seq(Frames)]
  /\ ret \in [Threads -> Errors \cup {"ok"}]
  /\ \A t \in Threads : pc[t] \in 1 .. Len(Program[t]) + 1
  /\ pc \in [Threads -> Nat]

Callees(f) == {c.fn : c \in CallsOf(f)}

\* A stack is a chain of calls: below the innermost frame are compilations that
\* wait for a call to be compiled, and at the bottom perhaps a decorator.
FrameInv(s, n) ==
  /\ n > 1 => s[n].step \in {"resolve", "decorate"}
  /\ n > 1 /\ s[n].step = "resolve" => s[n - 1].fn \in Callees(s[n].fn)
  /\ s[n].step = "decorate" => n = Len(s)
  /\ s[n].step = "resolve" =>
       HasBody(s[n].fn, s[n].args) /\ s[n].n <= Len(Body[s[n].fn][s[n].args])
StackInv == \A t \in Threads : \A n \in 1 .. Len(stack[t]) : FrameInv(stack[t], n)

\* The compilations of a stack, each of which holds the lock.
Held(s) == {n \in 1 .. Len(s) : Holds(s[n])}
Depth(s) == Cardinality(Held(s))
LockInv ==
  /\ lock \in [owner : Threads \cup {NoThread}, depth : Nat]
  /\ lock.depth = 0 <=> lock.owner = NoThread
  /\ \A t \in Threads : Depth(stack[t]) = IF t = lock.owner THEN lock.depth ELSE 0

Compiling(d) == d.step \in {"body", "resolve"}

\* What is being compiled was neither compiled nor refused before.
NewInv ==
  /\ \A f \in Functions : failed[f] \cap DOMAIN overloads[f] = {}
  /\ \A t \in Threads : \A n \in 1 .. Len(stack[t]) :
       LET d == stack[t][n]
       IN  Compiling(d) => d.args \notin DOMAIN overloads[d.fn] \cup failed[d.fn]

DispatcherInv == TypeInv /\ StackInv /\ LockInv /\ NewInv

----------------------------------------------------------------------------
(* Stacks *)

LEMMA SeqFacts ==
  ASSUME NEW S, NEW s \in Seq(S)
  PROVE  /\ Len(s) \in Nat /\ DOMAIN s = 1 .. Len(s)
         /\ \A n \in 1 .. Len(s) : s[n] \in S
         /\ s # <<>> => /\ 1 \in 1 .. Len(s) /\ Tail(s) \in Seq(S)
                        /\ Len(Tail(s)) = Len(s) - 1
                        /\ \A n \in 1 .. Len(s) - 1 : Tail(s)[n] = s[n + 1]
  OBVIOUS

\* One frame more.
LEMMA Cons ==
  ASSUME NEW S, NEW r \in Seq(S), NEW x \in S
  PROVE  /\ <<x>> \o r \in Seq(S) /\ Len(<<x>> \o r) = Len(r) + 1
         /\ (<<x>> \o r)[1] = x
         /\ \A n \in 2 .. Len(r) + 1 : (<<x>> \o r)[n] = r[n - 1]
         /\ <<x>> \o r # <<>> /\ Tail(<<x>> \o r) = r
<1>1. /\ <<x>> \o r \in Seq(S) /\ Len(<<x>> \o r) = Len(r) + 1
      /\ (<<x>> \o r)[1] = x
  OBVIOUS
<1>2. \A n \in 2 .. Len(r) + 1 : (<<x>> \o r)[n] = r[n - 1]
  OBVIOUS
<1>3. <<x>> \o r # <<>> /\ Tail(<<x>> \o r) = r
  OBVIOUS
<1> QED
  BY <1>1, <1>2, <1>3

LEMMA InRange ==
  ASSUME NEW k \in Nat \ {0}, NEW n \in Nat, k <= n
  PROVE  k \in 1 .. n
  OBVIOUS

LEMMA Uncons ==
  ASSUME NEW S, NEW s \in Seq(S), s # <<>>
  PROVE  s = <<s[1]>> \o Tail(s)
  OBVIOUS

LEMMA Cons2 ==
  ASSUME NEW S, NEW r \in Seq(S), NEW x \in S, NEW y \in S
  PROVE  <<x, y>> \o r = <<x>> \o (<<y>> \o r)
<1> DEFINE a == <<x, y>> \o r
           b == <<x>> \o (<<y>> \o r)
<1>1. /\ a \in Seq(S) /\ Len(a) = Len(r) + 2 /\ a[1] = x /\ a[2] = y
      /\ \A n \in 3 .. Len(r) + 2 : a[n] = r[n - 2]
  OBVIOUS
<1>2. /\ <<y>> \o r \in Seq(S) /\ Len(<<y>> \o r) = Len(r) + 1 /\ (<<y>> \o r)[1] = y
      /\ \A n \in 2 .. Len(r) + 1 : (<<y>> \o r)[n] = r[n - 1]
  BY Cons
<1>3. /\ b \in Seq(S) /\ Len(b) = Len(r) + 2 /\ b[1] = x
      /\ \A n \in 2 .. Len(r) + 2 : b[n] = (<<y>> \o r)[n - 1]
  BY <1>2, Cons
<1>4. Len(r) \in Nat
  OBVIOUS
<1> HIDE DEF a, b
<1>5. ASSUME NEW n \in 1 .. Len(r) + 2 PROVE a[n] = b[n]
  <2>1. CASE n = 1
    BY <1>1, <1>3, <2>1
  <2>2. CASE n = 2
    BY <1>1, <1>2, <1>3, <1>4, <2>2
  <2>3. CASE n \in 3 .. Len(r) + 2
    <3>1. n - 1 \in 2 .. Len(r) + 1 /\ (n - 1) - 1 = n - 2 /\ n \in 2 .. Len(r) + 2
      BY <1>4, <2>3
    <3> QED
      BY <1>1, <1>2, <1>3, <2>3, <3>1
  <2> QED
    BY <1>4, <2>1, <2>2, <2>3
<1>6. a = b
  BY <1>1, <1>3, <1>5
<1> QED
  BY <1>6 DEF a, b

\* The frames that hold the lock are counted one by one.
LEMMA DepthCons ==
  ASSUME NEW r \in Seq(Frames), NEW x \in Frames
  PROVE  /\ Depth(r) \in Nat
         /\ Depth(<<x>> \o r) = IF Holds(x) THEN Depth(r) + 1 ELSE Depth(r)
<1> DEFINE s == <<x>> \o r
           up == [n \in Held(r) |-> n + 1]
           above == {n \in 2 .. Len(r) + 1 : Holds(r[n - 1])}
<1>1. Len(r) \in Nat /\ Len(s) = Len(r) + 1 /\ s[1] = x
  BY Cons
<1>2. \A n \in 2 .. Len(r) + 1 : s[n] = r[n - 1]
  BY Cons
<1>3. IsFiniteSet(Held(r))
  <2>1. IsFiniteSet(1 .. Len(r))
    BY <1>1, FS_Interval
  <2>2. Held(r) \subseteq 1 .. Len(r)
    BY DEF Held
  <2> QED
    BY <2>1, <2>2, FS_Subset
<1>4. up \in Bijection(Held(r), above)
  <2>1. up \in [Held(r) -> above]
    BY <1>1 DEF Held
  <2>2. \A i, j \in Held(r) : up[i] = up[j] => i = j
    BY <1>1 DEF Held
  <2>3. \A m \in above : m - 1 \in Held(r) /\ (m - 1) + 1 = m
    BY <1>1 DEF Held
  <2>4. \A m \in above : \E n \in Held(r) : up[n] = m
    BY <2>3
  <2> HIDE DEF up, above
  <2> QED
    BY <2>1, <2>2, <2>4 DEF Bijection, Injection, Surjection, IsInjective
<1>5. IsFiniteSet(above) /\ Cardinality(above) = Depth(r)
  <2> HIDE DEF up, above
  <2>1. ExistsBijection(Held(r), above)
    BY <1>4 DEF ExistsBijection
  <2> QED
    BY <1>3, <2>1, FS_Bijection DEF Depth
<1>6. 1 \notin above
  BY <1>1
<1>7. Held(s) = IF Holds(x) THEN above \cup {1} ELSE above
  <2>1. ASSUME NEW n PROVE n \in Held(s) <=> n \in 1 .. Len(r) + 1 /\ Holds(s[n])
    BY <1>1 DEF Held
  <2>2. ASSUME NEW n PROVE n \in above <=> n \in 2 .. Len(r) + 1 /\ Holds(s[n])
    BY <1>2
  <2>3. \A n : n \in 1 .. Len(r) + 1 <=> n = 1 \/ n \in 2 .. Len(r) + 1
    BY <1>1
  <2> HIDE DEF s, above
  <2> QED
    BY <1>1, <2>1, <2>2, <2>3
<1> HIDE DEF s, above
<1>8. Depth(s) = IF Holds(x) THEN Depth(r) + 1 ELSE Depth(r)
  BY <1>5, <1>6, <1>7, FS_AddElement DEF Depth
<1>9. Depth(r) \in Nat
  BY <1>3, FS_CardinalityType DEF Depth
<1> QED
  BY <1>8, <1>9 DEF s

\* No function is compiled below itself: calls lead from a function to others.
LEMMA Distinct ==
  ASSUME NEW s \in Seq(Frames), \A n \in 1 .. Len(s) : FrameInv(s, n),
         NEW n \in 2 .. Len(s), s[n].step = "resolve"
  PROVE  s[n].fn # s[1].fn
<1> SUFFICES ASSUME s[n].fn = s[1].fn PROVE FALSE
  OBVIOUS
<1> DEFINE S == {s[k].fn : k \in 1 .. n}
<1>1. Len(s) \in Nat /\ n \in Nat /\ n >= 2 /\ n <= Len(s)
  OBVIOUS
<1>2. \A k \in 1 .. n : k \in 1 .. Len(s) /\ s[k].fn \in Functions
  <2>1. \A k \in 1 .. n : k \in 1 .. Len(s)
    BY <1>1
  <2>2. \A k \in 1 .. Len(s) : s[k] \in Frames
    BY SeqFacts
  <2> QED
    BY <2>1, <2>2 DEF Frames
<1>3. ASSUME NEW k \in 2 .. n PROVE s[k - 1].fn \in Callees(s[k].fn) /\ k - 1 \in 1 .. n
  <2>1. k \in 1 .. Len(s) /\ k > 1 /\ k - 1 \in 1 .. n
    BY <1>1
  <2>2. FrameInv(s, k) /\ FrameInv(s, n)
    BY <1>1, <2>1
  <2>3. s[k].step = "resolve"
    BY <1>1, <2>1, <2>2 DEF FrameInv
  <2> QED
    BY <2>1, <2>2, <2>3 DEF FrameInv
<1>4. S \subseteq Functions /\ S # {}
  BY <1>1, <1>2
<1>5. PICK f \in S : \A c \in CallsOf(f) : c.fn \notin S
  BY <1>4, CallsAreOrdered
<1>6. \E k \in 2 .. n : f = s[k].fn
  <2>1. PICK k \in 1 .. n : f = s[k].fn
    BY <1>5
  <2>2. k = 1 \/ k \in 2 .. n
    BY <1>1
  <2>3. n \in 2 .. n
    BY <1>1
  <2> QED
    BY <2>1, <2>2, <2>3
<1>7. PICK k \in 2 .. n : f = s[k].fn
  BY <1>6
<1>8. s[k - 1].fn \in S /\ s[k - 1].fn \in Callees(f)
  BY <1>3, <1>7
<1> QED
  BY <1>5, <1>8 DEF Callees

Chain(s) == \A n \in 1 .. Len(s) : FrameInv(s, n)

LEMMA ChainTail ==
  ASSUME NEW s \in Seq(Frames), s # <<>>, Chain(s)
  PROVE  Chain(Tail(s))
<1> DEFINE r == Tail(s)
<1>1. /\ Len(s) \in Nat /\ Len(r) = Len(s) - 1
      /\ \A n \in 1 .. Len(s) - 1 : r[n] = s[n + 1]
  BY SeqFacts
<1> HIDE DEF r
<1>2. ASSUME NEW n \in 1 .. Len(r) PROVE FrameInv(r, n)
  <2>1. n + 1 \in 1 .. Len(s) /\ n \in 1 .. Len(s) - 1 /\ r[n] = s[n + 1]
    BY <1>1
  <2>2. FrameInv(s, n + 1)
    BY <2>1 DEF Chain
  <2>3. n > 1 => r[n - 1] = s[(n + 1) - 1]
    <3>1. n > 1 => n - 1 \in 1 .. Len(s) - 1 /\ (n - 1) + 1 = (n + 1) - 1
      BY <1>1
    <3> QED
      BY <1>1, <3>1
  <2>4. n + 1 > 1 /\ (n + 1 = Len(s) => n = Len(r))
    BY <1>1
  <2> QED
    BY <2>1, <2>2, <2>3, <2>4 DEF FrameInv
<1> QED
  BY <1>2 DEF Chain, r

\* A frame may be laid on a stack.
Fits(x, r) ==
  /\ r # <<>> => /\ r[1].step \in {"resolve", "decorate"}
                 /\ r[1].step = "resolve" => x.fn \in Callees(r[1].fn)
  /\ x.step = "decorate" => r = <<>>
  /\ x.step = "resolve" => HasBody(x.fn, x.args) /\ x.n <= Len(Body[x.fn][x.args])

LEMMA ChainCons ==
  ASSUME NEW r \in Seq(Frames), NEW x \in Frames, Chain(r), Fits(x, r)
  PROVE  Chain(<<x>> \o r)
<1> DEFINE s == <<x>> \o r
<1>1. /\ Len(r) \in Nat /\ Len(s) = Len(r) + 1 /\ s[1] = x
      /\ \A n \in 2 .. Len(r) + 1 : s[n] = r[n - 1]
  BY Cons
<1>2. r = <<>> => Len(r) = 0
  OBVIOUS
<1> HIDE DEF s
<1>3. FrameInv(s, 1)
  BY <1>1, <1>2 DEF FrameInv, Fits
<1>4. ASSUME NEW n \in 2 .. Len(s) PROVE FrameInv(s, n)
  <2>1. n - 1 \in 1 .. Len(r) /\ s[n] = r[n - 1] /\ (n - 1 = Len(r) => n = Len(s))
    BY <1>1
  <2>2. FrameInv(r, n - 1)
    BY <2>1 DEF Chain
  <2>3. CASE n = 2
    <3>1. r # <<>> /\ n - 1 = 1 /\ s[n - 1] = x
      BY <1>1, <2>1, <2>3, <1>2
    <3> QED
      BY <2>1, <2>2, <3>1 DEF FrameInv, Fits
  <2>4. CASE n # 2
    <3>1. n - 1 > 1 /\ s[n - 1] = r[(n - 1) - 1]
      BY <1>1, <2>4
    <3> QED
      BY <2>1, <2>2, <3>1 DEF FrameInv
  <2> QED
    BY <2>3, <2>4
<1>5. \A n \in 1 .. Len(s) : n = 1 \/ n \in 2 .. Len(s)
  BY <1>1
<1> QED
  BY <1>3, <1>4, <1>5 DEF Chain, s

LEMMA NoFrames ==
  ASSUME NEW S, NEW r \in Seq(S), Len(r) = 0
  PROVE  r = <<>>
  OBVIOUS

\* What is below the innermost frame fits any frame of its function.
LEMMA FitsTail ==
  ASSUME NEW s \in Seq(Frames), s # <<>>, Chain(s), NEW x, x.fn = s[1].fn,
         x.step # "decorate" \/ s[1].step = "decorate",
         x.step = "resolve" => HasBody(x.fn, x.args) /\ x.n <= Len(Body[x.fn][x.args])
  PROVE  Fits(x, Tail(s))
<1>1. /\ Len(s) \in Nat /\ 1 \in 1 .. Len(s) /\ Len(Tail(s)) = Len(s) - 1
      /\ \A n \in 1 .. Len(s) - 1 : Tail(s)[n] = s[n + 1]
      /\ Tail(s) \in Seq(Frames)
  BY SeqFacts
<1>2. Tail(s) # <<>> => /\ Tail(s)[1].step \in {"resolve", "decorate"}
                        /\ Tail(s)[1].step = "resolve" => x.fn \in Callees(Tail(s)[1].fn)
  <2> SUFFICES ASSUME Tail(s) # <<>>
               PROVE  /\ Tail(s)[1].step \in {"resolve", "decorate"}
                      /\ Tail(s)[1].step = "resolve" => x.fn \in Callees(Tail(s)[1].fn)
    OBVIOUS
  <2>1. Len(Tail(s)) # 0
    BY <1>1
  <2>2. 2 \in 1 .. Len(s) /\ Tail(s)[1] = s[2]
    BY <1>1, <2>1
  <2>3. FrameInv(s, 2)
    BY <2>2 DEF Chain
  <2>4. 2 > 1 /\ 2 - 1 = 1
    OBVIOUS
  <2>5. s[2].step \in {"resolve", "decorate"}
    BY <2>3, <2>4 DEF FrameInv
  <2>6. s[2].step = "resolve" => s[1].fn \in Callees(s[2].fn)
    BY <2>3, <2>4 DEF FrameInv
  <2> QED
    BY <2>2, <2>5, <2>6
<1>3. x.step = "decorate" => Tail(s) = <<>>
  <2> SUFFICES ASSUME x.step = "decorate" PROVE Tail(s) = <<>>
    OBVIOUS
  <2>1. FrameInv(s, 1)
    BY <1>1 DEF Chain
  <2>2. Len(s) = 1
    BY <2>1 DEF FrameInv
  <2>3. Len(Tail(s)) = 0
    BY <1>1, <2>2
  <2> QED
    BY <1>1, <2>3, NoFrames
<1> QED
  BY <1>2, <1>3 DEF Fits

----------------------------------------------------------------------------
(* Frames *)

LEMMA FrameUpdates ==
  ASSUME NEW d \in Frames
  PROVE  /\ \A p \in Steps :
              /\ [d EXCEPT !.step = p] \in Frames
              /\ [d EXCEPT !.step = p].step = p /\ [d EXCEPT !.step = p].fn = d.fn
              /\ [d EXCEPT !.step = p].args = d.args /\ [d EXCEPT !.step = p].n = d.n
              /\ [d EXCEPT !.step = p].id = d.id /\ [d EXCEPT !.step = p].sigs = d.sigs
         /\ LET x == [d EXCEPT !.n = @ + 1]
            IN  x \in Frames /\ x.step = d.step /\ x.fn = d.fn /\ x.args = d.args
         /\ \A i \in Nat :
              LET x == [d EXCEPT !.step = "body", !.id = i]
              IN  /\ x \in Frames /\ x.step = "body" /\ x.fn = d.fn /\ x.args = d.args
                  /\ x.id = i /\ x.n = d.n /\ x.sigs = d.sigs
         /\ \A a \in ArgLists :
              LET x == [d EXCEPT !.step = "body", !.n = @ + 1, !.sigs = Append(@, a)]
              IN  /\ x \in Frames /\ x.step = "body" /\ x.fn = d.fn /\ x.args = d.args
                  /\ x.id = d.id /\ x.n = d.n + 1 /\ x.sigs = Append(d.sigs, a)
<1>1. \A p \in Steps :
        /\ [d EXCEPT !.step = p] \in Frames
        /\ [d EXCEPT !.step = p].step = p /\ [d EXCEPT !.step = p].fn = d.fn
        /\ [d EXCEPT !.step = p].args = d.args /\ [d EXCEPT !.step = p].n = d.n
        /\ [d EXCEPT !.step = p].id = d.id /\ [d EXCEPT !.step = p].sigs = d.sigs
  BY DEF Frames
<1>2. LET x == [d EXCEPT !.n = @ + 1]
      IN  x \in Frames /\ x.step = d.step /\ x.fn = d.fn /\ x.args = d.args
  BY DEF Frames
<1>3. \A i \in Nat :
        LET x == [d EXCEPT !.step = "body", !.id = i]
        IN  /\ x \in Frames /\ x.step = "body" /\ x.fn = d.fn /\ x.args = d.args
            /\ x.id = i /\ x.n = d.n /\ x.sigs = d.sigs
  BY DEF Frames, Steps
<1>4. \A a \in ArgLists :
        LET x == [d EXCEPT !.step = "body", !.n = @ + 1, !.sigs = Append(@, a)]
        IN  /\ x \in Frames /\ x.step = "body" /\ x.fn = d.fn /\ x.args = d.args
            /\ x.id = d.id /\ x.n = d.n + 1 /\ x.sigs = Append(d.sigs, a)
  <2> SUFFICES ASSUME NEW a \in ArgLists
               PROVE  LET x == [d EXCEPT !.step = "body", !.n = @ + 1, !.sigs = Append(@, a)]
                      IN  /\ x \in Frames /\ x.step = "body" /\ x.fn = d.fn /\ x.args = d.args
                          /\ x.id = d.id /\ x.n = d.n + 1 /\ x.sigs = Append(d.sigs, a)
    BY Zenon
  <2>1. d.sigs \in Seq(ArgLists) /\ d.n \in Nat \ {0}
    BY DEF Frames
  <2>2. Append(d.sigs, a) \in Seq(ArgLists) /\ d.n + 1 \in Nat \ {0}
    BY <2>1
  <2>3. \A m \in Nat \ {0}, q \in Seq(ArgLists) :
          LET x == [d EXCEPT !.step = "body", !.n = m, !.sigs = q]
          IN  /\ x \in Frames /\ x.step = "body" /\ x.fn = d.fn /\ x.args = d.args
              /\ x.id = d.id /\ x.n = m /\ x.sigs = q
    BY DEF Frames, Steps
  <2> QED
    BY <2>2, <2>3, Zenon
<1> QED
  BY <1>1, <1>2, <1>3, <1>4, Zenon

LEMMA Stepped ==
  ASSUME NEW d \in Frames, NEW p \in Steps
  PROVE  /\ [d EXCEPT !.step = p] \in Frames
         /\ [d EXCEPT !.step = p].step = p /\ [d EXCEPT !.step = p].fn = d.fn
         /\ [d EXCEPT !.step = p].args = d.args /\ [d EXCEPT !.step = p].n = d.n
         /\ [d EXCEPT !.step = p].id = d.id /\ [d EXCEPT !.step = p].sigs = d.sigs
  BY FrameUpdates, ZenonT(60)

LEMMA NewFrame ==
  ASSUME NEW p \in Steps, NEW f \in Functions, NEW a \in ArgLists
  PROVE  /\ Frame(p, f, a) \in Frames /\ Frame(p, f, a).step = p /\ Frame(p, f, a).fn = f
         /\ Frame(p, f, a).args = a /\ Frame(p, f, a).n = 1 /\ Frame(p, f, a).sigs = <<>>
  BY DEF Frame, Frames

\* Arguments come from the source and the program.
LEMMA Arguments ==
  /\ \A f \in Functions :
       /\ \A n \in 1 .. Len(Sigs[f]) : Sigs[f][n] \in ArgLists
       /\ \A a \in DOMAIN Body[f] :
            /\ a \in ArgLists
            /\ \A n \in 1 .. Len(Body[f][a]) :
                 /\ Body[f][a][n].args \in ArgLists
                 /\ Body[f][a][n].fn \in Callees(f) /\ Body[f][a][n].fn \in Functions
  /\ \A t \in Threads : \A n \in 1 .. Len(Program[t]) :
       Program[t][n].fn \in Functions /\ Program[t][n].args \in ArgLists
<1>1. ASSUME NEW f \in Functions, NEW n \in 1 .. Len(Sigs[f]) PROVE Sigs[f][n] \in ArgLists
  <2>1. Sigs[f][n] \in SigSet(f)
    BY ProgramAssumption DEF SigSet
  <2> QED
    BY <2>1 DEF ArgLists
<1>2. ASSUME NEW f \in Functions, NEW a \in DOMAIN Body[f] PROVE a \in ArgLists
  BY DEF ArgLists
<1>3. ASSUME NEW f \in Functions, NEW a \in DOMAIN Body[f], NEW n \in 1 .. Len(Body[f][a])
      PROVE  /\ Body[f][a][n].args \in ArgLists
             /\ Body[f][a][n].fn \in Callees(f) /\ Body[f][a][n].fn \in Functions
  <2>1. Body[f][a][n] \in CallsOf(f)
    <3>1. n \in DOMAIN Body[f][a]
      BY ProgramAssumption
    <3>2. Body[f][a][n] \in {Body[f][a][k] : k \in DOMAIN Body[f][a]}
      BY <3>1
    <3> QED
      BY <3>2 DEF CallsOf
  <2>2. Body[f][a][n].fn \in Module
    <3>1. {f} \in (SUBSET Functions) \ {{}}
      OBVIOUS
    <3>2. \A c \in CallsOf(f) : c.fn \in Module
      BY <3>1, CallsAreOrdered
    <3> QED
      BY <2>1, <3>2
  <2>3. Body[f][a][n].args \in {c.args : c \in CallsOf(f)}
    BY <2>1
  <2>4. Body[f][a][n].args \in ArgLists
    BY <2>3 DEF ArgLists
  <2> QED
    BY <2>1, <2>2, <2>4, ProgramAssumption DEF Callees
<1>4. ASSUME NEW t \in Threads, NEW n \in 1 .. Len(Program[t])
      PROVE  Program[t][n].fn \in Functions /\ Program[t][n].args \in ArgLists
  <2>1. n \in DOMAIN Program[t] /\ Program[t][n].fn \in Functions
    BY ProgramAssumption
  <2>2. Program[t][n].args \in {Program[t][k].args : k \in DOMAIN Program[t]}
    BY <2>1
  <2> QED
    BY <2>1, <2>2 DEF ArgLists
<1> QED
  BY <1>1, <1>2, <1>3, <1>4

----------------------------------------------------------------------------
(* What happens to a stack *)

\* A frame of the new stack that compiles was compiling.
SameWork(d, e) == Compiling(e) /\ e.fn = d.fn /\ e.args = d.args
Keeps(s, new) ==
  \A k \in 1 .. Len(new) :
    Compiling(new[k]) => \E m \in 1 .. Len(s) : SameWork(new[k], s[m])

One(d) == IF Holds(d) THEN 1 ELSE 0

LEMMA OnReturn ==
  ASSUME NEW s \in Seq(Frames), s # <<>>, Chain(s)
  PROVE  /\ Tail(s) \in Seq(Frames) /\ Chain(Tail(s)) /\ Keeps(s, Tail(s))
         /\ Depth(Tail(s)) \in Nat /\ Depth(s) = Depth(Tail(s)) + One(s[1])
<1>1. /\ Len(s) \in Nat /\ 1 \in 1 .. Len(s) /\ Tail(s) \in Seq(Frames)
      /\ Len(Tail(s)) = Len(s) - 1
      /\ \A n \in 1 .. Len(s) - 1 : Tail(s)[n] = s[n + 1]
      /\ \A n \in 1 .. Len(s) : s[n] \in Frames
  BY SeqFacts
<1>2. PICK r \in Seq(Frames) : r = Tail(s)
  BY <1>1
<1>3. s = <<s[1]>> \o r /\ s[1] \in Frames
  BY <1>1, <1>2, Uncons
<1>4. Depth(r) \in Nat /\ Depth(<<s[1]>> \o r) = Depth(r) + One(s[1])
  BY <1>3, DepthCons DEF One
<1>5. Keeps(s, r)
  <2> SUFFICES ASSUME NEW k \in 1 .. Len(r), Compiling(r[k])
               PROVE  \E m \in 1 .. Len(s) : SameWork(r[k], s[m])
    BY DEF Keeps
  <2>1. k + 1 \in 1 .. Len(s) /\ r[k] = s[k + 1]
    BY <1>1, <1>2
  <2> QED
    BY <2>1 DEF SameWork
<1>6. Chain(r)
  BY <1>2, ChainTail
<1> QED
  BY <1>2, <1>3, <1>4, <1>5, <1>6

\* The innermost frame goes on.
LEMMA OnBecome ==
  ASSUME NEW s \in Seq(Frames), s # <<>>, Chain(s), NEW x \in Frames, x.fn = s[1].fn,
         x.step # "decorate" \/ s[1].step = "decorate",
         x.step = "resolve" => HasBody(x.fn, x.args) /\ x.n <= Len(Body[x.fn][x.args])
  PROVE  /\ <<x>> \o Tail(s) \in Seq(Frames) /\ Chain(<<x>> \o Tail(s))
         /\ Depth(s) \in Nat
         /\ Depth(<<x>> \o Tail(s)) = (Depth(s) + One(x)) - One(s[1])
         /\ (Compiling(x) => SameWork(x, s[1])) => Keeps(s, <<x>> \o Tail(s))
<1>1. /\ Len(s) \in Nat /\ 1 \in 1 .. Len(s)
      /\ Len(Tail(s)) = Len(s) - 1
  BY SeqFacts
<1>2. PICK r \in Seq(Frames) : r = Tail(s)
  BY OnReturn
<1>3. Chain(r) /\ Keeps(s, r) /\ Depth(r) \in Nat /\ Depth(s) = Depth(r) + One(s[1])
  BY <1>2, OnReturn
<1>4. Fits(x, r)
  BY <1>2, FitsTail
<1>5. <<x>> \o r \in Seq(Frames) /\ Chain(<<x>> \o r)
  BY <1>3, <1>4, Cons, ChainCons
<1>6. Depth(<<x>> \o r) = Depth(r) + One(x)
  BY <1>3, DepthCons DEF One
<1>7. One(x) \in Nat /\ One(s[1]) \in Nat
  BY DEF One
<1>8. ASSUME Compiling(x) => SameWork(x, s[1]) PROVE Keeps(s, <<x>> \o r)
  <2>1. /\ Len(<<x>> \o r) = Len(r) + 1 /\ (<<x>> \o r)[1] = x /\ Len(r) \in Nat
        /\ \A n \in 2 .. Len(r) + 1 : (<<x>> \o r)[n] = r[n - 1]
    BY Cons, SeqFacts
  <2> SUFFICES ASSUME NEW k \in 1 .. Len(<<x>> \o r), Compiling((<<x>> \o r)[k])
               PROVE  \E m \in 1 .. Len(s) : SameWork((<<x>> \o r)[k], s[m])
    BY DEF Keeps
  <2>2. CASE k = 1
    BY <1>1, <1>8, <2>1, <2>2
  <2>3. CASE k # 1
    <3>1. k \in 2 .. Len(r) + 1 /\ k - 1 \in 1 .. Len(r)
      BY <2>1, <2>3
    <3>2. (<<x>> \o r)[k] = r[k - 1]
      BY <2>1, <3>1
    <3> QED
      BY <1>3, <3>1, <3>2 DEF Keeps
  <2> QED
    BY <2>2, <2>3
<1>9. Depth(s) \in Nat /\ Depth(<<x>> \o r) = (Depth(s) + One(x)) - One(s[1])
  BY <1>3, <1>6, <1>7
<1> QED
  BY <1>2, <1>5, <1>8, <1>9

\* The innermost frame, going on, calls for another.
LEMMA OnPush ==
  ASSUME NEW s \in Seq(Frames), s # <<>>, Chain(s),
         NEW x \in Frames, NEW y \in Frames, y.fn = s[1].fn,
         y.step = "resolve" \/ (y.step = "decorate" /\ s[1].step = "decorate"),
         y.step = "resolve" => /\ HasBody(y.fn, y.args) /\ y.n <= Len(Body[y.fn][y.args])
                               /\ SameWork(y, s[1]) /\ x.fn \in Callees(y.fn),
         x.step \in {"acquire", "result", "template"}
  PROVE  /\ <<x, y>> \o Tail(s) \in Seq(Frames) /\ Chain(<<x, y>> \o Tail(s))
         /\ Depth(s) \in Nat
         /\ Depth(<<x, y>> \o Tail(s)) = (Depth(s) + One(y)) - One(s[1])
         /\ Keeps(s, <<x, y>> \o Tail(s))
<1> DEFINE b == <<y>> \o Tail(s)
<1>1. /\ b \in Seq(Frames) /\ Chain(b) /\ Depth(s) \in Nat
      /\ Depth(b) = (Depth(s) + One(y)) - One(s[1])
      /\ Keeps(s, b)
  <2>1. Compiling(y) => SameWork(y, s[1])
    BY DEF Compiling
  <2> QED
    BY <2>1, OnBecome
<1>2. <<x, y>> \o Tail(s) = <<x>> \o b
  <2>1. Tail(s) \in Seq(Frames)
    BY OnReturn
  <2> QED
    BY <2>1, Cons2
<1>3. b # <<>> /\ b[1] = y
  <2>1. Tail(s) \in Seq(Frames)
    BY OnReturn
  <2> QED
    BY <2>1, Cons
<1> HIDE DEF b
<1>4. Fits(x, b)
  BY <1>3 DEF Fits
<1>5. <<x>> \o b \in Seq(Frames) /\ Chain(<<x>> \o b)
  BY <1>1, <1>4, Cons, ChainCons
<1>6. Depth(<<x>> \o b) = Depth(b)
  BY <1>1, DepthCons DEF Holds
<1>7. Keeps(s, <<x>> \o b)
  <2>1. /\ Len(<<x>> \o b) = Len(b) + 1 /\ (<<x>> \o b)[1] = x /\ Len(b) \in Nat
        /\ \A n \in 2 .. Len(b) + 1 : (<<x>> \o b)[n] = b[n - 1]
    BY <1>1, Cons, SeqFacts
  <2> SUFFICES ASSUME NEW k \in 1 .. Len(<<x>> \o b), Compiling((<<x>> \o b)[k])
               PROVE  \E m \in 1 .. Len(s) : SameWork((<<x>> \o b)[k], s[m])
    BY DEF Keeps
  <2>2. k # 1
    BY <2>1 DEF Compiling
  <2>3. k \in 2 .. Len(b) + 1 /\ k - 1 \in 1 .. Len(b)
    BY <2>1, <2>2
  <2>4. (<<x>> \o b)[k] = b[k - 1]
    BY <2>1, <2>3
  <2> QED
    BY <1>1, <2>3, <2>4 DEF Keeps
<1> QED
  BY <1>1, <1>2, <1>5, <1>6, <1>7

----------------------------------------------------------------------------
(* What a step does *)

\* A step of a thread changes its own stack, and the lock by as much as the
\* compilations on it.
Moves(t, new) ==
  /\ new \in Seq(Frames) /\ Chain(new)
  /\ stack' = [stack EXCEPT ![t] = new]
  /\ \/ lock' = lock /\ Depth(new) = Depth(stack[t])
     \/ /\ MayAcquire(t) /\ lock' = [owner |-> t, depth |-> lock.depth + 1]
        /\ Depth(new) = Depth(stack[t]) + 1
     \/ Release(t) /\ Depth(stack[t]) = Depth(new) + 1 /\ Depth(new) \in Nat

\* The thread that takes a step, and its innermost frame.
LEMMA Innermost ==
  ASSUME TypeInv, StackInv, NEW t \in Threads, NEW p, At(t, p)
  PROVE  /\ stack[t] \in Seq(Frames) /\ stack[t] # <<>> /\ Chain(stack[t])
         /\ Top(t) = stack[t][1] /\ Top(t) \in Frames /\ Top(t).step = p
         /\ Top(t).fn \in Functions /\ Top(t).args \in ArgLists /\ Top(t).n \in Nat \ {0}
         /\ FrameInv(stack[t], 1)
<1>1. stack[t] \in Seq(Frames) /\ stack[t] # <<>> /\ Chain(stack[t])
  BY DEF TypeInv, StackInv, Chain, At
<1>2. 1 \in 1 .. Len(stack[t]) /\ \A n \in 1 .. Len(stack[t]) : stack[t][n] \in Frames
  BY <1>1, SeqFacts
<1>3. Top(t) = stack[t][1] /\ Top(t).step = p
  BY DEF Top, At
<1>4. Top(t) \in Frames
  BY <1>2, <1>3
<1> QED
  BY <1>1, <1>2, <1>3, <1>4 DEF Frames, Chain

LEMMA StartMoves ==
  ASSUME TypeInv, StackInv, NEW t \in Threads, Start(t)
  PROVE  \E new : Moves(t, new) /\ Keeps(stack[t], new)
<1> DEFINE s == Program[t][pc[t]]
           x == Frame(IF s.op = "decorate" THEN "decorate" ELSE "result", s.fn, s.args)
           e == <<>>
<1>1. /\ stack[t] = <<>> /\ lock' = lock
      /\ stack' = [stack EXCEPT ![t] = <<x>>]
      /\ pc[t] <= Len(Program[t])
  BY DEF Start
<1>2. pc[t] \in 1 .. Len(Program[t])
  BY <1>1, ProgramAssumption DEF TypeInv
<1>3. s.fn \in Functions /\ s.args \in ArgLists
  BY <1>2, Arguments
<1>4. x \in Frames /\ x.step \in {"decorate", "result"}
  <2> DEFINE p == IF s.op = "decorate" THEN "decorate" ELSE "result"
  <2>1. p \in Steps /\ p \in {"decorate", "result"}
    BY DEF Steps
  <2> HIDE DEF p
  <2>2. Frame(p, s.fn, s.args) \in Frames /\ Frame(p, s.fn, s.args).step = p
    BY <1>3, <2>1, NewFrame
  <2> QED
    BY <2>1, <2>2 DEF p
<1> HIDE DEF x
<1>5. e \in Seq(Frames) /\ Chain(e) /\ Len(e) = 0 /\ <<x>> \o e = <<x>>
  BY <1>4 DEF Chain
<1>6. Fits(x, e)
  BY <1>4 DEF Fits
<1>7. <<x>> \o e \in Seq(Frames) /\ Chain(<<x>> \o e)
  BY <1>4, <1>5, <1>6, Cons, ChainCons
<1>8. Depth(<<x>> \o e) = Depth(e)
  BY <1>4, <1>5, DepthCons DEF Holds
<1>9. Keeps(e, <<x>>)
  BY <1>4 DEF Keeps, Compiling
<1> QED
  BY <1>1, <1>5, <1>7, <1>8, <1>9 DEF Moves

\* The innermost frame ends, without the lock.
LEMMA ReturnMoves ==
  ASSUME TypeInv, StackInv, NEW t \in Threads, stack[t] # <<>>, ~Holds(stack[t][1]),
         stack' = [stack EXCEPT ![t] = Tail(@)], lock' = lock
  PROVE  \E new : Moves(t, new) /\ Keeps(stack[t], new)
<1>1. stack[t] \in Seq(Frames) /\ Chain(stack[t])
  BY DEF TypeInv, StackInv, Chain
<1>2. stack' = [stack EXCEPT ![t] = Tail(stack[t])]
  OBVIOUS
<1>3. /\ Tail(stack[t]) \in Seq(Frames) /\ Chain(Tail(stack[t]))
      /\ Keeps(stack[t], Tail(stack[t])) /\ Depth(Tail(stack[t])) = Depth(stack[t])
  BY <1>1, OnReturn DEF One
<1> QED
  BY <1>2, <1>3 DEF Moves

\* The innermost frame ends, and gives the lock back.
LEMMA ReleaseMoves ==
  ASSUME TypeInv, StackInv, NEW t \in Threads, stack[t] # <<>>, Holds(stack[t][1]),
         stack' = [stack EXCEPT ![t] = Tail(@)], Release(t)
  PROVE  Moves(t, Tail(stack[t])) /\ Keeps(stack[t], Tail(stack[t]))
<1>1. stack[t] \in Seq(Frames) /\ Chain(stack[t])
  BY DEF TypeInv, StackInv, Chain
<1>2. stack' = [stack EXCEPT ![t] = Tail(stack[t])]
  OBVIOUS
<1>3. /\ Tail(stack[t]) \in Seq(Frames) /\ Chain(Tail(stack[t]))
      /\ Keeps(stack[t], Tail(stack[t]))
      /\ Depth(stack[t]) = Depth(Tail(stack[t])) + 1 /\ Depth(Tail(stack[t])) \in Nat
  BY <1>1, OnReturn DEF One
<1> QED
  BY <1>2, <1>3 DEF Moves

LEMMA DecorateMoves ==
  ASSUME TypeInv, StackInv, NEW t \in Threads, DecorateSig(t)
  PROVE  \E new : Moves(t, new) /\ Keeps(stack[t], new)
<1> DEFINE d == Top(t)
           s == stack[t]
           x == Frame("acquire", d.fn, Sigs[d.fn][d.n])
           y == [d EXCEPT !.n = @ + 1]
<1>1. /\ At(t, "decorate") /\ d.n <= Len(Sigs[d.fn]) /\ lock' = lock
      /\ stack' = [stack EXCEPT ![t] = <<x, y>> \o Tail(@)]
  BY DEF DecorateSig, Push
<1>2. /\ s \in Seq(Frames) /\ s # <<>> /\ Chain(s) /\ d = s[1] /\ d \in Frames
      /\ d.step = "decorate" /\ d.fn \in Functions /\ d.n \in Nat \ {0}
  BY <1>1, Innermost
<1>3. d.n \in 1 .. Len(Sigs[d.fn])
  BY <1>1, <1>2, ProgramAssumption
<1>4. x \in Frames /\ x.step = "acquire"
  BY <1>2, <1>3, Arguments, NewFrame DEF Steps
<1>5. y \in Frames /\ y.step = "decorate" /\ y.fn = d.fn
  BY <1>2, FrameUpdates, ZenonT(60)
<1>6. stack' = [stack EXCEPT ![t] = <<x, y>> \o Tail(s)]
  BY <1>1
<1> HIDE DEF x, y, d, s
<1>7. /\ <<x, y>> \o Tail(s) \in Seq(Frames) /\ Chain(<<x, y>> \o Tail(s))
      /\ Depth(s) \in Nat /\ Depth(<<x, y>> \o Tail(s)) = (Depth(s) + One(y)) - One(s[1])
      /\ Keeps(s, <<x, y>> \o Tail(s))
  BY <1>2, <1>4, <1>5, OnPush
<1>8. One(s[1]) = 0 /\ One(y) = 0
  BY <1>2, <1>5 DEF One, Holds
<1>9. Depth(<<x, y>> \o Tail(s)) = Depth(s)
  BY <1>7, <1>8
<1> QED
  BY <1>1, <1>6, <1>7, <1>9 DEF Moves, s

LEMMA BecomeMoves ==
  ASSUME TypeInv, StackInv, NEW t \in Threads, stack[t] # <<>>,
         NEW x \in Frames, x.fn = stack[t][1].fn, x.step \notin {"decorate", "resolve"},
         Become(t, x), lock' = lock, Holds(x) <=> Holds(stack[t][1]),
         Compiling(x) => SameWork(x, stack[t][1])
  PROVE  \E new : Moves(t, new) /\ Keeps(stack[t], new)
<1> DEFINE s == stack[t]
           new == <<x>> \o Tail(s)
<1>1. s \in Seq(Frames) /\ Chain(s) /\ s # <<>> /\ x.fn = s[1].fn
  BY DEF TypeInv, StackInv, Chain
<1>2. stack' = [stack EXCEPT ![t] = new]
  BY DEF Become
<1>3. Compiling(x) => SameWork(x, s[1])
  OBVIOUS
<1>4. One(x) = One(s[1]) /\ One(x) \in Nat
  BY DEF One
<1> HIDE DEF s
<1>5. /\ new \in Seq(Frames) /\ Chain(new) /\ Depth(s) \in Nat
      /\ Depth(new) = (Depth(s) + One(x)) - One(s[1]) /\ Keeps(s, new)
  BY <1>1, <1>3, OnBecome
<1>6. Depth(new) = Depth(s)
  BY <1>4, <1>5
<1> HIDE DEF new
<1> QED
  BY <1>2, <1>5, <1>6 DEF Moves, s

LEMMA AcquireMoves ==
  ASSUME TypeInv, StackInv, NEW t \in Threads, Acquire(t)
  PROVE  \E new : Moves(t, new) /\ Keeps(stack[t], new)
<1> DEFINE s == stack[t]
           x == [Top(t) EXCEPT !.step = "check"]
           new == <<x>> \o Tail(s)
<1>1. /\ At(t, "acquire") /\ MayAcquire(t)
      /\ lock' = [owner |-> t, depth |-> lock.depth + 1]
      /\ stack' = [stack EXCEPT ![t] = new]
  BY DEF Acquire, Become
<1>2. /\ s \in Seq(Frames) /\ s # <<>> /\ Chain(s) /\ Top(t) = s[1] /\ Top(t) \in Frames
      /\ s[1].step = "acquire"
  BY <1>1, Innermost
<1>3. x \in Frames /\ x.step = "check" /\ x.fn = s[1].fn
  <2>1. "check" \in Steps
    BY DEF Steps
  <2>2. x \in Frames /\ x.step = "check" /\ x.fn = Top(t).fn
    BY <1>2, <2>1, Stepped, Zenon
  <2> QED
    BY <1>2, <2>2
<1>4. One(x) = 1 /\ One(s[1]) = 0 /\ ~Compiling(x)
  BY <1>2, <1>3 DEF One, Holds, Compiling
<1> HIDE DEF s, x
<1>5. /\ new \in Seq(Frames) /\ Chain(new) /\ Depth(s) \in Nat
      /\ Depth(new) = (Depth(s) + One(x)) - One(s[1]) /\ Keeps(s, new)
  BY <1>2, <1>3, <1>4, OnBecome
<1>6. Depth(new) = Depth(s) + 1
  BY <1>4, <1>5
<1> HIDE DEF new
<1> QED
  BY <1>1, <1>5, <1>6 DEF Moves, s

LEMMA ResultMoves ==
  ASSUME TypeInv, StackInv, NEW t \in Threads, Result(t) \/ Template(t)
  PROVE  \E new : Moves(t, new) /\ Keeps(stack[t], new)
<1> DEFINE x == [Top(t) EXCEPT !.step = "acquire"]
<1>1. /\ At(t, "result") \/ At(t, "template")
      /\ lock' = lock
      /\ \/ stack' = [stack EXCEPT ![t] = Tail(@)]
         \/ Become(t, x)
  BY DEF Result, Template, Return
<1>2. /\ stack[t] # <<>> /\ Top(t) = stack[t][1] /\ Top(t) \in Frames
      /\ stack[t][1].step \in {"result", "template"}
  BY <1>1, Innermost
<1>3. x \in Frames /\ x.step = "acquire" /\ x.fn = stack[t][1].fn
  <2>1. "acquire" \in Steps
    BY DEF Steps
  <2>2. x \in Frames /\ x.step = "acquire" /\ x.fn = Top(t).fn
    BY <1>2, <2>1, Stepped, Zenon
  <2> QED
    BY <1>2, <2>2
<1>4. ~Holds(x) /\ ~Compiling(x) /\ ~Holds(stack[t][1])
  BY <1>2, <1>3 DEF Holds, Compiling
<1> HIDE DEF x
<1>5. CASE stack' = [stack EXCEPT ![t] = Tail(@)]
  BY <1>1, <1>2, <1>4, <1>5, ReturnMoves
<1>6. CASE Become(t, x)
  BY <1>1, <1>2, <1>3, <1>4, <1>6, BecomeMoves
<1> QED
  BY <1>1, <1>5, <1>6

LEMMA DecoratedMoves ==
  ASSUME TypeInv, StackInv, NEW t \in Threads, Decorated(t) \/ DecorateFails(t)
  PROVE  \E new : Moves(t, new) /\ Keeps(stack[t], new)
<1>1. At(t, "decorate") /\ lock' = lock /\ stack' = [stack EXCEPT ![t] = Tail(@)]
  BY DEF Decorated, DecorateFails, Return
<1>2. stack[t] # <<>> /\ stack[t][1].step = "decorate"
  BY <1>1, Innermost
<1>3. ~Holds(stack[t][1])
  BY <1>2 DEF Holds
<1> QED
  BY <1>1, <1>2, <1>3, ReturnMoves

\* A call is typed: the caller waits below the function called.
LEMMA TypeCallMoves ==
  ASSUME TypeInv, StackInv, NEW t \in Threads, TypeCall(t)
  PROVE  \E new : Moves(t, new) /\ Keeps(stack[t], new)
<1> DEFINE d == Top(t)
           s == stack[t]
           call == Body[d.fn][d.args][d.n]
           p == IF Kind[d.fn] = "HOST" /\ Kind[call.fn] = "KERNEL" THEN "result" ELSE "template"
           x == Frame(p, call.fn, call.args)
           y == [d EXCEPT !.step = "resolve"]
<1>1. /\ At(t, "body") /\ HasBody(d.fn, d.args) /\ d.n <= Len(Body[d.fn][d.args])
      /\ lock' = lock /\ stack' = [stack EXCEPT ![t] = <<x, y>> \o Tail(@)]
  BY Zenon DEF TypeCall, Push
<1>2. /\ s \in Seq(Frames) /\ s # <<>> /\ Chain(s) /\ d = s[1] /\ d \in Frames
      /\ d.step = "body" /\ d.fn \in Functions /\ d.args \in ArgLists /\ d.n \in Nat \ {0}
  BY <1>1, Innermost, Zenon
<1>3. d.args \in DOMAIN Body[d.fn] /\ d.n \in 1 .. Len(Body[d.fn][d.args])
  <2>1. d.args \in DOMAIN Body[d.fn]
    BY <1>1 DEF HasBody
  <2>2. Len(Body[d.fn][d.args]) \in Nat
    BY <1>2, <2>1, ProgramAssumption
  <2>3. d.n \in Nat \ {0} /\ d.n <= Len(Body[d.fn][d.args])
    BY <1>1, <1>2, Zenon
  <2> QED
    BY <2>1, <2>2, <2>3, InRange, Zenon
<1>4. call.fn \in Functions /\ call.args \in ArgLists /\ call.fn \in Callees(d.fn)
  BY <1>2, <1>3, Arguments, Zenon
<1>5. p \in Steps /\ p \in {"result", "template"}
  BY DEF Steps
<1>6. y \in Frames /\ y.step = "resolve" /\ y.fn = d.fn /\ y.args = d.args /\ y.n = d.n
  BY <1>2, FrameUpdates, ZenonT(60) DEF Steps
<1>7. stack' = [stack EXCEPT ![t] = <<x, y>> \o Tail(s)]
  BY <1>1, Zenon
<1> HIDE DEF p, y, d, s, call
<1>8. x \in Frames /\ x.step = p /\ x.fn = call.fn
  BY <1>4, <1>5, NewFrame
<1> HIDE DEF x
<1>9. SameWork(y, s[1])
  BY <1>2, <1>6 DEF SameWork, Compiling
<1>10. /\ y.fn = s[1].fn /\ HasBody(y.fn, y.args) /\ y.n <= Len(Body[y.fn][y.args])
       /\ x.fn \in Callees(y.fn) /\ x.step \in {"acquire", "result", "template"}
  BY <1>1, <1>2, <1>4, <1>5, <1>6, <1>8
<1>11. /\ <<x, y>> \o Tail(s) \in Seq(Frames) /\ Chain(<<x, y>> \o Tail(s))
       /\ Depth(s) \in Nat /\ Depth(<<x, y>> \o Tail(s)) = (Depth(s) + One(y)) - One(s[1])
       /\ Keeps(s, <<x, y>> \o Tail(s))
  BY <1>2, <1>6, <1>8, <1>9, <1>10, OnPush
<1>12. One(s[1]) = 1 /\ One(y) = 1
  BY <1>2, <1>6 DEF One, Holds
<1>13. Depth(<<x, y>> \o Tail(s)) = Depth(s)
  BY <1>11, <1>12
<1> QED
  BY <1>1, <1>7, <1>11, <1>13, Zenon DEF Moves, s

\* A compilation ends, well or not.
LEMMA EndMoves ==
  ASSUME TypeInv, StackInv, NEW t \in Threads,
         BodyFails(t) \/ Finish(t) \/ (Resolve(t) /\ Fail(t))
  PROVE  /\ Moves(t, Tail(stack[t])) /\ Keeps(stack[t], Tail(stack[t]))
         /\ stack[t] # <<>> /\ Compiling(stack[t][1])
<1>1. At(t, "body") \/ At(t, "resolve")
  BY Zenon DEF BodyFails, Finish, Resolve
<1>2. stack' = [stack EXCEPT ![t] = Tail(@)] /\ Release(t)
  <2>1. CASE Fail(t)
    BY <2>1 DEF Fail, Return
  <2>2. CASE BodyFails(t)
    BY <2>2 DEF BodyFails, Fail, Return
  <2>3. CASE Finish(t)
    BY <2>3 DEF Finish, Return
  <2> QED
    BY <2>1, <2>2, <2>3
<1>3. stack[t] # <<>> /\ stack[t][1].step \in {"body", "resolve"}
  BY <1>1, Innermost
<1>4. Holds(stack[t][1]) /\ Compiling(stack[t][1])
  BY <1>3 DEF Holds, Compiling
<1> QED
  BY <1>2, <1>3, <1>4, ReleaseMoves, Zenon

\* A compilation that has resolved a call is the compilation it was.
LEMMA CalledFrame ==
  ASSUME NEW d \in Frames, NEW a \in ArgLists
  PROVE  LET x == [d EXCEPT !.step = "body", !.n = @ + 1, !.sigs = Append(@, a)]
         IN  x \in Frames /\ x.step = "body" /\ x.fn = d.fn /\ x.args = d.args
<1> DEFINE X(b) == [d EXCEPT !.step = "body", !.n = @ + 1, !.sigs = Append(@, b)]
<1>1. \A b \in ArgLists : X(b) \in Frames /\ X(b).step = "body" /\ X(b).fn = d.fn
                          /\ X(b).args = d.args
  BY FrameUpdates, ZenonT(60)
<1> QED
  BY <1>1, Zenon

\* A call is resolved: the caller goes on.
LEMMA ResolveMoves ==
  ASSUME TypeInv, StackInv, NEW t \in Threads, Resolve(t)
  PROVE  \/ Fail(t)
         \/ /\ failed' = failed
            /\ \E new : Moves(t, new) /\ Keeps(stack[t], new)
<1> DEFINE d == Top(t)
           call == Body[d.fn][d.args][d.n]
           X(a) == [d EXCEPT !.step = "body", !.n = @ + 1, !.sigs = Append(@, a)]
<1>1. At(t, "resolve")
  BY Zenon DEF Resolve
<1>2. \/ Fail(t)
      \/ /\ failed' = failed /\ lock' = lock
         /\ \E a \in DOMAIN overloads[call.fn] : Become(t, X(a))
  BY Zenon DEF Resolve
<1>3. /\ stack[t] # <<>> /\ d = stack[t][1] /\ d \in Frames /\ d.step = "resolve"
      /\ d.fn \in Functions /\ d.args \in ArgLists /\ d.n \in Nat \ {0}
      /\ FrameInv(stack[t], 1)
  BY <1>1, Innermost
<1>4. HasBody(d.fn, d.args) /\ d.n <= Len(Body[d.fn][d.args])
  BY <1>3 DEF FrameInv
<1>5. d.args \in DOMAIN Body[d.fn]
  BY <1>4 DEF HasBody
<1>6. Len(Body[d.fn][d.args]) \in Nat
  BY <1>3, <1>5, ProgramAssumption
<1>7. d.n \in 1 .. Len(Body[d.fn][d.args])
  BY <1>3, <1>4, <1>6, InRange, Zenon
<1>8. call.fn \in Functions
  BY <1>3, <1>5, <1>7, Arguments
<1> SUFFICES ASSUME ~Fail(t)
             PROVE  failed' = failed /\ \E new : Moves(t, new) /\ Keeps(stack[t], new)
  OBVIOUS
<1>9. failed' = failed /\ lock' = lock
  BY <1>2, Zenon
<1>10. PICK a \in DOMAIN overloads[call.fn] : Become(t, X(a))
  BY <1>2, Zenon
<1>11. a \in ArgLists
  <2>1. DOMAIN overloads[call.fn] \subseteq ArgLists
    BY <1>8 DEF TypeInv
  <2> QED
    BY <2>1
<1>12. PICK x : x = X(a)
  OBVIOUS
<1>13. x \in Frames /\ x.step = "body" /\ x.fn = d.fn /\ x.args = d.args
  <2>1. X(a) \in Frames /\ X(a).step = "body" /\ X(a).fn = d.fn /\ X(a).args = d.args
    BY <1>3, <1>11, CalledFrame
  <2> QED
    BY <1>12, <2>1, Zenon
<1>14. Become(t, x)
  BY <1>10, <1>12
<1> HIDE DEF d, X
<1>15. Holds(x) /\ Holds(stack[t][1]) /\ SameWork(x, stack[t][1])
  BY <1>3, <1>13 DEF Holds, SameWork, Compiling
<1>16. \E new : Moves(t, new) /\ Keeps(stack[t], new)
  BY <1>3, <1>9, <1>13, <1>14, <1>15, BecomeMoves, Zenon
<1> QED
  BY <1>9, <1>16

\* What a frame compiles was neither compiled nor refused.
Fresh(d) == d.args \notin DOMAIN overloads[d.fn] \cup failed[d.fn]
KeepsFresh(s, new) ==
  \A k \in 1 .. Len(new) :
    Compiling(new[k]) => Fresh(new[k]) \/ \E m \in 1 .. Len(s) : SameWork(new[k], s[m])

LEMMA CheckMoves ==
  ASSUME TypeInv, StackInv, NEW t \in Threads, Check(t)
  PROVE  \E new : Moves(t, new) /\ KeepsFresh(stack[t], new)
<1> DEFINE d == Top(t)
           s == stack[t]
           x == [d EXCEPT !.step = "body", !.id = ids]
<1>1. /\ At(t, "check")
      /\ \/ Become(t, x) /\ lock' = lock /\ Fresh(d)
         \/ stack' = [stack EXCEPT ![t] = Tail(@)] /\ Release(t)
  <2>1. Refusal(d.fn, d.args) # "compile"
    BY DEF Refusal, ArgumentError
  <2> HIDE DEF d
  <2> QED
    BY <2>1 DEF Check, Return, Fresh, Existing, d
<1>2. /\ s \in Seq(Frames) /\ s # <<>> /\ Chain(s) /\ d = s[1] /\ d \in Frames
      /\ d.step = "check"
  BY <1>1, Innermost
<1>3. CASE Become(t, x) /\ lock' = lock /\ Fresh(d)
  <2>1. ids \in Nat
    BY DEF TypeInv
  <2>2. x \in Frames /\ x.step = "body" /\ x.fn = d.fn /\ x.args = d.args
    BY <1>2, <2>1, FrameUpdates, ZenonT(60)
  <2>3. stack' = [stack EXCEPT ![t] = <<x>> \o Tail(s)]
    BY <1>3 DEF Become
  <2>4. Fresh(x)
    BY <1>3, <2>2 DEF Fresh
  <2> HIDE DEF x, d, s
  <2>5. One(x) = 1 /\ One(s[1]) = 1
    BY <1>2, <2>2 DEF One, Holds
  <2>6. /\ <<x>> \o Tail(s) \in Seq(Frames) /\ Chain(<<x>> \o Tail(s)) /\ Depth(s) \in Nat
        /\ Depth(<<x>> \o Tail(s)) = (Depth(s) + One(x)) - One(s[1])
    BY <1>2, <2>2, OnBecome
  <2>7. Depth(<<x>> \o Tail(s)) = Depth(s)
    BY <2>5, <2>6
  <2>8. KeepsFresh(s, <<x>> \o Tail(s))
    <3>1. PICK r \in Seq(Frames) : r = Tail(s)
      BY <1>2, OnReturn
    <3>2. Keeps(s, r)
      BY <1>2, <3>1, OnReturn
    <3>3. /\ Len(<<x>> \o r) = Len(r) + 1 /\ (<<x>> \o r)[1] = x
          /\ \A n \in 2 .. Len(r) + 1 : (<<x>> \o r)[n] = r[n - 1]
      BY <2>2, Cons
    <3>4. ASSUME NEW k \in 1 .. Len(<<x>> \o r), Compiling((<<x>> \o r)[k])
          PROVE  Fresh((<<x>> \o r)[k]) \/ \E m \in 1 .. Len(s) : SameWork((<<x>> \o r)[k], s[m])
      <4>1. CASE k = 1
        BY <2>4, <3>3, <4>1
      <4>2. CASE k # 1
        <5>1. k \in 2 .. Len(r) + 1 /\ k - 1 \in 1 .. Len(r)
          BY <3>3, <4>2
        <5>2. (<<x>> \o r)[k] = r[k - 1]
          BY <3>3, <5>1
        <5> QED
          BY <3>2, <3>4, <5>1, <5>2 DEF Keeps
      <4> QED
        BY <4>1, <4>2
    <3> QED
      BY <3>1, <3>4 DEF KeepsFresh
  <2> QED
    BY <1>3, <2>3, <2>6, <2>7, <2>8 DEF Moves, s
<1>4. CASE stack' = [stack EXCEPT ![t] = Tail(@)] /\ Release(t)
  <2>1. Holds(stack[t][1])
    BY <1>2 DEF Holds
  <2>2. Moves(t, Tail(s)) /\ Keeps(s, Tail(s))
    BY <1>2, <1>4, <2>1, ReleaseMoves
  <2> QED
    BY <2>2 DEF Keeps, KeepsFresh
<1> QED
  BY <1>1, <1>3, <1>4

\* What is remembered of a compilation that ends.
Settles(t) ==
  \/ overloads' = overloads
     /\ failed' = [failed EXCEPT ![Top(t).fn] = @ \cup {Top(t).args}]
  \/ overloads' = overloads /\ failed' = failed
  \/ AddOverload(Top(t)) /\ failed' = failed

\* A step of a thread ends the compilation of its innermost frame, or leaves
\* what was compiled and refused as it is.
StepMove(t, new) ==
  /\ Moves(t, new)
  /\ \/ overloads' = overloads /\ failed' = failed /\ KeepsFresh(stack[t], new)
     \/ /\ stack[t] # <<>> /\ Compiling(stack[t][1]) /\ new = Tail(stack[t])
        /\ Settles(t)

LEMMA StepMoves ==
  ASSUME TypeInv, StackInv, NEW t \in Threads, Step(t)
  PROVE  \E new : StepMove(t, new)
<1>1. ASSUME NEW new, Moves(t, new), Keeps(stack[t], new),
             overloads' = overloads, failed' = failed
      PROVE  StepMove(t, new)
  <2>1. KeepsFresh(stack[t], new)
    BY <1>1 DEF Keeps, KeepsFresh
  <2> QED
    BY <1>1, <2>1 DEF StepMove
<1>2. CASE Start(t)
  BY <1>1, <1>2, StartMoves DEF Start
<1>3. CASE DecorateSig(t)
  BY <1>1, <1>3, DecorateMoves DEF DecorateSig
<1>4. CASE Decorated(t) \/ DecorateFails(t)
  BY <1>1, <1>4, DecoratedMoves DEF Decorated, DecorateFails
<1>5. CASE Result(t) \/ Template(t)
  BY <1>1, <1>5, ResultMoves DEF Result, Template
<1>6. CASE Acquire(t)
  BY <1>1, <1>6, AcquireMoves DEF Acquire
<1>7. CASE Check(t)
  <2>1. PICK new : Moves(t, new) /\ KeepsFresh(stack[t], new)
    BY <1>7, CheckMoves
  <2>2. overloads' = overloads /\ failed' = failed
    BY <1>7 DEF Check
  <2> QED
    BY <2>1, <2>2 DEF StepMove
<1>8. CASE TypeCall(t)
  BY <1>1, <1>8, TypeCallMoves, Zenon DEF TypeCall
<1>9. ASSUME BodyFails(t) \/ Finish(t) \/ (Resolve(t) /\ Fail(t))
      PROVE  \E new : StepMove(t, new)
  <2>1. Settles(t)
    <3>1. CASE BodyFails(t)
      BY <3>1 DEF BodyFails, Fail, Settles
    <3>2. CASE Finish(t)
      BY <3>2 DEF Finish, Settles
    <3>3. CASE Resolve(t) /\ Fail(t)
      BY <3>3, Zenon DEF Resolve, Fail, Settles
    <3> QED
      BY <1>9, <3>1, <3>2, <3>3
  <2> QED
    BY <1>9, <2>1, EndMoves, Zenon DEF StepMove
<1>10. CASE Resolve(t)
  <2>1. CASE Fail(t)
    BY <1>9, <1>10, <2>1
  <2>2. CASE ~Fail(t)
    <3>1. failed' = failed /\ overloads' = overloads
      BY <1>10, <2>2, ResolveMoves, Zenon DEF Resolve
    <3> QED
      BY <1>1, <1>10, <2>2, <3>1, ResolveMoves
  <2> QED
    BY <2>1, <2>2
<1> QED
  BY <1>2, <1>3, <1>4, <1>5, <1>6, <1>7, <1>8, <1>9, <1>10 DEF Step

LEMMA Added ==
  ASSUME TypeInv, NEW d, d.fn \in Functions, AddOverload(d)
  PROVE  /\ DOMAIN overloads' = Functions
         /\ overloads' = [f \in Functions |-> overloads'[f]]
         /\ \A f \in Functions :
              DOMAIN overloads'[f] = IF f = d.fn THEN DOMAIN overloads[f] \cup {d.args}
                                     ELSE DOMAIN overloads[f]
<1> DEFINE New == [a \in DOMAIN overloads[d.fn] \cup {d.args} |->
                     IF a = d.args
                     THEN [id |-> d.id, entry_point |-> EntryPoint(d.fn, d.id),
                           code |-> Linked(d)]
                     ELSE overloads[d.fn][a]]
<1>1. overloads' = [overloads EXCEPT ![d.fn] = New]
  BY DEF AddOverload
<1>2. DOMAIN New = DOMAIN overloads[d.fn] \cup {d.args}
  OBVIOUS
<1> HIDE DEF New
<1>3. DOMAIN overloads = Functions /\ overloads = [f \in Functions |-> overloads[f]]
  BY DEF TypeInv
<1> QED
  BY <1>1, <1>2, <1>3

\* The other threads' stacks stay as they are.
LEMMA Others ==
  ASSUME TypeInv, NEW t \in Threads, NEW new, Moves(t, new)
  PROVE  /\ stack' \in [Threads -> Seq(Frames)]
         /\ stack'[t] = new /\ \A u \in Threads \ {t} : stack'[u] = stack[u]
  BY DEF TypeInv, Moves

LEMMA StackStep ==
  ASSUME TypeInv, StackInv, NEW t \in Threads, NEW new, Moves(t, new)
  PROVE  StackInv'
<1>1. ASSUME NEW u \in Threads PROVE Chain(stack'[u])
  <2>1. CASE u = t
    BY <2>1, Others DEF Moves
  <2>2. CASE u # t
    BY <2>2, Others DEF StackInv, Chain
  <2> QED
    BY <2>1, <2>2
<1> QED
  BY <1>1 DEF StackInv, Chain, FrameInv, HasBody

LEMMA LockStep ==
  ASSUME TypeInv, LockInv, NEW t \in Threads, NEW new, Moves(t, new)
  PROVE  LockInv'
<1>1. /\ stack'[t] = new /\ \A u \in Threads \ {t} : stack'[u] = stack[u]
  BY Others
<1>2. /\ lock \in [owner : Threads \cup {NoThread}, depth : Nat]
      /\ lock.depth = 0 <=> lock.owner = NoThread
      /\ \A u \in Threads : Depth(stack[u]) = IF u = lock.owner THEN lock.depth ELSE 0
  BY DEF LockInv
<1>3. t # NoThread
  BY NoThreadAssumption
<1> SUFFICES /\ lock' \in [owner : Threads \cup {NoThread}, depth : Nat]
             /\ lock'.depth = 0 <=> lock'.owner = NoThread
             /\ \A u \in Threads :
                  Depth(stack'[u]) = IF u = lock'.owner THEN lock'.depth ELSE 0
  BY DEF LockInv, Depth, Held
<1> HIDE DEF Depth
<1>4. CASE lock' = lock /\ Depth(new) = Depth(stack[t])
  BY <1>1, <1>2, <1>4
<1>5. CASE /\ MayAcquire(t) /\ lock' = [owner |-> t, depth |-> lock.depth + 1]
           /\ Depth(new) = Depth(stack[t]) + 1
  <2>1. lock.owner \in {NoThread, t}
    BY <1>5 DEF MayAcquire
  <2>2. \A u \in Threads \ {t} : Depth(stack[u]) = 0
    BY <1>2, <2>1, NoThreadAssumption
  <2>3. Depth(stack[t]) = lock.depth /\ lock.depth \in Nat
    BY <1>2, <1>3, <2>1
  <2> QED
    BY <1>1, <1>3, <1>5, <2>2, <2>3
<1>6. CASE Release(t) /\ Depth(stack[t]) = Depth(new) + 1 /\ Depth(new) \in Nat
  <2>1. t = lock.owner /\ lock.depth = Depth(new) + 1
    BY <1>2, <1>6
  <2>2. \A u \in Threads \ {t} : Depth(stack[u]) = 0
    BY <1>2, <2>1
  <2>3. CASE lock.depth = 1
    <3>1. lock' = [owner |-> NoThread, depth |-> 0] /\ Depth(new) = 0
      BY <1>6, <2>1, <2>3 DEF Release
    <3> QED
      BY <1>1, <1>3, <2>2, <3>1
  <2>4. CASE lock.depth # 1
    <3>1. lock' = [lock EXCEPT !.depth = @ - 1]
      BY <1>6, <2>4 DEF Release
    <3>2. lock'.owner = t /\ lock'.depth = Depth(new) /\ lock'.depth # 0
      BY <1>2, <1>6, <2>1, <2>4, <3>1
    <3>3. lock' \in [owner : Threads \cup {NoThread}, depth : Nat]
      BY <1>2, <1>6, <2>1, <3>1, <3>2
    <3> QED
      BY <1>1, <1>3, <2>2, <3>2, <3>3
  <2> QED
    BY <2>3, <2>4
<1> QED
  BY <1>4, <1>5, <1>6 DEF Moves

\* A thread without compilations, and a thread with one.
LEMMA DepthFacts ==
  ASSUME NEW s \in Seq(Frames)
  PROVE  /\ Depth(s) \in Nat
         /\ \A n \in 1 .. Len(s) : Holds(s[n]) => Depth(s) # 0
<1>1. Len(s) \in Nat
  BY SeqFacts
<1>2. IsFiniteSet(1 .. Len(s))
  BY <1>1, FS_Interval
<1>3. IsFiniteSet(Held(s))
  <2>1. Held(s) \subseteq 1 .. Len(s)
    BY DEF Held
  <2> QED
    BY <1>2, <2>1, FS_Subset
<1>4. Depth(s) \in Nat /\ (Depth(s) = 0 <=> Held(s) = {})
  BY <1>3, FS_CardinalityType, FS_EmptySet DEF Depth
<1>5. ASSUME NEW n \in 1 .. Len(s), Holds(s[n]) PROVE Held(s) # {}
  BY <1>5 DEF Held
<1> QED
  BY <1>4, <1>5

\* Only the thread that has the lock compiles.
LEMMA Exclusive ==
  ASSUME TypeInv, LockInv, NEW t \in Threads, NEW n \in 1 .. Len(stack[t]),
         Compiling(stack[t][n])
  PROVE  /\ t = lock.owner
         /\ \A u \in Threads \ {t} : \A m \in 1 .. Len(stack[u]) : ~Compiling(stack[u][m])
<1>1. \A u \in Threads : stack[u] \in Seq(Frames)
  BY DEF TypeInv
<1>2. ASSUME NEW u \in Threads, NEW m \in 1 .. Len(stack[u]), Compiling(stack[u][m])
      PROVE  u = lock.owner
  <2>1. Holds(stack[u][m])
    BY <1>2 DEF Holds, Compiling
  <2>2. Depth(stack[u]) # 0
    BY <1>1, <2>1, DepthFacts
  <2> QED
    BY <2>2 DEF LockInv
<1> QED
  BY <1>2

LEMMA Settled ==
  ASSUME TypeInv, NewInv, NEW t \in Threads, stack[t] # <<>>, Settles(t), Fresh(Top(t)),
         Top(t).fn \in Functions
  PROVE  /\ \A f \in Functions \ {Top(t).fn} :
              DOMAIN overloads'[f] = DOMAIN overloads[f] /\ failed'[f] = failed[f]
         /\ \A f \in Functions : failed'[f] \cap DOMAIN overloads'[f] = {}
<1> DEFINE d == Top(t)
<1>1. failed \in [Functions -> SUBSET ArgLists]
  BY DEF TypeInv
<1>2. \A f \in Functions : failed[f] \cap DOMAIN overloads[f] = {}
  BY DEF NewInv
<1>3. d.args \notin DOMAIN overloads[d.fn] /\ d.args \notin failed[d.fn]
  BY DEF Fresh
<1>4. CASE overloads' = overloads /\ failed' = [failed EXCEPT ![d.fn] = @ \cup {d.args}]
  BY <1>1, <1>2, <1>3, <1>4
<1>5. CASE overloads' = overloads /\ failed' = failed
  BY <1>2, <1>5
<1>6. CASE AddOverload(d) /\ failed' = failed
  <2>1. \A f \in Functions :
          DOMAIN overloads'[f] = IF f = d.fn THEN DOMAIN overloads[f] \cup {d.args}
                                 ELSE DOMAIN overloads[f]
    BY <1>6, Added
  <2> HIDE DEF d
  <2>2. \A f \in Functions \ {d.fn} : DOMAIN overloads'[f] = DOMAIN overloads[f]
    BY <2>1
  <2>3. ASSUME NEW f \in Functions PROVE failed[f] \cap DOMAIN overloads'[f] = {}
    <3>1. CASE f = d.fn
      <4>1. DOMAIN overloads'[f] = DOMAIN overloads[f] \cup {d.args}
        BY <2>1, <3>1
      <4> QED
        BY <1>2, <1>3, <3>1, <4>1
    <3>2. CASE f # d.fn
      BY <1>2, <2>2, <3>2
    <3> QED
      BY <3>1, <3>2
  <2> QED
    BY <1>6, <2>2, <2>3 DEF d
<1> QED
  BY <1>4, <1>5, <1>6 DEF Settles

LEMMA NewStep ==
  ASSUME DispatcherInv, NEW t \in Threads, NEW new, StepMove(t, new)
  PROVE  NewInv'
<1> DEFINE s == stack[t]
<1>1. TypeInv /\ StackInv /\ LockInv /\ NewInv /\ Moves(t, new)
  BY DEF DispatcherInv, StepMove
<1>2. stack'[t] = new /\ \A u \in Threads \ {t} : stack'[u] = stack[u]
  BY <1>1, Others
<1>3. \A u \in Threads : stack[u] \in Seq(Frames)
  BY <1>1 DEF TypeInv
<1>4. \A u \in Threads : \A n \in 1 .. Len(stack[u]) :
        stack[u][n] \in Frames /\ (Compiling(stack[u][n]) => Fresh(stack[u][n]))
  <2>1. \A u \in Threads : \A n \in 1 .. Len(stack[u]) : stack[u][n] \in Frames
    BY <1>3, SeqFacts
  <2> QED
    BY <1>1, <2>1 DEF NewInv, Fresh
<1>5. CASE overloads' = overloads /\ failed' = failed /\ KeepsFresh(s, new)
  <2>1. ASSUME NEW u \in Threads, NEW n \in 1 .. Len(stack'[u]), Compiling(stack'[u][n])
        PROVE  Fresh(stack'[u][n])
    <3>1. CASE u = t
      <4>1. n \in 1 .. Len(new) /\ stack'[u][n] = new[n]
        BY <1>2, <3>1
      <4>2. Fresh(new[n]) \/ \E m \in 1 .. Len(s) : SameWork(new[n], s[m])
        BY <1>5, <2>1, <4>1 DEF KeepsFresh
      <4>3. ASSUME NEW m \in 1 .. Len(s), SameWork(new[n], s[m]) PROVE Fresh(new[n])
        BY <1>4, <4>3 DEF SameWork, Fresh
      <4> QED
        BY <4>1, <4>2, <4>3
    <3>2. CASE u # t
      BY <1>2, <1>4, <2>1, <3>2
    <3> QED
      BY <3>1, <3>2
  <2>2. \A f \in Functions : failed[f] \cap DOMAIN overloads[f] = {}
    BY <1>1 DEF NewInv
  <2> QED
    BY <1>5, <2>1, <2>2 DEF NewInv, Fresh
<1>6. CASE s # <<>> /\ Compiling(s[1]) /\ new = Tail(s) /\ Settles(t)
  <2>1. /\ Len(s) \in Nat /\ 1 \in 1 .. Len(s) /\ Len(new) = Len(s) - 1
        /\ \A n \in 1 .. Len(s) - 1 : new[n] = s[n + 1]
    BY <1>3, <1>6, SeqFacts
  <2>2. Top(t) = s[1] /\ s[1] \in Frames /\ Fresh(s[1]) /\ Top(t).fn \in Functions
    <3>1. s[1] \in Frames /\ Fresh(s[1])
      BY <1>4, <1>6, <2>1
    <3> QED
      BY <3>1 DEF Top, Frames
  <2>3. /\ \A f \in Functions \ {s[1].fn} :
             DOMAIN overloads'[f] = DOMAIN overloads[f] /\ failed'[f] = failed[f]
        /\ \A f \in Functions : failed'[f] \cap DOMAIN overloads'[f] = {}
    BY <1>1, <1>6, <2>2, Settled
  <2>4. ASSUME NEW u \in Threads, NEW n \in 1 .. Len(stack'[u]), Compiling(stack'[u][n])
        PROVE  stack'[u][n].args \notin
                 DOMAIN overloads'[stack'[u][n].fn] \cup failed'[stack'[u][n].fn]
    <3>1. CASE u # t
      <4>1. ~Compiling(stack[u][n])
        BY <1>1, <1>2, <1>6, <2>1, <3>1, Exclusive
      <4> QED
        BY <1>2, <2>4, <3>1, <4>1
    <3>2. CASE u = t
      <4>1. n \in 1 .. Len(s) - 1 /\ n + 1 \in 2 .. Len(s) /\ n + 1 \in 1 .. Len(s)
            /\ stack'[u][n] = s[n + 1]
        BY <1>2, <2>1, <3>2
      <4>2. PICK k \in 2 .. Len(s) : k = n + 1
        BY <4>1
      <4>3. s[k] \in Frames /\ Fresh(s[k]) /\ FrameInv(s, k) /\ Chain(s) /\ k > 1
        BY <1>1, <1>4, <2>4, <4>1, <4>2 DEF StackInv, Chain
      <4>4. s[k].step = "resolve"
        BY <2>4, <4>1, <4>2, <4>3 DEF FrameInv, Compiling
      <4>5. s[k].fn # s[1].fn
        BY <1>3, <4>3, <4>4, Distinct DEF Chain
      <4>6. s[k].fn \in Functions
        BY <4>3 DEF Frames
      <4> QED
        BY <2>3, <4>1, <4>2, <4>3, <4>5, <4>6 DEF Fresh
    <3> QED
      BY <3>1, <3>2
  <2> QED
    BY <2>3, <2>4 DEF NewInv
<1> QED
  BY <1>5, <1>6 DEF StepMove

----------------------------------------------------------------------------
(* The invariant holds *)

Answered == ret' \in [Threads -> Errors \cup {"ok"}]

LEMMA Returns1 ==
  ASSUME TypeInv, NEW t \in Threads, NEW how \in Errors \cup {"ok"}, Return(t, how)
  PROVE  Answered
  BY DEF TypeInv, Return, Answered

LEMMA RetStep ==
  ASSUME TypeInv, NEW t \in Threads, Step(t)
  PROVE  Answered
<1>1. ret \in [Threads -> Errors \cup {"ok"}]
  BY DEF TypeInv
<1>2. \A how : Return(t, how) /\ how \in Errors \cup {"ok"} => Answered
  BY Returns1
<1>3. CASE Start(t) \/ TypeCall(t)
  BY <1>1, <1>3 DEF Start, TypeCall, Answered
<1>4. CASE DecorateSig(t) \/ Acquire(t)
  BY <1>1, <1>4 DEF DecorateSig, Acquire, Answered
<1>5. CASE Decorated(t)
  BY <1>2, <1>5 DEF Decorated
<1>6. CASE DecorateFails(t)
  BY <1>1, <1>2, <1>6 DEF DecorateFails
<1>7. "TypingError" \in Errors /\ "KernelHasReturnValueError" \in Errors
  BY DEF Errors
<1>8. CASE Result(t) \/ Template(t)
  BY <1>1, <1>2, <1>7, <1>8 DEF Result, Template, Answered
<1>9. CASE Check(t)
  <2> DEFINE d == Top(t)
  <2>1. Refusal(d.fn, d.args) # "none" => Refusal(d.fn, d.args) \in Errors
    BY DEF Refusal, ArgumentError, Errors
  <2> HIDE DEF d
  <2>2. \/ UNCHANGED ret
        \/ Return(t, Refusal(d.fn, d.args)) /\ Refusal(d.fn, d.args) # "none"
        \/ Return(t, "ok")
        \/ Return(t, "TypingError")
    BY <1>9 DEF Check, d
  <2> QED
    BY <1>1, <1>2, <1>7, <2>1, <2>2 DEF Answered
<1>10. CASE BodyFails(t)
  BY <1>2, <1>7, <1>10 DEF BodyFails, Fail
<1>11. CASE Resolve(t)
  <2>1. UNCHANGED ret \/ Return(t, "TypingError")
    BY <1>11, Zenon DEF Resolve, Fail
  <2> QED
    BY <1>1, <1>2, <1>7, <2>1 DEF Answered
<1>12. CASE Finish(t)
  <2>1. Return(t, "KernelHasReturnValueError") \/ Return(t, "ok")
    BY <1>12 DEF Finish
  <2> QED
    BY <1>2, <1>7, <2>1
<1> QED
  BY <1>3, <1>4, <1>5, <1>6, <1>8, <1>9, <1>10, <1>11, <1>12 DEF Step

LEMMA CountersStep ==
  ASSUME TypeInv, NEW t \in Threads, Step(t)
  PROVE  /\ ids' \in Nat
         /\ can_compile' \in [Functions -> BOOLEAN]
         /\ \A u \in Threads : pc'[u] \in 1 .. Len(Program[u]) + 1
         /\ pc' \in [Threads -> Nat]
<1>1. /\ ids \in Nat /\ can_compile \in [Functions -> BOOLEAN]
      /\ \A u \in Threads : pc[u] \in 1 .. Len(Program[u]) + 1
      /\ pc \in [Threads -> Nat]
  BY DEF TypeInv
<1>2. ids' = ids \/ ids' = ids + 1
  BY Zenon DEF Step, Start, DecorateSig, Decorated, DecorateFails, Result, Template, Acquire,
         Check, BodyFails, TypeCall, Resolve, Finish
<1>3. \/ can_compile' = can_compile
      \/ \E f \in Functions : DisableCompile(f)
      \/ can_compile' = [can_compile EXCEPT ![Top(t).fn] = @ /\ Sigs[Top(t).fn] = <<>>]
  BY Zenon DEF Step, Start, DecorateSig, Decorated, DecorateFails, Result, Template, Acquire,
         Check, BodyFails, TypeCall, Resolve, Finish, DisableCompile
<1>4. \/ pc' = pc
      \/ pc' = [pc EXCEPT ![t] = @ + 1] /\ pc[t] <= Len(Program[t])
  BY Zenon DEF Step, Start, DecorateSig, Decorated, DecorateFails, Result, Template, Acquire,
         Check, BodyFails, TypeCall, Resolve, Finish
<1>5. can_compile' \in [Functions -> BOOLEAN]
  <2>1. ASSUME NEW f, can_compile' = [can_compile EXCEPT ![f] = @ /\ Sigs[f] = <<>>]
        PROVE  can_compile' \in [Functions -> BOOLEAN]
    BY <1>1, <2>1
  <2> QED
    BY <1>1, <1>3, <2>1 DEF DisableCompile
<1>6. /\ \A u \in Threads : pc'[u] \in 1 .. Len(Program[u]) + 1
      /\ pc' \in [Threads -> Nat]
  <2>1. \A u \in Threads : Len(Program[u]) \in Nat
    BY ProgramAssumption
  <2>2. CASE pc' = pc
    BY <1>1, <2>2
  <2>3. CASE pc' = [pc EXCEPT ![t] = pc[t] + 1] /\ pc[t] <= Len(Program[t])
    <3>1. pc[t] + 1 \in 1 .. Len(Program[t]) + 1 /\ pc[t] + 1 \in Nat
      BY <1>1, <2>1, <2>3
    <3> QED
      BY <1>1, <2>3, <3>1
  <2> QED
    BY <1>4, <2>2, <2>3
<1> QED
  BY <1>1, <1>2, <1>5, <1>6

LEMMA MemoryStep ==
  ASSUME TypeInv, StackInv, NEW t \in Threads, NEW new, StepMove(t, new)
  PROVE  /\ DOMAIN overloads' = Functions
         /\ overloads' = [f \in Functions |-> overloads'[f]]
         /\ \A f \in Functions : DOMAIN overloads'[f] \subseteq ArgLists
         /\ failed' \in [Functions -> SUBSET ArgLists]
<1>1. /\ DOMAIN overloads = Functions /\ overloads = [f \in Functions |-> overloads[f]]
      /\ \A f \in Functions : DOMAIN overloads[f] \subseteq ArgLists
      /\ failed \in [Functions -> SUBSET ArgLists]
  BY DEF TypeInv
<1>2. CASE overloads' = overloads /\ failed' = failed
  BY <1>1, <1>2
<1>3. CASE stack[t] # <<>> /\ Settles(t)
  <2> DEFINE d == Top(t)
  <2>1. d.fn \in Functions /\ d.args \in ArgLists
    <3>1. At(t, Top(t).step)
      BY <1>3 DEF At
    <3> QED
      BY <3>1, Innermost
  <2>2. CASE overloads' = overloads /\ failed' = [failed EXCEPT ![d.fn] = @ \cup {d.args}]
    BY <1>1, <2>1, <2>2
  <2>3. CASE AddOverload(d) /\ failed' = failed
    <3>1. /\ DOMAIN overloads' = Functions
          /\ overloads' = [f \in Functions |-> overloads'[f]]
          /\ \A f \in Functions :
               DOMAIN overloads'[f] = IF f = d.fn THEN DOMAIN overloads[f] \cup {d.args}
                                      ELSE DOMAIN overloads[f]
      BY <2>1, <2>3, Added
    <3> HIDE DEF d
    <3>2. ASSUME NEW f \in Functions PROVE DOMAIN overloads'[f] \subseteq ArgLists
      BY <1>1, <2>1, <3>1
    <3> QED
      BY <1>1, <2>3, <3>1, <3>2
  <2> QED
    BY <1>2, <1>3, <2>2, <2>3 DEF Settles
<1> QED
  BY <1>2, <1>3 DEF StepMove

LEMMA Initially ==
  ASSUME Init
  PROVE  DispatcherInv
<1> USE DEF Init
<1>1. TypeInv
  <2>1. \A t \in Threads : 1 \in 1 .. Len(Program[t]) + 1
    BY ProgramAssumption
  <2>2. /\ failed \in [Functions -> SUBSET ArgLists]
        /\ can_compile \in [Functions -> BOOLEAN]
        /\ ids \in Nat /\ stack \in [Threads -> Seq(Frames)]
        /\ ret \in [Threads -> Errors \cup {"ok"}] /\ pc \in [Threads -> Nat]
    OBVIOUS
  <2>3. DOMAIN overloads = Functions /\ overloads = [f \in Functions |-> overloads[f]]
    OBVIOUS
  <2>4. \A f \in Functions : DOMAIN overloads[f] \subseteq ArgLists
    BY DEF Nothing
  <2>5. \A t \in Threads : pc[t] \in 1 .. Len(Program[t]) + 1
    BY <2>1
  <2> QED
    BY <2>2, <2>3, <2>4, <2>5 DEF TypeInv
<1>2. \A t \in Threads : stack[t] = <<>> /\ Len(stack[t]) = 0
  OBVIOUS
<1>3. StackInv
  BY <1>2 DEF StackInv
<1>4. LockInv
  <2>1. ASSUME NEW t \in Threads PROVE Depth(stack[t]) = 0
    <3>1. Held(stack[t]) = {}
      BY <1>2 DEF Held
    <3> QED
      BY <3>1, FS_EmptySet DEF Depth
  <2> QED
    BY <2>1, NoThreadAssumption DEF LockInv
<1>5. NewInv
  BY <1>2 DEF NewInv, Nothing
<1> QED
  BY <1>1, <1>3, <1>4, <1>5 DEF DispatcherInv

LEMMA Preserved ==
  ASSUME DispatcherInv, [Next]_vars
  PROVE  DispatcherInv'
<1>1. TypeInv /\ StackInv /\ LockInv /\ NewInv
  BY DEF DispatcherInv
<1>2. ASSUME NEW t \in Threads, Step(t) PROVE DispatcherInv'
  <2>1. PICK new : StepMove(t, new)
    BY <1>1, <1>2, StepMoves
  <2>2. Moves(t, new)
    BY <2>1 DEF StepMove
  <2>3. stack' \in [Threads -> Seq(Frames)]
    BY <1>1, <2>2, Others
  <2>4. ret' \in [Threads -> Errors \cup {"ok"}]
    BY <1>1, <1>2, RetStep DEF Answered
  <2>5. TypeInv'
    BY <1>1, <1>2, <2>1, <2>3, <2>4, CountersStep, MemoryStep DEF TypeInv
  <2>6. StackInv' /\ LockInv' /\ NewInv'
    BY <1>1, <2>1, <2>2, StackStep, LockStep, NewStep
  <2> QED
    BY <2>5, <2>6 DEF DispatcherInv
<1>3. CASE UNCHANGED vars
  <2>1. TypeInv'
    BY <1>1, <1>3 DEF vars, TypeInv
  <2>2. StackInv'
    BY <1>1, <1>3 DEF vars, StackInv, FrameInv, HasBody
  <2>3. LockInv'
    BY <1>1, <1>3 DEF vars, LockInv, Depth, Held
  <2>4. NewInv'
    BY <1>1, <1>3 DEF vars, NewInv
  <2> QED
    BY <2>1, <2>2, <2>3, <2>4 DEF DispatcherInv
<1> QED
  BY <1>2, <1>3 DEF Next

\* Stacks are chains of calls, the lock is held as often as there are
\* compilations on its owner's stack, and what is compiled was neither compiled
\* nor refused before, in every state of the program.
THEOREM Invariance == Spec => []DispatcherInv
<1>1. Init => DispatcherInv
  BY Initially
<1>2. DispatcherInv /\ [Next]_vars => DispatcherInv'
  BY Preserved
<1> QED
  BY <1>1, <1>2, PTL DEF Spec

\* No version of a function is in its overloads and in its failed cache, and
\* global_compiler_lock is held by one thread, once for each compilation that
\* the dispatchers' compile of that thread has under way.
THEOREM TypeCorrect == Spec => []TypeOK
<1>1. ASSUME DispatcherInv PROVE TypeOK
  <2>1. TypeInv /\ LockInv /\ NewInv
    BY <1>1 DEF DispatcherInv
  <2>2. ASSUME NEW t \in Threads
        PROVE  Cardinality({n \in DOMAIN stack[t] : Holds(stack[t][n])}) =
                 IF t = lock.owner THEN lock.depth ELSE 0
    <3>1. stack[t] \in Seq(Frames)
      BY <2>1 DEF TypeInv
    <3>2. DOMAIN stack[t] = 1 .. Len(stack[t])
      BY <3>1, SeqFacts
    <3> QED
      BY <2>1, <3>2 DEF LockInv, Depth, Held
  <2>3. /\ ids \in Nat
        /\ \A f \in Functions : can_compile[f] \in BOOLEAN
        /\ \A t \in Threads : ret[t] \in Errors \cup {"ok"}
        /\ \A t \in Threads : pc[t] \in 1 .. Len(Program[t]) + 1
    BY <2>1 DEF TypeInv
  <2>4. \A f \in Functions : failed[f] \cap DOMAIN overloads[f] = {}
    BY <2>1 DEF NewInv
  <2> QED
    BY <2>2, <2>3, <2>4 DEF TypeOK
<1> QED
  BY <1>1, Invariance, PTL

----------------------------------------------------------------------------
(* Compiled code *)

\* The calls a compilation has resolved, each to an overload there is.
Ready(d) ==
  /\ Len(d.sigs) = d.n - 1
  /\ \A k \in 1 .. Len(d.sigs) :
       /\ HasBody(d.fn, d.args) /\ k <= Len(Body[d.fn][d.args])
       /\ d.sigs[k] \in DOMAIN overloads[Body[d.fn][d.args][k].fn]

\* F tells whom an identity was handed out to: a compilation under way or an
\* overload.
Owners == [Nat -> (Functions \X ArgLists) \cup {<<>>}]
GoodFrames(F, i) ==
  {d \in Frames : /\ d.step # "decorate" => Ready(d)
                  /\ Compiling(d) => d.id < i /\ F[d.id] = <<d.fn, d.args>>}

IsLinked(f, a, code) ==
  /\ a \in DOMAIN Body[f]
  /\ DOMAIN code = DOMAIN Body[f][a]
  /\ \A n \in DOMAIN Body[f][a] :
       /\ code[n].fn = Body[f][a][n].fn
       /\ code[n].args \in DOMAIN overloads[Body[f][a][n].fn]

Known(F, f, a, o) ==
  /\ o.id \in Nat /\ o.id < ids /\ F[o.id] = <<f, a>>
  /\ o.entry_point = EntryPoint(f, o.id)
  /\ <<o.entry_point, a>> \in DOMAIN defns /\ defns[<<o.entry_point, a>>] = f
  /\ IsLinked(f, a, o.code)

OwnersInv(F) ==
  /\ \A t \in Threads : stack[t] \in Seq(GoodFrames(F, ids))
  /\ \A f \in Functions : \A a \in DOMAIN overloads[f] : Known(F, f, a, overloads[f][a])
LinkInv == \E F \in Owners : OwnersInv(F)

LEMMA GoodSeq ==
  ASSUME NEW G, NEW s \in Seq(G), s # <<>>
  PROVE  /\ s[1] \in G /\ Tail(s) \in Seq(G)
         /\ \A x \in G : <<x>> \o Tail(s) \in Seq(G)
         /\ \A x, y \in G : <<x, y>> \o Tail(s) \in Seq(G)
  OBVIOUS

LEMMA SeqOfMore ==
  ASSUME NEW G, NEW H, G \subseteq H, NEW s \in Seq(G)
  PROVE  s \in Seq(H)
  OBVIOUS

LEMMA GoodNew ==
  ASSUME NEW F, NEW i, NEW p \in Steps, p \notin {"body", "resolve"},
         NEW f \in Functions, NEW a \in ArgLists
  PROVE  Frame(p, f, a) \in GoodFrames(F, i)
<1> DEFINE x == Frame(p, f, a)
<1>1. x \in Frames /\ x.step = p /\ x.n = 1 /\ x.sigs = <<>>
  BY NewFrame
<1> HIDE DEF x
<1>2. Len(x.sigs) = 0 /\ x.n - 1 = 0
  BY <1>1
<1>3. Ready(x)
  BY <1>2 DEF Ready
<1>4. ~Compiling(x)
  BY <1>1 DEF Compiling
<1> QED
  BY <1>1, <1>3, <1>4 DEF GoodFrames, x

LEMMA GoodStepped ==
  ASSUME NEW F, NEW i, NEW d \in GoodFrames(F, i), d.step # "decorate", NEW p \in Steps,
         p \in {"body", "resolve"} => Compiling(d)
  PROVE  [d EXCEPT !.step = p] \in GoodFrames(F, i)
<1>1. d \in Frames /\ Ready(d)
  BY DEF GoodFrames
<1>2. PICK x : x = [d EXCEPT !.step = p]
  OBVIOUS
<1>3. /\ x \in Frames /\ x.step = p /\ x.fn = d.fn /\ x.args = d.args /\ x.n = d.n
      /\ x.id = d.id /\ x.sigs = d.sigs
  BY <1>1, <1>2, Stepped, Zenon
<1>4. Ready(x)
  BY <1>1, <1>3 DEF Ready
<1>5. Compiling(x) => x.id < i /\ F[x.id] = <<x.fn, x.args>>
  BY <1>3 DEF Compiling, GoodFrames
<1> QED
  BY <1>2, <1>3, <1>4, <1>5 DEF GoodFrames

LEMMA GoodDecorate ==
  ASSUME NEW F, NEW i, NEW d \in GoodFrames(F, i), d.step = "decorate"
  PROVE  [d EXCEPT !.n = @ + 1] \in GoodFrames(F, i)
<1>1. d \in Frames
  BY DEF GoodFrames
<1>2. PICK x : x = [d EXCEPT !.n = @ + 1]
  OBVIOUS
<1>3. x \in Frames /\ x.step = "decorate"
  BY <1>1, <1>2, FrameUpdates, ZenonT(60)
<1>4. ~Compiling(x)
  BY <1>3 DEF Compiling
<1> QED
  BY <1>2, <1>3, <1>4 DEF GoodFrames

\* One call more is resolved.
LEMMA GoodResolved ==
  ASSUME NEW F, NEW i, NEW d \in GoodFrames(F, i), d.step = "resolve",
         HasBody(d.fn, d.args), d.n <= Len(Body[d.fn][d.args]),
         NEW a \in ArgLists, a \in DOMAIN overloads[Body[d.fn][d.args][d.n].fn]
  PROVE  [d EXCEPT !.step = "body", !.n = @ + 1, !.sigs = Append(@, a)] \in GoodFrames(F, i)
<1>1. d \in Frames /\ Ready(d)
  BY DEF GoodFrames
<1>2. PICK x : x = [d EXCEPT !.step = "body", !.n = @ + 1, !.sigs = Append(@, a)]
  OBVIOUS
<1>3. /\ x \in Frames /\ x.step = "body" /\ x.fn = d.fn /\ x.args = d.args
      /\ x.id = d.id /\ x.n = d.n + 1 /\ x.sigs = Append(d.sigs, a)
  BY <1>1, <1>2, FrameUpdates, ZenonT(60)
<1>4. d.sigs \in Seq(ArgLists) /\ d.n \in Nat \ {0} /\ Len(d.sigs) \in Nat
  <2>1. d.sigs \in Seq(ArgLists) /\ d.n \in Nat \ {0}
    BY <1>1 DEF Frames
  <2> QED
    BY <2>1
<1>5. /\ Len(x.sigs) = Len(d.sigs) + 1 /\ x.sigs[Len(d.sigs) + 1] = a
      /\ \A k \in 1 .. Len(d.sigs) : x.sigs[k] = d.sigs[k]
  BY <1>3, <1>4
<1>6. Len(d.sigs) + 1 = d.n
  BY <1>1, <1>4 DEF Ready
<1>7. Len(x.sigs) = x.n - 1
  BY <1>3, <1>4, <1>5, <1>6
<1>8. ASSUME NEW k \in 1 .. Len(x.sigs)
      PROVE  /\ HasBody(x.fn, x.args) /\ k <= Len(Body[x.fn][x.args])
             /\ x.sigs[k] \in DOMAIN overloads[Body[x.fn][x.args][k].fn]
  <2>1. CASE k \in 1 .. Len(d.sigs)
    BY <1>1, <1>3, <1>5, <2>1 DEF Ready
  <2>2. CASE k \notin 1 .. Len(d.sigs)
    <3>1. k = d.n /\ k = Len(d.sigs) + 1
      BY <1>4, <1>5, <1>6, <2>2
    <3> QED
      BY <1>3, <1>5, <3>1
  <2> QED
    BY <2>1, <2>2
<1>9. Ready(x)
  BY <1>7, <1>8 DEF Ready
<1>10. x.id < i /\ F[x.id] = <<x.fn, x.args>>
  BY <1>3 DEF GoodFrames, Compiling
<1> QED
  BY <1>2, <1>3, <1>9, <1>10 DEF GoodFrames

\* The innermost frame of a thread is a good one, and so are those below it.
LEMMA GoodTop ==
  ASSUME NEW F, OwnersInv(F), NEW t \in Threads, stack[t] # <<>>
  PROVE  /\ Top(t) \in GoodFrames(F, ids) /\ Tail(stack[t]) \in Seq(GoodFrames(F, ids))
         /\ \A x \in GoodFrames(F, ids) : <<x>> \o Tail(stack[t]) \in Seq(GoodFrames(F, ids))
         /\ \A x, y \in GoodFrames(F, ids) :
              <<x, y>> \o Tail(stack[t]) \in Seq(GoodFrames(F, ids))
<1>1. stack[t] \in Seq(GoodFrames(F, ids))
  BY DEF OwnersInv
<1> QED
  BY <1>1, GoodSeq DEF Top

GoodStack(F, i, t) == stack'[t] \in Seq(GoodFrames(F, i))

LEMMA GoodReturn ==
  ASSUME TypeInv, NEW F, OwnersInv(F), NEW t \in Threads, stack[t] # <<>>,
         stack' = [stack EXCEPT ![t] = Tail(@)]
  PROVE  GoodStack(F, ids, t)
<1>1. stack'[t] = Tail(stack[t])
  BY DEF TypeInv
<1> QED
  BY <1>1, GoodTop DEF GoodStack

LEMMA GoodBecome ==
  ASSUME TypeInv, NEW F, OwnersInv(F), NEW t \in Threads, stack[t] # <<>>,
         NEW x \in GoodFrames(F, ids), Become(t, x)
  PROVE  GoodStack(F, ids, t)
<1>1. stack'[t] = <<x>> \o Tail(stack[t])
  BY DEF TypeInv, Become
<1> QED
  BY <1>1, GoodTop DEF GoodStack

LEMMA GoodPush ==
  ASSUME TypeInv, NEW F, OwnersInv(F), NEW t \in Threads, stack[t] # <<>>,
         NEW x \in GoodFrames(F, ids), NEW y \in GoodFrames(F, ids), Push(t, x, y)
  PROVE  GoodStack(F, ids, t)
<1>1. stack'[t] = <<x, y>> \o Tail(stack[t])
  BY DEF TypeInv, Push
<1> QED
  BY <1>1, GoodTop DEF GoodStack

LEMMA GoodStart ==
  ASSUME TypeInv, NEW F, NEW t \in Threads, Start(t)
  PROVE  GoodStack(F, ids, t)
<1> DEFINE s == Program[t][pc[t]]
           p == IF s.op = "decorate" THEN "decorate" ELSE "result"
           x == Frame(p, s.fn, s.args)
<1>1. stack' = [stack EXCEPT ![t] = <<x>>] /\ pc[t] <= Len(Program[t])
  BY DEF Start
<1>2. pc[t] \in 1 .. Len(Program[t])
  BY <1>1, ProgramAssumption DEF TypeInv
<1>3. s.fn \in Functions /\ s.args \in ArgLists
  BY <1>2, Arguments
<1>4. p \in Steps /\ p \notin {"body", "resolve"}
  BY DEF Steps
<1> HIDE DEF s, p
<1>5. x \in GoodFrames(F, ids)
  BY <1>3, <1>4, GoodNew
<1> HIDE DEF x
<1>6. stack'[t] = <<x>>
  BY <1>1 DEF TypeInv
<1> QED
  BY <1>5, <1>6 DEF GoodStack

LEMMA GoodDecorateSig ==
  ASSUME TypeInv, StackInv, NEW F, OwnersInv(F), NEW t \in Threads, DecorateSig(t)
  PROVE  GoodStack(F, ids, t)
<1> DEFINE d == Top(t)
           x == Frame("acquire", d.fn, Sigs[d.fn][d.n])
           y == [d EXCEPT !.n = @ + 1]
<1>1. At(t, "decorate") /\ d.n <= Len(Sigs[d.fn]) /\ Push(t, x, y)
  BY DEF DecorateSig
<1>2. /\ stack[t] # <<>> /\ d.step = "decorate" /\ d.fn \in Functions /\ d.n \in Nat \ {0}
  BY <1>1, Innermost
<1>3. d.n \in 1 .. Len(Sigs[d.fn])
  BY <1>1, <1>2, ProgramAssumption
<1>4. "acquire" \in Steps
  BY DEF Steps
<1>5. Sigs[d.fn][d.n] \in ArgLists
  BY <1>2, <1>3, Arguments
<1>6. d \in GoodFrames(F, ids)
  BY <1>2, GoodTop
<1> HIDE DEF d
<1>7. x \in GoodFrames(F, ids)
  BY <1>2, <1>4, <1>5, GoodNew
<1>8. y \in GoodFrames(F, ids)
  BY <1>2, <1>6, GoodDecorate
<1> QED
  BY <1>1, <1>2, <1>7, <1>8, GoodPush

LEMMA GoodTypeCall ==
  ASSUME TypeInv, StackInv, NEW F, OwnersInv(F), NEW t \in Threads, TypeCall(t)
  PROVE  GoodStack(F, ids, t)
<1> DEFINE d == Top(t)
           call == Body[d.fn][d.args][d.n]
           p == IF Kind[d.fn] = "HOST" /\ Kind[call.fn] = "KERNEL" THEN "result" ELSE "template"
           x == Frame(p, call.fn, call.args)
           y == [d EXCEPT !.step = "resolve"]
<1>1. /\ At(t, "body") /\ HasBody(d.fn, d.args) /\ d.n <= Len(Body[d.fn][d.args])
      /\ Push(t, x, y)
  BY Zenon DEF TypeCall
<1>2. /\ stack[t] # <<>> /\ d.step = "body" /\ d.fn \in Functions /\ d.n \in Nat \ {0}
  BY <1>1, Innermost
<1>3. d.args \in DOMAIN Body[d.fn]
  BY <1>1 DEF HasBody
<1>4. Len(Body[d.fn][d.args]) \in Nat /\ d.n <= Len(Body[d.fn][d.args])
  BY <1>1, <1>2, <1>3, ProgramAssumption, Zenon
<1>5. d.n \in 1 .. Len(Body[d.fn][d.args])
  BY <1>2, <1>4, InRange, Zenon
<1>6. call.fn \in Functions /\ call.args \in ArgLists
  BY <1>2, <1>3, <1>5, Arguments
<1>7. p \in Steps /\ p \notin {"body", "resolve"} /\ "resolve" \in Steps
  BY DEF Steps
<1>8. d \in GoodFrames(F, ids) /\ Compiling(d) /\ d.step # "decorate"
  BY <1>2, GoodTop DEF Compiling
<1> HIDE DEF d, call, p
<1>9. x \in GoodFrames(F, ids)
  BY <1>6, <1>7, GoodNew
<1>10. y \in GoodFrames(F, ids)
  BY <1>7, <1>8, GoodStepped
<1> QED
  BY <1>1, <1>2, <1>9, <1>10, GoodPush

LEMMA GoodResolve ==
  ASSUME TypeInv, StackInv, NEW F, OwnersInv(F), NEW t \in Threads, Resolve(t)
  PROVE  GoodStack(F, ids, t)
<1> DEFINE d == Top(t)
           call == Body[d.fn][d.args][d.n]
           X(a) == [d EXCEPT !.step = "body", !.n = @ + 1, !.sigs = Append(@, a)]
<1>1. At(t, "resolve")
  BY Zenon DEF Resolve
<1>2. \/ stack' = [stack EXCEPT ![t] = Tail(@)]
      \/ \E a \in DOMAIN overloads[call.fn] : Become(t, X(a))
  BY Zenon DEF Resolve, Fail, Return
<1>3. /\ stack[t] # <<>> /\ d = stack[t][1] /\ d \in Frames /\ d.step = "resolve"
      /\ d.fn \in Functions /\ d.args \in ArgLists /\ d.n \in Nat \ {0}
      /\ FrameInv(stack[t], 1)
  BY <1>1, Innermost
<1>4. HasBody(d.fn, d.args) /\ d.n <= Len(Body[d.fn][d.args])
  BY <1>3 DEF FrameInv
<1>5. d.args \in DOMAIN Body[d.fn]
  BY <1>4 DEF HasBody
<1>6. Len(Body[d.fn][d.args]) \in Nat
  BY <1>3, <1>5, ProgramAssumption
<1>7. d.n \in 1 .. Len(Body[d.fn][d.args])
  BY <1>3, <1>4, <1>6, InRange, Zenon
<1>8. call.fn \in Functions
  BY <1>3, <1>5, <1>7, Arguments
<1>9. DOMAIN overloads[call.fn] \subseteq ArgLists
  BY <1>8 DEF TypeInv
<1>10. d \in GoodFrames(F, ids)
  BY <1>3, GoodTop
<1>11. ASSUME NEW a \in DOMAIN overloads[call.fn] PROVE X(a) \in GoodFrames(F, ids)
  <2>1. a \in ArgLists
    BY <1>9
  <2> HIDE DEF d
  <2> QED
    BY <1>3, <1>4, <1>10, <2>1, GoodResolved, Zenon
<1> HIDE DEF d, X
<1>12. CASE stack' = [stack EXCEPT ![t] = Tail(@)]
  BY <1>3, <1>12, GoodReturn, Zenon
<1>13. CASE \E a \in DOMAIN overloads[call.fn] : Become(t, X(a))
  BY <1>3, <1>11, <1>13, GoodBecome, Zenon
<1> QED
  BY <1>2, <1>12, <1>13, Zenon

LEMMA GoodCheck ==
  ASSUME TypeInv, StackInv, NEW F \in Owners, OwnersInv(F), NEW t \in Threads, Check(t)
  PROVE  \E H \in Owners : /\ \A i \in Nat : i < ids => H[i] = F[i]
                           /\ GoodStack(H, ids', t)
<1> DEFINE d == Top(t)
           x == [d EXCEPT !.step = "body", !.id = ids]
           H == [F EXCEPT ![ids] = <<d.fn, d.args>>]
<1>1. /\ At(t, "check")
      /\ \/ Become(t, x) /\ ids' = ids + 1
         \/ stack' = [stack EXCEPT ![t] = Tail(@)] /\ ids' = ids
  BY DEF Check, Return
<1>2. /\ stack[t] # <<>> /\ d \in Frames /\ d.step = "check"
      /\ d.fn \in Functions /\ d.args \in ArgLists
  BY <1>1, Innermost
<1>3. ids \in Nat
  BY DEF TypeInv
<1>4. d \in GoodFrames(F, ids) /\ Tail(stack[t]) \in Seq(GoodFrames(F, ids))
  BY <1>2, GoodTop
<1>5. CASE stack' = [stack EXCEPT ![t] = Tail(@)] /\ ids' = ids
  BY <1>2, <1>5, GoodReturn
<1>6. CASE Become(t, x) /\ ids' = ids + 1
  <2>1. H \in Owners /\ H[ids] = <<d.fn, d.args>> /\ \A i \in Nat : i < ids => H[i] = F[i]
    BY <1>2, <1>3 DEF Owners
  <2>2. /\ x \in Frames /\ x.step = "body" /\ x.fn = d.fn /\ x.args = d.args
        /\ x.id = ids /\ x.n = d.n /\ x.sigs = d.sigs
    BY <1>2, <1>3, FrameUpdates, ZenonT(60)
  <2>3. Ready(d)
    BY <1>2, <1>4 DEF GoodFrames
  <2> HIDE DEF H, x, d
  <2>4. Ready(x)
    BY <2>2, <2>3 DEF Ready
  <2>5. x \in GoodFrames(H, ids + 1)
    BY <1>3, <2>1, <2>2, <2>4 DEF GoodFrames
  <2>6. GoodFrames(F, ids) \subseteq GoodFrames(H, ids + 1)
    <3> SUFFICES ASSUME NEW e \in GoodFrames(F, ids) PROVE e \in GoodFrames(H, ids + 1)
      OBVIOUS
    <3>1. e \in Frames /\ e.id \in Nat
      BY DEF GoodFrames, Frames
    <3>2. Compiling(e) => e.id < ids /\ F[e.id] = <<e.fn, e.args>>
      BY DEF GoodFrames
    <3>3. Compiling(e) => e.id < ids + 1 /\ H[e.id] = <<e.fn, e.args>>
      BY <1>3, <2>1, <3>1, <3>2
    <3> QED
      BY <3>1, <3>3 DEF GoodFrames
  <2>7. stack'[t] = <<x>> \o Tail(stack[t])
    BY <1>6 DEF TypeInv, Become
  <2>8. PICK r \in Seq(GoodFrames(H, ids + 1)) : r = Tail(stack[t])
    BY <1>4, <2>6, SeqOfMore
  <2>9. <<x>> \o r \in Seq(GoodFrames(H, ids + 1))
    BY <2>5, <2>8, Cons
  <2>10. GoodStack(H, ids', t)
    BY <1>6, <2>7, <2>8, <2>9 DEF GoodStack
  <2> QED
    BY <2>1, <2>10
<1> QED
  BY <1>1, <1>5, <1>6

LEMMA GoodStep ==
  ASSUME TypeInv, StackInv, NEW F \in Owners, OwnersInv(F), NEW t \in Threads, Step(t)
  PROVE  \E H \in Owners : /\ \A i \in Nat : i < ids => H[i] = F[i]
                           /\ GoodStack(H, ids', t)
<1>1. CASE Check(t)
  BY <1>1, GoodCheck
<1>2. CASE ~Check(t)
  <2>1. ids' = ids
    BY <1>2, Zenon DEF Step, Start, DecorateSig, Decorated, DecorateFails, Result, Template,
       Acquire, BodyFails, TypeCall, Resolve, Finish
  <2> SUFFICES GoodStack(F, ids, t)
    BY <2>1
  <2>2. CASE Start(t)
    BY <2>2, GoodStart
  <2>3. CASE DecorateSig(t)
    BY <2>3, GoodDecorateSig
  <2>4. CASE Decorated(t) \/ DecorateFails(t) \/ BodyFails(t) \/ Finish(t)
    <3>1. stack[t] # <<>> /\ stack' = [stack EXCEPT ![t] = Tail(@)]
      BY <2>4 DEF Decorated, DecorateFails, BodyFails, Fail, Finish, Return, At
    <3> QED
      BY <3>1, GoodReturn
  <2>5. CASE Result(t) \/ Template(t) \/ Acquire(t)
    <3> DEFINE d == Top(t)
               X(p) == [d EXCEPT !.step = p]
    <3>1. \/ stack' = [stack EXCEPT ![t] = Tail(@)]
          \/ Become(t, X("acquire")) \/ Become(t, X("check"))
      BY <2>5 DEF Result, Template, Acquire, Return
    <3>2. stack[t] # <<>> /\ d.step # "decorate"
      BY <2>5 DEF Result, Template, Acquire, At
    <3>3. d \in GoodFrames(F, ids)
      BY <3>2, GoodTop
    <3>4. "acquire" \in Steps /\ "check" \in Steps
      BY DEF Steps
    <3> HIDE DEF d
    <3>5. X("acquire") \in GoodFrames(F, ids)
      BY <3>2, <3>3, <3>4, GoodStepped
    <3>6. X("check") \in GoodFrames(F, ids)
      BY <3>2, <3>3, <3>4, GoodStepped
    <3> HIDE DEF X
    <3> QED
      BY <3>1, <3>2, <3>5, <3>6, GoodReturn, GoodBecome
  <2>6. CASE TypeCall(t)
    BY <2>6, GoodTypeCall
  <2>7. CASE Resolve(t)
    BY <2>7, GoodResolve
  <2> QED
    BY <1>2, <2>2, <2>3, <2>4, <2>5, <2>6, <2>7 DEF Step
<1> QED
  BY <1>1, <1>2

Grows == \A f \in Functions : DOMAIN overloads[f] \subseteq DOMAIN overloads'[f]

LEMMA ReadyGrows ==
  ASSUME Grows, NEW d \in Frames, Ready(d)
  PROVE  Ready(d)'
<1>1. d.fn \in Functions /\ d.sigs \in Seq(ArgLists)
  BY DEF Frames
<1>2. Len(d.sigs) \in Nat
  BY <1>1
<1>3. ASSUME NEW k \in 1 .. Len(d.sigs)
      PROVE  /\ HasBody(d.fn, d.args) /\ k <= Len(Body[d.fn][d.args])
             /\ d.sigs[k] \in DOMAIN overloads'[Body[d.fn][d.args][k].fn]
  <2>1. /\ HasBody(d.fn, d.args) /\ k <= Len(Body[d.fn][d.args])
        /\ d.sigs[k] \in DOMAIN overloads[Body[d.fn][d.args][k].fn]
    BY DEF Ready
  <2>2. d.args \in DOMAIN Body[d.fn]
    BY <2>1 DEF HasBody
  <2>3. Len(Body[d.fn][d.args]) \in Nat
    BY <1>1, <2>2, ProgramAssumption
  <2>4. k \in 1 .. Len(Body[d.fn][d.args])
    BY <1>2, <2>1, <2>3
  <2>5. Body[d.fn][d.args][k].fn \in Functions
    BY <1>1, <2>2, <2>4, Arguments
  <2> QED
    BY <2>1, <2>5 DEF Grows
<1>4. Len(d.sigs) = d.n - 1
  BY DEF Ready
<1> QED
  BY <1>3, <1>4 DEF Ready, HasBody

LEMMA LinkedGrows ==
  ASSUME Grows, NEW f \in Functions, NEW a, NEW code, IsLinked(f, a, code)
  PROVE  IsLinked(f, a, code)'
<1>1. a \in DOMAIN Body[f] /\ DOMAIN code = DOMAIN Body[f][a]
  BY DEF IsLinked
<1>2. ASSUME NEW n \in DOMAIN Body[f][a]
      PROVE  /\ code[n].fn = Body[f][a][n].fn
             /\ code[n].args \in DOMAIN overloads'[Body[f][a][n].fn]
  <2>1. /\ code[n].fn = Body[f][a][n].fn
        /\ code[n].args \in DOMAIN overloads[Body[f][a][n].fn]
    BY DEF IsLinked
  <2>2. n \in 1 .. Len(Body[f][a])
    BY <1>1, ProgramAssumption
  <2>3. Body[f][a][n].fn \in Functions
    BY <1>1, <2>2, Arguments
  <2> QED
    BY <2>1, <2>3 DEF Grows
<1> QED
  BY <1>1, <1>2 DEF IsLinked

\* Only the end of a compilation adds an overload.
LEMMA Changes ==
  ASSUME NEW t \in Threads, Step(t)
  PROVE  \/ overloads' = overloads /\ defns' = defns
         \/ Finish(t) /\ AddOverload(Top(t)) /\ ids' = ids
  BY Zenon DEF Step, Start, DecorateSig, Decorated, DecorateFails, Result, Template, Acquire,
         Check, BodyFails, TypeCall, Resolve, Finish

\* A compilation that has resolved its calls is linked to the functions called:
\* the identity in an entry point tells their overloads apart.
LEMMA Links ==
  ASSUME TypeInv, NEW F, OwnersInv(F), NEW d \in Frames, Ready(d), HasBody(d.fn, d.args),
         d.n > Len(Body[d.fn][d.args])
  PROVE  IsLinked(d.fn, d.args, Linked(d))
<1> DEFINE calls == Body[d.fn][d.args]
<1>1. d.fn \in Functions /\ d.args \in DOMAIN Body[d.fn] /\ d.sigs \in Seq(ArgLists)
      /\ d.n \in Nat \ {0}
  BY DEF Frames, HasBody
<1>2. Len(calls) \in Nat /\ DOMAIN calls = 1 .. Len(calls)
  BY <1>1, ProgramAssumption
<1>3. Len(d.sigs) \in Nat /\ DOMAIN d.sigs = 1 .. Len(d.sigs)
  BY <1>1
<1>4. Len(d.sigs) = d.n - 1 /\ d.n > Len(calls)
  BY DEF Ready
<1>5. \A k \in 1 .. Len(d.sigs) : k <= Len(calls)
                                  /\ d.sigs[k] \in DOMAIN overloads[calls[k].fn]
  BY DEF Ready
<1> HIDE DEF calls
<1>6. Len(d.sigs) = Len(calls)
  <2>1. Len(d.sigs) >= Len(calls)
    BY <1>1, <1>2, <1>3, <1>4
  <2>2. Len(d.sigs) > 0 => Len(d.sigs) <= Len(calls)
    <3>1. Len(d.sigs) > 0 => Len(d.sigs) \in 1 .. Len(d.sigs)
      BY <1>3
    <3> QED
      BY <1>5, <3>1
  <2> QED
    BY <1>2, <1>3, <2>1, <2>2
<1>7. DOMAIN Linked(d) = DOMAIN calls
  BY <1>2, <1>3, <1>6 DEF Linked
<1>8. ASSUME NEW n \in DOMAIN calls
      PROVE  /\ Linked(d)[n].fn = calls[n].fn
             /\ Linked(d)[n].args \in DOMAIN overloads[calls[n].fn]
  <2>1. n \in 1 .. Len(d.sigs) /\ n \in 1 .. Len(calls) /\ n \in DOMAIN d.sigs
    BY <1>2, <1>3, <1>6
  <2>2. PICK a \in DOMAIN overloads[calls[n].fn] : a = d.sigs[n]
    BY <1>5, <2>1
  <2>3. calls[n].fn \in Functions
    BY <1>1, <2>1, Arguments DEF calls
  <2>4. Known(F, calls[n].fn, a, overloads[calls[n].fn][a])
    BY <2>2, <2>3 DEF OwnersInv
  <2>5. defns[<<overloads[calls[n].fn][a].entry_point, a>>] = calls[n].fn
    BY <2>4 DEF Known
  <2>6. Linked(d)[n] = [fn |-> defns[<<overloads[calls[n].fn][d.sigs[n]].entry_point,
                                       d.sigs[n]>>],
                        args |-> d.sigs[n]]
    BY <2>1, Zenon DEF Linked, calls
  <2> QED
    BY <2>2, <2>5, <2>6
<1> QED
  BY <1>1, <1>7, <1>8 DEF IsLinked, calls

LEMMA KnownAdded ==
  ASSUME TypeInv, NEW F, OwnersInv(F), NEW d \in GoodFrames(F, ids), AddOverload(d),
         d.step = "body", HasBody(d.fn, d.args), d.n > Len(Body[d.fn][d.args]), ids' = ids
  PROVE  /\ Grows
         /\ \A f \in Functions : \A a \in DOMAIN overloads'[f] :
              Known(F, f, a, overloads[f][a])'
<1>1. /\ d \in Frames /\ Ready(d) /\ d.fn \in Functions /\ d.id \in Nat
      /\ d.id < ids /\ F[d.id] = <<d.fn, d.args>>
  BY DEF GoodFrames, Compiling, Frames
<1>2. \A f \in Functions :
        DOMAIN overloads'[f] = IF f = d.fn THEN DOMAIN overloads[f] \cup {d.args}
                               ELSE DOMAIN overloads[f]
  BY <1>1, Added
<1>3. Grows
  BY <1>2 DEF Grows
<1> DEFINE entry == EntryPoint(d.fn, d.id)
           key == <<entry, d.args>>
           o == [id |-> d.id, entry_point |-> entry, code |-> Linked(d)]
<1>4. overloads'[d.fn][d.args] = o
  BY <1>1 DEF AddOverload, TypeInv
<1>5. ASSUME NEW f \in Functions, NEW a \in DOMAIN overloads[f], f # d.fn \/ a # d.args
      PROVE  overloads'[f][a] = overloads[f][a]
  BY <1>1, <1>5 DEF AddOverload, TypeInv
<1>6. DOMAIN defns' = DOMAIN defns \cup {key} /\ defns'[key] = d.fn
  BY DEF AddOverload
<1>7. \A k \in DOMAIN defns : k # key => defns'[k] = defns[k]
  BY DEF AddOverload
<1>8. IsLinked(d.fn, d.args, Linked(d))
  BY <1>1, Links
<1> HIDE DEF entry
<1>9. Known(F, d.fn, d.args, overloads[d.fn][d.args])'
  <2>1. PICK code : code = Linked(d)
    OBVIOUS
  <2>2. IsLinked(d.fn, d.args, code)'
    BY <1>1, <1>3, <1>8, <2>1, LinkedGrows
  <2>3. /\ overloads'[d.fn][d.args].id = d.id
        /\ overloads'[d.fn][d.args].entry_point = entry
        /\ overloads'[d.fn][d.args].code = code
    BY <1>4, <2>1
  <2>4. entry = EntryPoint(d.fn, d.id)
    BY DEF entry
  <2> QED
    BY <1>1, <1>6, <2>2, <2>3, <2>4 DEF Known, EntryPoint
<1>10. ASSUME NEW f \in Functions, NEW a \in DOMAIN overloads[f], f # d.fn \/ a # d.args
       PROVE  Known(F, f, a, overloads[f][a])'
  <2>1. PICK p : p = overloads[f][a]
    OBVIOUS
  <2>2. Known(F, f, a, p)
    BY <2>1 DEF OwnersInv
  <2>3. overloads'[f][a] = p
    BY <1>5, <1>10, <2>1
  <2>4. IsLinked(f, a, p.code)
    BY <2>2 DEF Known
  <2>5. PICK code : code = p.code
    OBVIOUS
  <2>6. IsLinked(f, a, code)'
    BY <1>3, <2>4, <2>5, LinkedGrows
  <2>7. p.id # d.id
    BY <1>1, <1>10, <2>2 DEF Known
  <2>8. <<p.entry_point, a>> # key
    <3>1. p.entry_point.id = p.id /\ entry.id = d.id
      BY <2>2 DEF Known, EntryPoint, entry
    <3> QED
      BY <2>7, <3>1
  <2>9. <<p.entry_point, a>> \in DOMAIN defns' /\ defns'[<<p.entry_point, a>>] = f
    BY <1>6, <1>7, <2>2, <2>8 DEF Known
  <2>10. /\ p.id \in Nat /\ p.id < ids /\ F[p.id] = <<f, a>>
         /\ p.entry_point = EntryPoint(f, p.id)
    BY <2>2 DEF Known
  <2> QED
    BY <2>3, <2>5, <2>6, <2>9, <2>10 DEF Known, EntryPoint
<1>11. ASSUME NEW f \in Functions, NEW a \in DOMAIN overloads'[f]
       PROVE  Known(F, f, a, overloads[f][a])'
  <2>1. CASE f = d.fn /\ a = d.args
    BY <1>9, <2>1
  <2>2. CASE f # d.fn \/ a # d.args
    <3>1. a \in DOMAIN overloads[f]
      BY <1>2, <2>2
    <3> QED
      BY <1>10, <2>2, <3>1
  <2> QED
    BY <2>1, <2>2
<1> QED
  BY <1>3, <1>11

\* Identities handed out later leave what is known as it is.
LEMMA KnownKept ==
  ASSUME TypeInv, NEW F, NEW H, OwnersInv(F), \A i \in Nat : i < ids => H[i] = F[i],
         overloads' = overloads, defns' = defns, ids' \in Nat, ids <= ids',
         NEW f \in Functions, NEW a \in DOMAIN overloads[f]
  PROVE  Known(H, f, a, overloads[f][a])'
<1>1. PICK p : p = overloads[f][a]
  OBVIOUS
<1>2. Known(F, f, a, p)
  BY <1>1 DEF OwnersInv
<1>3. /\ p.id \in Nat /\ p.id < ids /\ F[p.id] = <<f, a>>
      /\ p.entry_point = EntryPoint(f, p.id)
      /\ <<p.entry_point, a>> \in DOMAIN defns /\ defns[<<p.entry_point, a>>] = f
  BY <1>2 DEF Known
<1>4. ids \in Nat
  BY DEF TypeInv
<1>5. p.id < ids' /\ H[p.id] = <<f, a>>
  BY <1>3, <1>4
<1>6. PICK code : code = p.code
  OBVIOUS
<1>7. IsLinked(f, a, code)'
  BY <1>2, <1>6 DEF Known, IsLinked
<1>8. overloads'[f][a] = p
  BY <1>1
<1> QED
  BY <1>3, <1>5, <1>6, <1>7, <1>8 DEF Known, EntryPoint

LEMMA LinkStep ==
  ASSUME TypeInv, StackInv, LinkInv, NEW t \in Threads, Step(t)
  PROVE  LinkInv'
<1>1. PICK F \in Owners : OwnersInv(F)
  BY DEF LinkInv
<1>2. PICK H \in Owners : /\ \A i \in Nat : i < ids => H[i] = F[i]
                          /\ GoodStack(H, ids', t)
  BY <1>1, GoodStep
<1>3. ids \in Nat /\ ids' \in Nat /\ ids <= ids'
  <2>1. ids' = ids \/ ids' = ids + 1
    BY Zenon DEF Step, Start, DecorateSig, Decorated, DecorateFails, Result, Template, Acquire,
           Check, BodyFails, TypeCall, Resolve, Finish
  <2>2. ids \in Nat
    BY DEF TypeInv
  <2> QED
    BY <2>1, <2>2
<1>4. /\ Grows
      /\ \A f \in Functions : \A a \in DOMAIN overloads'[f] :
           Known(H, f, a, overloads[f][a])'
  <2>1. CASE overloads' = overloads /\ defns' = defns
    <3>1. Grows
      BY <2>1 DEF Grows
    <3>2. ASSUME NEW f \in Functions, NEW a \in DOMAIN overloads'[f]
          PROVE  Known(H, f, a, overloads[f][a])'
      BY <1>1, <1>2, <1>3, <2>1, KnownKept
    <3> QED
      BY <3>1, <3>2
  <2>2. CASE Finish(t) /\ AddOverload(Top(t)) /\ ids' = ids
    <3> DEFINE d == Top(t)
    <3>1. /\ d.step = "body" /\ HasBody(d.fn, d.args) /\ d.n > Len(Body[d.fn][d.args])
          /\ stack[t] # <<>>
      BY <2>2 DEF Finish, At
    <3>2. d \in GoodFrames(F, ids)
      BY <1>1, <3>1, GoodTop
    <3>3. AddOverload(d)
      BY <2>2
    <3> HIDE DEF d
    <3>4. /\ Grows
          /\ \A f \in Functions : \A a \in DOMAIN overloads'[f] :
               Known(F, f, a, overloads[f][a])'
      BY <1>1, <2>2, <3>1, <3>2, <3>3, KnownAdded
    <3>5. ASSUME NEW f \in Functions, NEW a \in DOMAIN overloads'[f]
          PROVE  Known(H, f, a, overloads[f][a])'
      <4>1. Known(F, f, a, overloads[f][a])'
        BY <3>4
      <4>2. /\ overloads'[f][a].id \in Nat /\ overloads'[f][a].id < ids
            /\ F[overloads'[f][a].id] = <<f, a>>
        BY <2>2, <4>1 DEF Known
      <4>3. H[overloads'[f][a].id] = <<f, a>>
        BY <1>2, <4>2
      <4> QED
        BY <4>1, <4>3 DEF Known
    <3> QED
      BY <3>4, <3>5
  <2> QED
    BY <2>1, <2>2, Changes
<1>5. PICK i \in Nat : i = ids'
  BY <1>3
<1>6. PICK G : G = GoodFrames(H, ids)'
  OBVIOUS
<1>7. GoodFrames(H, i) \subseteq G
  <2> SUFFICES ASSUME NEW d \in GoodFrames(H, i)
               PROVE  d \in GoodFrames(H, ids)'
    BY <1>6
  <2>1. /\ d \in Frames /\ (d.step # "decorate" => Ready(d))
        /\ Compiling(d) => d.id < i /\ H[d.id] = <<d.fn, d.args>>
    BY DEF GoodFrames
  <2>2. d.step # "decorate" => Ready(d)'
    BY <1>4, <2>1, ReadyGrows
  <2> QED
    BY <1>5, <2>1, <2>2 DEF GoodFrames
<1>8. GoodFrames(F, ids) \subseteq GoodFrames(H, i)
  <2> SUFFICES ASSUME NEW d \in GoodFrames(F, ids) PROVE d \in GoodFrames(H, i)
    OBVIOUS
  <2>1. /\ d \in Frames /\ (d.step # "decorate" => Ready(d))
        /\ Compiling(d) => d.id < ids /\ F[d.id] = <<d.fn, d.args>>
    BY DEF GoodFrames
  <2>2. d.id \in Nat
    BY <2>1 DEF Frames
  <2>3. Compiling(d) => d.id < i /\ H[d.id] = <<d.fn, d.args>>
    BY <1>2, <1>3, <1>5, <2>1, <2>2
  <2> QED
    BY <2>1, <2>3 DEF GoodFrames
<1>9. ASSUME NEW u \in Threads PROVE stack'[u] \in Seq(G)
  <2>1. CASE u = t
    <3>1. stack'[t] \in Seq(GoodFrames(H, i))
      BY <1>2, <1>5 DEF GoodStack
    <3> QED
      BY <1>7, <2>1, <3>1, SeqOfMore
  <2>2. CASE u # t
    <3>1. PICK new : StepMove(t, new)
      BY StepMoves
    <3>2. stack'[u] = stack[u]
      BY <2>2, <3>1, Others DEF StepMove
    <3>3. stack[u] \in Seq(GoodFrames(F, ids))
      BY <1>1 DEF OwnersInv
    <3>4. GoodFrames(F, ids) \subseteq G
      BY <1>7, <1>8
    <3> QED
      BY <3>2, <3>3, <3>4, SeqOfMore
  <2> QED
    BY <2>1, <2>2
<1>10. OwnersInv(H)'
  BY <1>4, <1>6, <1>9 DEF OwnersInv
<1> QED
  BY <1>10 DEF LinkInv

\* Whatever threads compile and in whatever order, compiled code has one link for
\* each call of the function's source, to the function the source names and to a
\* version of it that was compiled.
CodeLinked ==
  \A f \in Functions : \A a \in DOMAIN overloads[f] :
    IsLinked(f, a, overloads[f][a].code)

LEMMA LinkAtFirst ==
  ASSUME Init
  PROVE  LinkInv
<1>1. PICK F \in Owners : TRUE
  <2>1. [i \in Nat |-> <<>>] \in Owners
    BY DEF Owners
  <2> QED
    BY <2>1
<1>2. \A t \in Threads : stack[t] \in Seq(GoodFrames(F, ids))
  BY DEF Init
<1>3. \A f \in Functions : DOMAIN overloads[f] = {}
  BY DEF Init, Nothing
<1> QED
  BY <1>2, <1>3 DEF LinkInv, OwnersInv

LEMMA LinkStutters ==
  ASSUME DispatcherInv, LinkInv, UNCHANGED vars
  PROVE  LinkInv'
<1>1. PICK F \in Owners : OwnersInv(F)
  BY DEF LinkInv
<1>2. overloads' = overloads /\ defns' = defns /\ ids' = ids /\ stack' = stack
  BY DEF vars
<1>3. ASSUME NEW f \in Functions, NEW a \in DOMAIN overloads'[f]
      PROVE  Known(F, f, a, overloads[f][a])'
  <2>1. ids \in Nat
    BY DEF DispatcherInv, TypeInv
  <2> QED
    BY <1>1, <1>2, <2>1, KnownKept DEF DispatcherInv
<1>4. PICK G : G = GoodFrames(F, ids)'
  OBVIOUS
<1>5. GoodFrames(F, ids) \subseteq G
  <2> SUFFICES ASSUME NEW d \in GoodFrames(F, ids) PROVE d \in GoodFrames(F, ids)'
    BY <1>4
  <2>1. Ready(d)' <=> Ready(d)
    BY <1>2 DEF Ready, HasBody
  <2> QED
    BY <1>2, <2>1 DEF GoodFrames
<1>6. \A t \in Threads : stack'[t] \in Seq(G)
  BY <1>1, <1>2, <1>5, SeqOfMore DEF OwnersInv
<1>7. OwnersInv(F)'
  BY <1>3, <1>4, <1>6 DEF OwnersInv
<1> QED
  BY <1>7 DEF LinkInv

\* An identity is that of one compilation, and entry points with identities keep
\* the functions apart that compiled code is linked to.
THEOREM LinkInvariance == Spec => [](DispatcherInv /\ LinkInv)
<1>1. Init => DispatcherInv /\ LinkInv
  BY Initially, LinkAtFirst
<1>2. ASSUME DispatcherInv, LinkInv, [Next]_vars
      PROVE  (DispatcherInv /\ LinkInv)'
  <2>1. DispatcherInv'
    BY <1>2, Preserved
  <2>2. CASE UNCHANGED vars
    BY <1>2, <2>1, <2>2, LinkStutters
  <2>3. CASE \E t \in Threads : Step(t)
    BY <1>2, <2>1, <2>3, LinkStep DEF DispatcherInv
  <2> QED
    BY <1>2, <2>2, <2>3 DEF Next
<1>3. (DispatcherInv /\ LinkInv) /\ [Next]_vars => (DispatcherInv /\ LinkInv)'
  BY <1>2
<1> QED
  BY <1>1, <1>3, PTL DEF Spec

\* Compiled code calls the functions its source names, also where closures share
\* a qualified name: QualNameDisambiguationLowering gives every compilation an
\* entry point of its own.
THEOREM LinksCorrect == Spec => []CodeLinked
<1>1. ASSUME LinkInv PROVE CodeLinked
  <2>1. PICK F \in Owners : OwnersInv(F)
    BY <1>1 DEF LinkInv
  <2>2. ASSUME NEW f \in Functions, NEW a \in DOMAIN overloads[f]
        PROVE  IsLinked(f, a, overloads[f][a].code)
    <3>1. Known(F, f, a, overloads[f][a])
      BY <2>1 DEF OwnersInv
    <3> QED
      BY <3>1 DEF Known
  <2> QED
    BY <2>2 DEF CodeLinked
<1> QED
  BY <1>1, LinkInvariance, PTL

----------------------------------------------------------------------------
(* What compiling means: outcomes by their equation *)

Rule(G, f, args) ==
  IF Kind[f] = "KERNEL" /\ ArgumentError(args) # "none" THEN ArgumentError(args)
  ELSE IF \/ ~HasBody(f, args)
          \/ \E n \in DOMAIN Body[f][args] :
               \A s \in Meant(f, Body[f][args][n]) : G[Body[f][args][n].fn][s] # "ok"
       THEN "TypingError"
  ELSE IF Kind[f] = "KERNEL" /\ f \in Returns THEN "KernelHasReturnValueError"
  ELSE "ok"
Solves(G, D) == \A f \in D : \A a \in ArgLists : G[f][a] = Rule(G, f, a)
Closed(D) == \A f \in D : \A c \in CallsOf(f) : c.fn \in D

LEMMA MeantArguments ==
  ASSUME NEW f \in Functions, NEW a \in DOMAIN Body[f], NEW n \in DOMAIN Body[f][a]
  PROVE  /\ Body[f][a][n] \in CallsOf(f) /\ Body[f][a][n].fn \in Functions
         /\ Meant(f, Body[f][a][n]) \subseteq ArgLists
<1> DEFINE call == Body[f][a][n]
<1>1. n \in 1 .. Len(Body[f][a])
  BY ProgramAssumption
<1>2. call.args \in ArgLists /\ call.fn \in Functions
  BY <1>1, Arguments
<1>3. \A s \in SigSet(call.fn) : s \in ArgLists
  BY <1>2 DEF ArgLists
<1>4. call \in CallsOf(f)
  BY DEF CallsOf
<1>5. Meant(f, call) \subseteq ArgLists
  <2> HIDE DEF call
  <2> QED
    BY <1>2, <1>3 DEF Meant
<1> QED
  BY <1>2, <1>4, <1>5

LEMMA RuleAgrees ==
  ASSUME NEW f \in Functions, NEW a \in ArgLists, NEW G, NEW H,
         \A c \in CallsOf(f) : \A s \in ArgLists : G[c.fn][s] = H[c.fn][s]
  PROVE  Rule(G, f, a) = Rule(H, f, a)
<1>1. ASSUME HasBody(f, a), NEW n \in DOMAIN Body[f][a]
      PROVE  (\A s \in Meant(f, Body[f][a][n]) : G[Body[f][a][n].fn][s] # "ok")
               <=> (\A s \in Meant(f, Body[f][a][n]) : H[Body[f][a][n].fn][s] # "ok")
  <2>1. a \in DOMAIN Body[f]
    BY <1>1 DEF HasBody
  <2>2. Body[f][a][n] \in CallsOf(f) /\ Meant(f, Body[f][a][n]) \subseteq ArgLists
    BY <2>1, MeantArguments
  <2> QED
    BY <2>2
<1> QED
  BY <1>1 DEF Rule

LEMMA SolutionsAgree ==
  ASSUME NEW D \in SUBSET Functions, NEW E \in SUBSET Functions, Closed(D), Closed(E),
         NEW G, NEW H, Solves(G, D), Solves(H, E)
  PROVE  \A f \in D \cap E : \A a \in ArgLists : G[f][a] = H[f][a]
<1> DEFINE S == {f \in D \cap E : \E a \in ArgLists : G[f][a] # H[f][a]}
<1> SUFFICES ASSUME S # {} PROVE FALSE
  OBVIOUS
<1>1. PICK f \in S : \A c \in CallsOf(f) : c.fn \in Module \ S
  <2>1. S \in (SUBSET Functions) \ {{}}
    OBVIOUS
  <2> HIDE DEF S
  <2> QED
    BY <2>1, CallsAreOrdered
<1>2. \A c \in CallsOf(f) : \A s \in ArgLists : G[c.fn][s] = H[c.fn][s]
  BY <1>1 DEF Closed
<1>3. \A a \in ArgLists : Rule(G, f, a) = Rule(H, f, a)
  BY <1>2, RuleAgrees
<1> QED
  BY <1>3 DEF Solves

LEMMA SolutionExists ==
  \E G : Solves(G, Functions)
<1> DEFINE Solved(f) == \E D \in SUBSET Functions : \E G : f \in D /\ Closed(D) /\ Solves(G, D)
           U == {f \in Functions : Solved(f)}
           S == Functions \ U
           Is(f, a, v) == \E D \in SUBSET Functions : \E G :
                            f \in D /\ Closed(D) /\ Solves(G, D) /\ v = G[f][a]
           H == [f \in U |-> [a \in ArgLists |-> CHOOSE v : Is(f, a, v)]]
<1>1. Closed(U)
  <2> SUFFICES ASSUME NEW f \in U, NEW c \in CallsOf(f) PROVE c.fn \in U
    BY DEF Closed
  <2>1. PICK D \in SUBSET Functions : \E G : f \in D /\ Closed(D) /\ Solves(G, D)
    OBVIOUS
  <2>2. c.fn \in D
    BY <2>1 DEF Closed
  <2> QED
    BY <2>1, <2>2
<1>2. ASSUME NEW D \in SUBSET Functions, NEW G, Closed(D), Solves(G, D),
             NEW f \in D, NEW a \in ArgLists
      PROVE  H[f][a] = G[f][a]
  <2>1. f \in U
    BY <1>2
  <2>2. Is(f, a, G[f][a])
    BY <1>2
  <2>3. Is(f, a, CHOOSE v : Is(f, a, v))
    <3> HIDE DEF Is
    <3> QED
      BY <2>2
  <2>4. PICK v : v = CHOOSE w : Is(f, a, w)
    OBVIOUS
  <2>5. Is(f, a, v)
    <3> HIDE DEF Is
    <3> QED
      BY <2>3, <2>4
  <2>6. v = G[f][a]
    <3>1. PICK E \in SUBSET Functions : \E K : f \in E /\ Closed(E) /\ Solves(K, E) /\ v = K[f][a]
      BY <2>5
    <3>2. PICK K : f \in E /\ Closed(E) /\ Solves(K, E) /\ v = K[f][a]
      BY <3>1
    <3> QED
      BY <1>2, <3>1, <3>2, SolutionsAgree
  <2>7. H[f][a] = v
    <3> HIDE DEF Is, U
    <3> QED
      BY <2>1, <2>4
  <2> QED
    BY <2>6, <2>7
<1>3. Solves(H, U)
  <2> SUFFICES ASSUME NEW f \in U, NEW a \in ArgLists PROVE H[f][a] = Rule(H, f, a)
    BY DEF Solves
  <2>1. PICK D \in SUBSET Functions : \E G : f \in D /\ Closed(D) /\ Solves(G, D)
    OBVIOUS
  <2>2. PICK G : f \in D /\ Closed(D) /\ Solves(G, D)
    BY <2>1
  <2> HIDE DEF H, U
  <2>3. H[f][a] = G[f][a]
    BY <1>2, <2>2
  <2>4. ASSUME NEW c \in CallsOf(f), NEW s \in ArgLists PROVE G[c.fn][s] = H[c.fn][s]
    <3>1. c.fn \in D
      BY <2>2 DEF Closed
    <3> QED
      BY <1>2, <2>2, <3>1
  <2>5. f \in Functions
    BY <2>1, <2>2
  <2>6. Rule(G, f, a) = Rule(H, f, a)
    BY <2>4, <2>5, RuleAgrees
  <2> QED
    BY <2>2, <2>3, <2>6 DEF Solves
<1>4. S = {}
  <2> SUFFICES ASSUME S # {} PROVE FALSE
    OBVIOUS
  <2>1. PICK f \in S : \A c \in CallsOf(f) : c.fn \in Module \ S
    <3>1. S \in (SUBSET Functions) \ {{}}
      OBVIOUS
    <3> HIDE DEF S
    <3> QED
      BY <3>1, CallsAreOrdered
  <2>2. \A c \in CallsOf(f) : c.fn \in U
    BY <2>1, ProgramAssumption
  <2> DEFINE D == U \cup {f}
             G == [g \in D |-> IF g \in U THEN H[g] ELSE [a \in ArgLists |-> Rule(H, f, a)]]
  <2>3. f \in Functions /\ f \notin U
    OBVIOUS
  <2> HIDE DEF H, U, S
  <2>4. D \in SUBSET Functions /\ Closed(D) /\ f \in D
    <3>1. U \subseteq Functions
      BY DEF U
    <3> QED
      BY <1>1, <2>2, <2>3, <3>1 DEF Closed
  <2>5. \A g \in U : \A a \in ArgLists : G[g][a] = H[g][a]
    OBVIOUS
  <2>6. \A a \in ArgLists : G[f][a] = Rule(H, f, a)
    BY <2>3
  <2>7. \A g \in D : \A c \in CallsOf(g) : c.fn \in U
    BY <1>1, <2>2 DEF Closed
  <2> HIDE DEF G
  <2>8. Solves(G, D)
    <3> SUFFICES ASSUME NEW g \in D, NEW a \in ArgLists PROVE G[g][a] = Rule(G, g, a)
      BY DEF Solves
    <3>1. \A c \in CallsOf(g) : \A s \in ArgLists : H[c.fn][s] = G[c.fn][s]
      BY <2>5, <2>7
    <3>2. g \in Functions
      BY <2>4
    <3> HIDE DEF D
    <3>3. Rule(H, g, a) = Rule(G, g, a)
      BY <3>1, <3>2, RuleAgrees
    <3>4. g \in U \/ g = f
      BY DEF D
    <3> QED
      BY <1>3, <2>5, <2>6, <3>3, <3>4 DEF Solves
  <2>9. f \in U
    BY <2>3, <2>4, <2>8 DEF U
  <2> QED
    BY <2>3, <2>9
<1>5. U = Functions
  BY <1>4
<1> HIDE DEF H, U
<1> QED
  BY <1>3, <1>5

LEMMA OutcomeIs ==
  \A f \in Functions : \A a \in ArgLists : Outcome[f][a] = Rule(Outcome, f, a)
<1>1. PICK G : Solves(G, Functions)
  BY SolutionExists
<1> DEFINE H == [f \in Functions |-> [a \in ArgLists |-> G[f][a]]]
<1>2. \A f \in Functions : \A a \in ArgLists : H[f][a] = Rule(H, f, a)
  <2> SUFFICES ASSUME NEW f \in Functions, NEW a \in ArgLists PROVE H[f][a] = Rule(H, f, a)
    OBVIOUS
  <2>1. H[f][a] = G[f][a]
    OBVIOUS
  <2>2. \A c \in CallsOf(f) : \A s \in ArgLists : G[c.fn][s] = H[c.fn][s]
    <3>1. \A c \in CallsOf(f) : c.fn \in Functions
      <4>1. {f} \in (SUBSET Functions) \ {{}}
        OBVIOUS
      <4>2. \A c \in CallsOf(f) : c.fn \in Module
        BY <4>1, CallsAreOrdered, Zenon
      <4> QED
        BY <4>2, ProgramAssumption
    <3> QED
      BY <3>1
  <2>3. Rule(G, f, a) = Rule(H, f, a)
    <3> HIDE DEF H
    <3> QED
      BY <2>2, RuleAgrees
  <2> QED
    BY <1>1, <2>1, <2>3 DEF Solves
<1>3. H = [f \in Functions |-> [a \in ArgLists |-> Rule(H, f, a)]]
  <2>1. H = [f \in Functions |-> [a \in ArgLists |-> H[f][a]]]
    OBVIOUS
  <2> HIDE DEF H
  <2> QED
    BY <1>2, <2>1
<1> HIDE DEF H
<1>4. Outcome = [f \in Functions |-> [a \in ArgLists |-> Rule(Outcome, f, a)]]
  <2> DEFINE Full(g) ==
          [f \in Functions |-> [args \in ArgLists |->
            IF Kind[f] = "KERNEL" /\ ArgumentError(args) # "none" THEN ArgumentError(args)
            ELSE IF \/ ~HasBody(f, args)
                    \/ \E n \in DOMAIN Body[f][args] :
                         LET call == Body[f][args][n]
                         IN  \A s \in Meant(f, call) : g[call.fn][s] # "ok"
                 THEN "TypingError"
            ELSE IF Kind[f] = "KERNEL" /\ f \in Returns THEN "KernelHasReturnValueError"
            ELSE "ok"]]
  <2>1. Outcome = CHOOSE g : g = Full(g)
    BY DEF Outcome
  <2>2. H = Full(H)
    BY <1>3, Zenon DEF Rule
  <2>3. Outcome = Full(Outcome)
    <3> HIDE DEF Full
    <3> QED
      BY <2>1, <2>2
  <2> QED
    BY <2>3, Zenon DEF Rule
<1> QED
  BY <1>4

----------------------------------------------------------------------------
(* Conversions: the version for the very types of a call is the best *)

\* Every set of numbers has a least one.
LEMMA Least ==
  ASSUME NEW S, S \subseteq Nat, S # {}
  PROVE  \E x \in S : \A y \in S : x <= y
<1> DEFINE R == OpToRel(<, Nat)
<1>1. IsWellFoundedOn(R, Nat)
  BY NatLessThanWellFounded, Zenon
<1>2. \A y, z \in Nat : <<y, z>> \in R <=> y < z
  BY DEF OpToRel
<1> HIDE DEF R
<1>3. PICK x \in S : \A y \in S : <<y, x>> \notin R
  BY <1>1, WFMin
<1>4. ASSUME NEW y \in S PROVE x <= y
  <2>1. x \in Nat /\ y \in Nat
    OBVIOUS
  <2>2. ~(y < x)
    BY <1>2, <1>3, <2>1
  <2> QED
    BY <2>1, <2>2
<1> QED
  BY <1>4

\* A set that contains 0, and with each number below n the next, contains the
\* numbers to n.
LEMMA Counting ==
  ASSUME NEW n \in Nat, NEW S, 0 \in S, \A k \in 0 .. n - 1 : k \in S => k + 1 \in S
  PROVE  \A k \in 0 .. n : k \in S
<1> DEFINE T == {k \in 0 .. n : k \notin S}
<1> SUFFICES ASSUME T # {} PROVE FALSE
  OBVIOUS
<1>1. T \subseteq Nat
  OBVIOUS
<1>2. \E x \in T : \A y \in T : x <= y
  <2> HIDE DEF T
  <2> QED
    BY <1>1, Least
<1>3. PICK x \in T : \A y \in T : x <= y
  BY <1>2
<1>4. x - 1 \in 0 .. n - 1 /\ x - 1 \notin T
  BY <1>3
<1>5. x - 1 \in S
  BY <1>4
<1> QED
  BY <1>4, <1>5

\* c holds the costs of converting the first k arguments, for every k.
IsCost(c, k, args, sig) ==
  c = [n \in 0 .. k |-> IF n = 0 THEN 0 ELSE c[n - 1] + Price(args[n], sig[n])]

LEMMA CostExists ==
  ASSUME NEW N \in Nat, NEW args, NEW sig,
         \A n \in 1 .. N : Price(args[n], sig[n]) \in Nat
  PROVE  \E c : IsCost(c, N, args, sig)
<1> DEFINE S == {k \in 0 .. N : \E c : IsCost(c, k, args, sig)}
<1>1. 0 \in S
  <2>1. IsCost([n \in 0 .. 0 |-> 0], 0, args, sig)
    BY DEF IsCost
  <2> QED
    BY <2>1
<1>2. ASSUME NEW k \in 0 .. N - 1, k \in S PROVE k + 1 \in S
  <2>1. PICK c : IsCost(c, k, args, sig)
    BY <1>2
  <2> DEFINE b == [n \in 0 .. k + 1 |->
                     IF n = 0 THEN 0 ELSE c[n - 1] + Price(args[n], sig[n])]
  <2>2. \A n \in 0 .. k : b[n] = c[n]
    BY <2>1 DEF IsCost
  <2>3. \A n \in 0 .. k + 1 : n # 0 => b[n] = c[n - 1] + Price(args[n], sig[n])
    OBVIOUS
  <2>4. b = [n \in 0 .. k + 1 |-> b[n]] /\ b[0] = 0
    OBVIOUS
  <2> HIDE DEF b
  <2>5. \A n \in 0 .. k + 1 : b[n] = IF n = 0 THEN 0 ELSE b[n - 1] + Price(args[n], sig[n])
    <3> TAKE n \in 0 .. k + 1
    <3>1. n # 0 => n - 1 \in 0 .. k
      OBVIOUS
    <3> QED
      BY <2>2, <2>3, <2>4, <3>1
  <2>6. IsCost(b, k + 1, args, sig)
    BY <2>4, <2>5 DEF IsCost
  <2>7. k + 1 \in 0 .. N
    OBVIOUS
  <2> QED
    BY <2>6, <2>7
<1>3. \A k \in 0 .. N : k \in S
  <2> HIDE DEF S
  <2> QED
    BY <1>1, <1>2, Counting
<1>4. N \in S
  <2>1. N \in 0 .. N
    OBVIOUS
  <2> HIDE DEF S
  <2> QED
    BY <1>3, <2>1
<1> QED
  BY <1>4

LEMMA CostIs ==
  ASSUME NEW args, NEW sig, Len(args) \in Nat,
         \A n \in 1 .. Len(args) : Price(args[n], sig[n]) \in Nat
  PROVE  \E c : IsCost(c, Len(args), args, sig) /\ TotalCost(args, sig) = c[Len(args)]
<1> DEFINE c == CHOOSE b : IsCost(b, Len(args), args, sig)
<1>1. IsCost(c, Len(args), args, sig)
  BY CostExists
<1>2. TotalCost(args, sig) = c[Len(args)]
  BY DEF TotalCost, IsCost
<1> HIDE DEF c
<1> QED
  BY <1>1, <1>2

LEMMA CostsAre ==
  ASSUME NEW N \in Nat, NEW args, NEW sig, NEW c, IsCost(c, N, args, sig),
         \A n \in 1 .. N : Price(args[n], sig[n]) \in Nat
  PROVE  \A k \in 0 .. N : /\ c[k] \in Nat
                           /\ c[k] = 0 <=> \A n \in 1 .. k : Price(args[n], sig[n]) = 0
<1> DEFINE S == {k \in 0 .. N : /\ c[k] \in Nat
                                /\ c[k] = 0 <=> \A n \in 1 .. k : Price(args[n], sig[n]) = 0}
<1>1. c[0] = 0 /\ \A k \in 0 .. N - 1 : c[k + 1] = c[k] + Price(args[k + 1], sig[k + 1])
  <2>1. c[0] = 0
    BY DEF IsCost
  <2>2. ASSUME NEW k \in 0 .. N - 1 PROVE c[k + 1] = c[k] + Price(args[k + 1], sig[k + 1])
    <3>1. k + 1 \in 0 .. N /\ k + 1 # 0 /\ (k + 1) - 1 = k
      OBVIOUS
    <3> QED
      BY <3>1 DEF IsCost
  <2> QED
    BY <2>1, <2>2
<1>2. 0 \in S
  BY <1>1
<1>3. ASSUME NEW k \in 0 .. N - 1, k \in S PROVE k + 1 \in S
  <2>1. PICK p \in Nat : p = Price(args[k + 1], sig[k + 1])
    OBVIOUS
  <2>2. c[k + 1] = c[k] + p /\ c[k] \in Nat
    BY <1>1, <1>3, <2>1
  <2>3. c[k + 1] = 0 <=> c[k] = 0 /\ p = 0
    BY <2>2
  <2>4. (\A n \in 1 .. k + 1 : Price(args[n], sig[n]) = 0)
          <=> p = 0 /\ \A n \in 1 .. k : Price(args[n], sig[n]) = 0
    BY <2>1
  <2>5. k + 1 \in 0 .. N /\ c[k + 1] \in Nat
    BY <2>2
  <2> QED
    BY <1>3, <2>3, <2>4, <2>5
<1>4. \A k \in 0 .. N : k \in S
  <2> HIDE DEF S
  <2> QED
    BY <1>2, <1>3, Counting
<1> QED
  BY <1>4

\* To convert arguments to themselves costs nothing, to anything else something.
LEMMA Costs ==
  ASSUME NEW args \in ArgLists, NEW sig \in ArgLists, Convertible(args, sig)
  PROVE  /\ TotalCost(args, sig) \in Nat
         /\ TotalCost(args, sig) = 0 <=> sig = args
<1>1. /\ args \in Seq(Range(args)) /\ sig \in Seq(Range(sig))
      /\ Len(args) \in Nat /\ Len(args) = Len(sig)
  BY ArgumentsAssumption DEF Convertible
<1>2. DOMAIN args = 1 .. Len(args) /\ DOMAIN sig = 1 .. Len(args)
  BY <1>1
<1>3. ASSUME NEW n \in 1 .. Len(args)
      PROVE  /\ Price(args[n], sig[n]) \in Nat
             /\ Price(args[n], sig[n]) = 0 <=> args[n] = sig[n]
  <2>1. args[n] = sig[n] \/ <<args[n], sig[n]>> \in DOMAIN Cost
    BY <1>2 DEF Convertible
  <2>2. args[n] # sig[n] => Cost[<<args[n], sig[n]>>] \in Nat \ {0}
    BY <2>1, ArgumentsAssumption
  <2> QED
    BY <2>2 DEF Price
<1>4. PICK c : IsCost(c, Len(args), args, sig) /\ TotalCost(args, sig) = c[Len(args)]
  BY <1>1, <1>3, CostIs
<1>5. Len(args) \in 0 .. Len(args)
  BY <1>1
<1>6. /\ c[Len(args)] \in Nat
      /\ c[Len(args)] = 0 <=> \A n \in 1 .. Len(args) : Price(args[n], sig[n]) = 0
  BY <1>1, <1>3, <1>4, <1>5, CostsAre
<1>7. (\A n \in 1 .. Len(args) : args[n] = sig[n]) => sig = args
  <2> SUFFICES ASSUME \A n \in 1 .. Len(args) : args[n] = sig[n] PROVE sig = args
    OBVIOUS
  <2> QED
    BY <1>1, <1>2
<1>8. sig = args => \A n \in 1 .. Len(args) : args[n] = sig[n]
  OBVIOUS
<1> QED
  BY <1>3, <1>4, <1>6, <1>7, <1>8

LEMMA PositionIs ==
  ASSUME NEW f \in Functions, NEW sig \in SigSet(f)
  PROVE  /\ Position(f, sig) \in 1 .. Len(Sigs[f]) /\ Sigs[f][Position(f, sig)] = sig
         /\ \A m \in 1 .. Position(f, sig) - 1 : Sigs[f][m] # sig
<1> DEFINE Q == {n \in DOMAIN Sigs[f] : Sigs[f][n] = sig}
<1>1. DOMAIN Sigs[f] = 1 .. Len(Sigs[f]) /\ Len(Sigs[f]) \in Nat
  BY ProgramAssumption
<1>2. Q \subseteq Nat /\ Q # {}
  BY <1>1 DEF SigSet
<1>3. PICK n \in Q : \A m \in Q : n <= m
  <2> HIDE DEF Q
  <2> QED
    BY <1>2, Least
<1>4. n \in DOMAIN Sigs[f] /\ Sigs[f][n] = sig /\ \A m \in 1 .. n - 1 : Sigs[f][m] # sig
  BY <1>1, <1>3
<1>5. /\ Position(f, sig) \in DOMAIN Sigs[f] /\ Sigs[f][Position(f, sig)] = sig
      /\ \A m \in 1 .. Position(f, sig) - 1 : Sigs[f][m] # sig
  BY <1>4 DEF Position
<1> QED
  BY <1>1, <1>5

\* The choice of Numba among the versions there are.
Best(f, args) ==
  {s \in DOMAIN overloads[f] :
     IsBest(s, args, DOMAIN overloads[f], LAMBDA x : overloads[f][x].id)}

LEMMA ExactBest ==
  ASSUME NEW f, NEW args \in ArgLists, DOMAIN overloads[f] \subseteq ArgLists,
         args \in DOMAIN overloads[f]
  PROVE  Best(f, args) = {args}
<1>1. Convertible(args, args)
  BY DEF Convertible
<1>2. TotalCost(args, args) = 0
  BY <1>1, Costs
<1>3. ASSUME NEW s \in DOMAIN overloads[f], s # args, Convertible(args, s)
      PROVE  TotalCost(args, args) < TotalCost(args, s) /\ TotalCost(args, s) \in Nat
  <2>1. TotalCost(args, s) \in Nat /\ TotalCost(args, s) # 0
    BY <1>3, Costs
  <2> QED
    BY <1>2, <2>1
<1>4. args \in Best(f, args)
  BY <1>1, <1>3 DEF Best, IsBest
<1>5. ASSUME NEW s \in Best(f, args), s # args PROVE FALSE
  <2>1. /\ s \in DOMAIN overloads[f] /\ Convertible(args, s)
        /\ \/ TotalCost(args, s) < TotalCost(args, args)
           \/ TotalCost(args, s) = TotalCost(args, args)
    BY <1>1, <1>5 DEF Best, IsBest
  <2>2. TotalCost(args, s) \in Nat /\ TotalCost(args, s) # 0
    BY <1>5, <2>1, Costs
  <2> QED
    BY <1>2, <2>1, <2>2
<1> QED
  BY <1>4, <1>5

LEMMA SignedBest ==
  ASSUME NEW f \in Functions, NEW args \in ArgLists, DOMAIN overloads[f] = SigSet(f),
         \A a \in SigSet(f) : overloads[f][a].id \in Nat,
         \A a, b \in SigSet(f) :
           Position(f, a) < Position(f, b) => overloads[f][a].id < overloads[f][b].id
  PROVE  Best(f, args) =
           {s \in SigSet(f) : IsBest(s, args, SigSet(f), LAMBDA x : Position(f, x))}
<1>1. ASSUME NEW a \in SigSet(f), NEW b \in SigSet(f), a # b
      PROVE  overloads[f][a].id < overloads[f][b].id <=> Position(f, a) < Position(f, b)
  <2>1. /\ Position(f, a) \in Nat /\ Position(f, b) \in Nat
        /\ Sigs[f][Position(f, a)] = a /\ Sigs[f][Position(f, b)] = b
    BY PositionIs
  <2>2. Position(f, a) < Position(f, b) \/ Position(f, b) < Position(f, a)
    BY <1>1, <2>1
  <2> QED
    BY <2>1, <2>2
<1> QED
  BY <1>1 DEF Best, IsBest

----------------------------------------------------------------------------
(* What the frames of a stack are for *)

CallOf(d) == Body[d.fn][d.args][d.n]
StepOf(f, callee) ==
  IF Kind[f] = "HOST" /\ Kind[callee] = "KERNEL" THEN "result" ELSE "template"

\* How a dispatcher is to answer what is asked of it in a step.
Answer(step, f, args) ==
  IF step = "template" /\ Sigs[f] # <<>> THEN "ok"
  ELSE IF step = "result" /\ Sigs[f] # <<>> /\ args \notin SigSet(f) THEN "TypingError"
  ELSE Outcome[f][args]
Due(x) == Answer(x.step, x.fn, x.args)

\* Frames that work for a decorator, and those that work for a call: a function
\* with signatures is compiled for its decorator only.
CompileSteps == {"acquire", "check", "body", "resolve"}
ForDecorator(x, y) ==
  /\ y.step = "decorate" /\ y.n \in 2 .. Len(Sigs[y.fn]) + 1
  /\ x.step \in CompileSteps
  /\ x.fn = y.fn /\ x.args = Sigs[y.fn][y.n - 1] /\ Bound(x.fn)
ForCall(x) ==
  /\ x.step # "decorate" /\ x.fn \in decorated /\ Bound(x.fn)
  /\ x.step \in {"result", "template"} \/ Sigs[x.fn] = <<>>
ForBody(x, y) ==
  /\ y.step = "resolve" /\ ForCall(x)
  /\ x.fn = CallOf(y).fn /\ x.args = CallOf(y).args
  /\ Due(x) = Answer(StepOf(y.fn, x.fn), x.fn, x.args)

Statement(t) == Program[t][pc[t] - 1]
ForStatement(x, t) ==
  /\ pc[t] > 1
  /\ IF x.step = "decorate"
     THEN /\ Statement(t).op = "decorate" /\ Statement(t).fn = x.fn
          /\ Sigs[x.fn] # <<>> => Bound(x.fn)
     ELSE Statement(t).op = "call" /\ ForCall(x) /\ Due(x) = ExpectedOf(Statement(t))

\* What may be above what, and what at the bottom of the stack of t.
Above == {p \in Frames \X Frames : ForDecorator(p[1], p[2]) \/ ForBody(p[1], p[2])}
Bottom(t) == {x \in Frames : ForStatement(x, t)}
Stacked(s, R, B) ==
  /\ \A n \in 1 .. Len(s) - 1 : <<s[n], s[n + 1]>> \in R
  /\ s # <<>> => s[Len(s)] \in B
PurposeInv == \A t \in Threads : Stacked(stack[t], Above, Bottom(t))

\* What a decorator has begun.
Begun(f) == \E t \in Threads : \E n \in 1 .. pc[t] - 1 :
              Program[t][n].op = "decorate" /\ Program[t][n].fn = f
Decorating(t) == stack[t] # <<>> /\ Statement(t).op = "decorate"
DecoratedInv ==
  /\ decorated \subseteq Functions
  /\ \A f \in decorated : Begun(f)
  /\ \A f \in Functions : can_compile[f] = (f \notin decorated \/ Sigs[f] = <<>>)
  /\ \A t \in Threads : Decorating(t) => Statement(t).fn \notin decorated

LEMMA StackedTail ==
  ASSUME NEW s \in Seq(Frames), s # <<>>, NEW R, NEW B, Stacked(s, R, B)
  PROVE  Stacked(Tail(s), R, B)
<1>1. /\ Len(s) \in Nat /\ Tail(s) \in Seq(Frames) /\ Len(Tail(s)) = Len(s) - 1
      /\ \A n \in 1 .. Len(s) - 1 : Tail(s)[n] = s[n + 1]
  BY SeqFacts
<1> DEFINE r == Tail(s)
<1>2. r # <<>> => Len(r) \in 1 .. Len(s) - 1 /\ Len(s) = Len(r) + 1
  BY <1>1, SeqFacts
<1> HIDE DEF r
<1>3. ASSUME NEW n \in 1 .. Len(r) - 1 PROVE <<r[n], r[n + 1]>> \in R
  <2>1. n + 1 \in 1 .. Len(s) - 1 /\ n \in 1 .. Len(s) - 1
    BY <1>1 DEF r
  <2>2. r[n] = s[n + 1] /\ r[n + 1] = s[(n + 1) + 1]
    BY <1>1, <2>1 DEF r
  <2> QED
    BY <2>1, <2>2 DEF Stacked
<1>4. r # <<>> => r[Len(r)] = s[Len(s)]
  BY <1>1, <1>2 DEF r
<1> QED
  BY <1>3, <1>4 DEF Stacked, r

LEMMA StackedCons ==
  ASSUME NEW r \in Seq(Frames), NEW x \in Frames, NEW R, NEW B, Stacked(r, R, B),
         r = <<>> => x \in B, r # <<>> => <<x, r[1]>> \in R
  PROVE  Stacked(<<x>> \o r, R, B)
<1> DEFINE s == <<x>> \o r
<1>1. /\ Len(r) \in Nat /\ Len(s) = Len(r) + 1 /\ s[1] = x
      /\ \A n \in 2 .. Len(r) + 1 : s[n] = r[n - 1]
  BY Cons
<1>2. r = <<>> <=> Len(r) = 0
  BY NoFrames
<1> HIDE DEF s
<1>3. ASSUME NEW n \in 1 .. Len(s) - 1 PROVE <<s[n], s[n + 1]>> \in R
  <2>1. CASE n = 1
    <3>1. r # <<>> /\ n + 1 \in 2 .. Len(r) + 1 /\ (n + 1) - 1 = 1
      BY <1>1, <1>2, <2>1
    <3>2. s[n + 1] = r[1] /\ s[n] = x
      BY <1>1, <2>1, <3>1
    <3> QED
      BY <3>1, <3>2
  <2>2. CASE n # 1
    <3>1. n \in 2 .. Len(r) + 1 /\ n + 1 \in 2 .. Len(r) + 1 /\ n - 1 \in 1 .. Len(r) - 1
          /\ (n + 1) - 1 = (n - 1) + 1
      BY <1>1, <2>2
    <3>2. s[n] = r[n - 1] /\ s[n + 1] = r[(n - 1) + 1]
      BY <1>1, <3>1
    <3> QED
      BY <3>1, <3>2 DEF Stacked
  <2> QED
    BY <2>1, <2>2
<1>4. s[Len(s)] \in B
  <2>1. CASE r = <<>>
    BY <1>1, <1>2, <2>1
  <2>2. CASE r # <<>>
    <3>1. Len(s) \in 2 .. Len(r) + 1 /\ Len(s) - 1 = Len(r)
      BY <1>1, <1>2, <2>2
    <3>2. s[Len(s)] = r[Len(r)]
      BY <1>1, <3>1
    <3> QED
      BY <2>2, <3>2 DEF Stacked
  <2> QED
    BY <2>1, <2>2
<1> QED
  BY <1>3, <1>4 DEF Stacked, s

\* A frame that may stand where another stands.
Stands(x, d, R, B) ==
  /\ \A y \in Frames : <<d, y>> \in R => <<x, y>> \in R
  /\ d \in B => x \in B

LEMMA StackedBecome ==
  ASSUME NEW s \in Seq(Frames), s # <<>>, NEW R, NEW B, Stacked(s, R, B),
         NEW x \in Frames, Stands(x, s[1], R, B)
  PROVE  Stacked(<<x>> \o Tail(s), R, B)
<1> DEFINE r == Tail(s)
<1>1. /\ Len(s) \in Nat /\ r \in Seq(Frames) /\ Len(r) = Len(s) - 1
      /\ \A n \in 1 .. Len(s) - 1 : r[n] = s[n + 1]
  BY SeqFacts
<1>2. Stacked(r, R, B)
  BY StackedTail
<1> HIDE DEF r
<1>3. r = <<>> <=> Len(r) = 0
  BY <1>1, NoFrames
<1>4. \A n \in 1 .. Len(r) : r[n] \in Frames
  BY <1>1, SeqFacts
<1>5. r = <<>> => x \in B
  <2> SUFFICES ASSUME r = <<>> PROVE x \in B
    OBVIOUS
  <2>1. Len(s) = 1
    BY <1>1, <1>3
  <2> QED
    BY <2>1 DEF Stacked, Stands
<1>6. r # <<>> => <<x, r[1]>> \in R
  <2> SUFFICES ASSUME r # <<>> PROVE <<x, r[1]>> \in R
    OBVIOUS
  <2>1. 1 \in 1 .. Len(s) - 1 /\ 1 \in 1 .. Len(r)
    BY <1>1, <1>3
  <2>2. <<s[1], s[1 + 1]>> \in R /\ r[1] = s[1 + 1] /\ r[1] \in Frames
    BY <1>1, <1>4, <2>1 DEF Stacked
  <2> QED
    BY <2>2 DEF Stands
<1>7. Stacked(<<x>> \o r, R, B)
  BY <1>1, <1>2, <1>5, <1>6, StackedCons
<1> QED
  BY <1>7 DEF r

LEMMA StackedPush ==
  ASSUME NEW s \in Seq(Frames), s # <<>>, NEW R, NEW B, Stacked(s, R, B),
         NEW x \in Frames, NEW y \in Frames, Stands(y, s[1], R, B), <<x, y>> \in R
  PROVE  Stacked(<<x, y>> \o Tail(s), R, B)
<1> DEFINE r == <<y>> \o Tail(s)
<1>1. Stacked(r, R, B)
  BY StackedBecome
<1>2. Tail(s) \in Seq(Frames)
  BY SeqFacts
<1>3. r \in Seq(Frames) /\ r # <<>> /\ r[1] = y
  BY <1>2, Cons
<1> HIDE DEF r
<1>4. Stacked(<<x>> \o r, R, B)
  BY <1>1, <1>3, StackedCons
<1>5. <<x, y>> \o Tail(s) = <<x>> \o r
  BY <1>2, Cons2 DEF r
<1> QED
  BY <1>4, <1>5

LEMMA StackedMore ==
  ASSUME NEW s, NEW R, NEW B, NEW R2, NEW B2, R \subseteq R2, B \subseteq B2, Stacked(s, R, B)
  PROVE  Stacked(s, R2, B2)
BY DEF Stacked

LEMMA BoundGrows ==
  ASSUME NEW f, decorated \subseteq decorated', Bound(f)
  PROVE  Bound(f)'
<1>1. PICK D \in SUBSET decorated : \A g \in D \cup {f} : \A c \in CallsOf(g) : c.fn \in D
  BY DEF Bound
<1>2. D \in SUBSET decorated'
  BY <1>1
<1> QED
  BY <1>1, <1>2 DEF Bound

LEMMA PurposeGrows ==
  ASSUME decorated \subseteq decorated'
  PROVE  /\ Above \subseteq Above'
         /\ \A t \in Threads : pc'[t] = pc[t] => Bottom(t) \subseteq Bottom(t)'
<1>1. ASSUME NEW x, ForCall(x) PROVE ForCall(x)'
  BY <1>1, BoundGrows DEF ForCall
<1>2. ASSUME NEW x, NEW y, ForDecorator(x, y) PROVE ForDecorator(x, y)'
  BY <1>2, BoundGrows DEF ForDecorator
<1>3. ASSUME NEW x, NEW y, ForBody(x, y) PROVE ForBody(x, y)'
  BY <1>1, <1>3 DEF ForBody
<1>4. ASSUME NEW t \in Threads, pc'[t] = pc[t], NEW x, ForStatement(x, t)
      PROVE  ForStatement(x, t)'
  BY <1>1, <1>4, BoundGrows DEF ForStatement, Statement
<1>5. Above \subseteq Above'
  BY <1>2, <1>3 DEF Above
<1> QED
  BY <1>4, <1>5 DEF Bottom

\* The innermost frame works for the one below, or for the thread's statement.
LEMMA Purpose ==
  ASSUME TypeInv, StackInv, PurposeInv, NEW t \in Threads, stack[t] # <<>>
  PROVE  /\ pc[t] > 1
         /\ \/ Tail(stack[t]) = <<>> /\ stack[t][1] \in Bottom(t)
            \/ /\ Tail(stack[t]) # <<>> /\ stack[t][2] = Tail(stack[t])[1]
               /\ stack[t][2] \in Frames
               /\ <<stack[t][1], stack[t][2]>> \in Above /\ stack[t][1].step # "decorate"
         /\ stack[t][1].step = "decorate" => Tail(stack[t]) = <<>> /\ Len(stack[t]) = 1
<1> DEFINE s == stack[t]
<1>1. /\ s \in Seq(Frames) /\ Len(s) \in Nat /\ 1 \in 1 .. Len(s)
      /\ \A n \in 1 .. Len(s) : s[n] \in Frames
      /\ Tail(s) \in Seq(Frames) /\ Len(Tail(s)) = Len(s) - 1
      /\ \A n \in 1 .. Len(s) - 1 : Tail(s)[n] = s[n + 1]
  BY SeqFacts DEF TypeInv
<1>2. Stacked(s, Above, Bottom(t)) /\ FrameInv(s, 1)
  BY <1>1 DEF PurposeInv, StackInv
<1>3. s # <<>>
  OBVIOUS
<1> HIDE DEF s
<1>4. Tail(s) = <<>> <=> Len(s) = 1
  <2>1. ASSUME Len(Tail(s)) = 0 PROVE Tail(s) = <<>>
    <3>1. Tail(s) \in Seq(Frames)
      BY <1>1
    <3> QED
      BY <2>1, <3>1, NoFrames
  <2>2. Tail(s) = <<>> => Len(Tail(s)) = 0
    <3>1. Len(<<>>) = 0
      OBVIOUS
    <3> QED
      BY <3>1
  <2> QED
    BY <1>1, <2>1, <2>2
<1>5. s[Len(s)] \in Bottom(t) /\ pc[t] > 1
  BY <1>2, <1>3 DEF Stacked, Bottom, ForStatement
<1>6. s[1].step = "decorate" => Len(s) = 1
  BY <1>2 DEF FrameInv
<1>7. CASE Len(s) = 1
  BY <1>4, <1>5, <1>7 DEF s
<1>8. CASE Len(s) # 1
  <2>1. 1 \in 1 .. Len(s) - 1 /\ 2 \in 1 .. Len(s) /\ 1 + 1 = 2
    BY <1>1, <1>8
  <2>2. Tail(s)[1] = s[2] /\ <<s[1], s[2]>> \in Above /\ s[2] \in Frames
    BY <1>1, <1>2, <2>1 DEF Stacked
  <2> QED
    BY <1>4, <1>5, <1>6, <1>8, <2>2 DEF s
<1> QED
  BY <1>7, <1>8

LEMMA SamePurpose ==
  ASSUME NEW d \in Frames, NEW x \in Frames, NEW t \in Threads,
         x.fn = d.fn, x.args = d.args, x.step \in CompileSteps,
         \/ d.step \in CompileSteps
         \/ Sigs[d.fn] = <<>> /\ d.step \in {"result", "template"}
  PROVE  Stands(x, d, Above, Bottom(t)) /\ Due(x) = Due(d)
<1>1. Due(x) = Due(d)
  BY DEF Due, Answer, CompileSteps
<1>2. ForCall(d) => ForCall(x)
  BY DEF ForCall, CompileSteps
<1>3. ASSUME NEW y \in Frames, <<d, y>> \in Above PROVE <<x, y>> \in Above
  <2>1. ForDecorator(d, y) \/ ForBody(d, y)
    BY <1>3 DEF Above
  <2>2. ForDecorator(d, y) => ForDecorator(x, y)
    BY DEF ForDecorator
  <2>3. ForBody(d, y) => ForBody(x, y)
    BY <1>1, <1>2 DEF ForBody
  <2> QED
    BY <2>1, <2>2, <2>3 DEF Above
<1>4. d \in Bottom(t) => x \in Bottom(t)
  <2>1. d.step # "decorate" /\ x.step # "decorate"
    BY DEF CompileSteps
  <2>2. ForStatement(d, t) => ForStatement(x, t)
    BY <1>1, <1>2, <2>1 DEF ForStatement
  <2> QED
    BY <2>2 DEF Bottom
<1> QED
  BY <1>1, <1>3, <1>4 DEF Stands

\* The frame of a function that is compiled for its decorator is above the
\* decorator's; other functions are without signatures.
LEMMA Compiles ==
  ASSUME TypeInv, StackInv, PurposeInv, NEW t \in Threads, stack[t] # <<>>,
         stack[t][1].step \in CompileSteps, Sigs[stack[t][1].fn] # <<>>
  PROVE  /\ Tail(stack[t]) # <<>> /\ stack[t][2] = Tail(stack[t])[1]
         /\ stack[t][2] \in Frames /\ ForDecorator(stack[t][1], stack[t][2])
<1>1. ~ForCall(stack[t][1]) /\ stack[t][1].step # "decorate"
  BY DEF ForCall, CompileSteps
<1>2. stack[t][1] \notin Bottom(t)
  BY <1>1 DEF Bottom, ForStatement
<1>3. /\ Tail(stack[t]) # <<>> /\ stack[t][2] = Tail(stack[t])[1]
      /\ stack[t][2] \in Frames /\ <<stack[t][1], stack[t][2]>> \in Above
  BY <1>2, Purpose
<1>4. ~ForBody(stack[t][1], stack[t][2])
  BY <1>1 DEF ForBody
<1> QED
  BY <1>3, <1>4 DEF Above

\* An innermost frame for a call belongs to a decorated function.
LEMMA Asked ==
  ASSUME TypeInv, StackInv, PurposeInv, NEW t \in Threads, stack[t] # <<>>,
         stack[t][1].step \in {"result", "template"}
  PROVE  ForCall(stack[t][1])
<1>1. stack[t][1].step \notin CompileSteps /\ stack[t][1].step # "decorate"
  BY DEF CompileSteps
<1>2. \/ stack[t][1] \in Bottom(t)
      \/ <<stack[t][1], stack[t][2]>> \in Above
  BY Purpose
<1>3. stack[t][1] \in Bottom(t) => ForCall(stack[t][1])
  BY <1>1 DEF Bottom, ForStatement
<1>4. <<stack[t][1], stack[t][2]>> \in Above => ForCall(stack[t][1])
  BY <1>1 DEF Above, ForBody, ForDecorator
<1> QED
  BY <1>2, <1>3, <1>4

\* What an innermost frame works for is bound.
LEMMA BoundTop ==
  ASSUME TypeInv, StackInv, PurposeInv, NEW t \in Threads, stack[t] # <<>>,
         stack[t][1].step # "decorate" \/ Sigs[stack[t][1].fn] # <<>>
  PROVE  Bound(stack[t][1].fn)
<1>1. \/ stack[t][1] \in Bottom(t)
      \/ <<stack[t][1], stack[t][2]>> \in Above
  BY Purpose
<1>2. stack[t][1] \in Bottom(t) => Bound(stack[t][1].fn)
  BY DEF Bottom, ForStatement, ForCall
<1>3. <<stack[t][1], stack[t][2]>> \in Above => Bound(stack[t][1].fn)
  BY DEF Above, ForBody, ForDecorator, ForCall
<1> QED
  BY <1>1, <1>2, <1>3

----------------------------------------------------------------------------
(* The innermost frames after a step *)

LEMMA StartShape ==
  ASSUME TypeInv, NEW t \in Threads, Start(t)
  PROVE  LET s == Program[t][pc[t]]
         IN  /\ stack[t] = <<>> /\ pc[t] \in 1 .. Len(Program[t])
             /\ pc' = [pc EXCEPT ![t] = pc[t] + 1]
             /\ s.fn \in Functions /\ s.args \in ArgLists /\ s.op \in {"decorate", "call"}
             /\ \E x \in Frames :
                  /\ stack' = [stack EXCEPT ![t] = <<x>>]
                  /\ x.fn = s.fn /\ x.args = s.args /\ x.n = 1 /\ x.sigs = <<>>
                  /\ x.step = IF s.op = "decorate" THEN "decorate" ELSE "result"
<1> DEFINE s == Program[t][pc[t]]
           p == IF s.op = "decorate" THEN "decorate" ELSE "result"
           x == Frame(p, s.fn, s.args)
<1>1. /\ stack[t] = <<>> /\ pc[t] <= Len(Program[t])
      /\ stack' = [stack EXCEPT ![t] = <<x>>] /\ pc' = [pc EXCEPT ![t] = pc[t] + 1]
  BY DEF Start
<1>2. pc[t] \in 1 .. Len(Program[t])
  BY <1>1, ProgramAssumption DEF TypeInv
<1>3. s.fn \in Functions /\ s.args \in ArgLists
  BY <1>2, Arguments
<1>4. s.op \in {"decorate", "call"}
  BY <1>2, ProgramAssumption
<1>5. p \in Steps /\ p = IF s.op = "decorate" THEN "decorate" ELSE "result"
  BY DEF Steps
<1> HIDE DEF p
<1>6. /\ x \in Frames /\ x.step = p /\ x.fn = s.fn /\ x.args = s.args
      /\ x.n = 1 /\ x.sigs = <<>>
  BY <1>3, <1>5, NewFrame
<1> HIDE DEF x
<1> QED
  BY <1>1, <1>2, <1>3, <1>4, <1>5, <1>6

LEMMA DecorateShape ==
  ASSUME TypeInv, StackInv, NEW t \in Threads, DecorateSig(t)
  PROVE  LET d == stack[t][1]
         IN  /\ stack[t] # <<>> /\ d \in Frames /\ d.step = "decorate" /\ ret[t] = "ok"
             /\ d.n \in 1 .. Len(Sigs[d.fn])
             /\ \E x, y \in Frames :
                  /\ stack' = [stack EXCEPT ![t] = <<x, y>> \o Tail(stack[t])]
                  /\ x.step = "acquire" /\ x.fn = d.fn /\ x.args = Sigs[d.fn][d.n]
                  /\ x.n = 1 /\ x.sigs = <<>>
                  /\ y.step = "decorate" /\ y.fn = d.fn /\ y.args = d.args
                  /\ y.n = d.n + 1 /\ y.sigs = d.sigs
<1> DEFINE d == stack[t][1]
           x == Frame("acquire", d.fn, Sigs[d.fn][d.n])
           y == [d EXCEPT !.n = @ + 1]
<1>1. /\ At(t, "decorate") /\ ret[t] = "ok" /\ d.n <= Len(Sigs[d.fn])
      /\ stack' = [stack EXCEPT ![t] = <<x, y>> \o Tail(stack[t])]
  BY DEF DecorateSig, Push, Top
<1>2. /\ stack[t] # <<>> /\ d \in Frames /\ d.step = "decorate" /\ d.fn \in Functions
      /\ d.n \in Nat \ {0}
  BY <1>1, Innermost
<1>3. d.n \in 1 .. Len(Sigs[d.fn])
  BY <1>1, <1>2, ProgramAssumption
<1>4. Sigs[d.fn][d.n] \in ArgLists
  BY <1>2, <1>3, Arguments
<1> HIDE DEF d
<1>5. /\ y \in Frames /\ y.step = "decorate" /\ y.fn = d.fn /\ y.args = d.args
      /\ y.n = d.n + 1 /\ y.sigs = d.sigs
  BY <1>2 DEF Frames
<1> HIDE DEF y
<1>6. /\ x \in Frames /\ x.step = "acquire" /\ x.fn = d.fn /\ x.args = Sigs[d.fn][d.n]
      /\ x.n = 1 /\ x.sigs = <<>>
  BY <1>2, <1>4, NewFrame DEF Steps
<1> HIDE DEF x
<1> QED
  BY <1>1, <1>2, <1>3, <1>5, <1>6 DEF d

LEMMA TypeCallShape ==
  ASSUME TypeInv, StackInv, NEW t \in Threads, TypeCall(t)
  PROVE  LET d == stack[t][1]
             call == Body[d.fn][d.args][d.n]
         IN  /\ stack[t] # <<>> /\ d \in Frames /\ d.step = "body"
             /\ d.args \in DOMAIN Body[d.fn] /\ d.n \in 1 .. Len(Body[d.fn][d.args])
             /\ call \in CallsOf(d.fn) /\ call.fn \in Functions /\ call.args \in ArgLists
             /\ \E x, y \in Frames :
                  /\ stack' = [stack EXCEPT ![t] = <<x, y>> \o Tail(stack[t])]
                  /\ x.step = StepOf(d.fn, call.fn) /\ x.fn = call.fn /\ x.args = call.args
                  /\ x.n = 1 /\ x.sigs = <<>>
                  /\ y.step = "resolve" /\ y.fn = d.fn /\ y.args = d.args
                  /\ y.n = d.n /\ y.sigs = d.sigs /\ y.id = d.id
<1> DEFINE d == stack[t][1]
           call == Body[d.fn][d.args][d.n]
           p == StepOf(d.fn, call.fn)
           x == Frame(p, call.fn, call.args)
           y == [d EXCEPT !.step = "resolve"]
<1>1. /\ At(t, "body") /\ HasBody(d.fn, d.args) /\ d.n <= Len(Body[d.fn][d.args])
      /\ stack' = [stack EXCEPT ![t] = <<x, y>> \o Tail(stack[t])]
  BY Zenon DEF TypeCall, Push, Top, StepOf
<1>2. /\ stack[t] # <<>> /\ d \in Frames /\ d.step = "body" /\ d.fn \in Functions
      /\ d.n \in Nat \ {0}
  <2> HIDE DEF call, p, x, y
  <2> QED
    BY <1>1, Innermost
<1>3. d.args \in DOMAIN Body[d.fn] /\ d.n \in 1 .. Len(Body[d.fn][d.args])
  <2>1. d.args \in DOMAIN Body[d.fn]
    BY <1>1, Zenon DEF HasBody
  <2>2. Len(Body[d.fn][d.args]) \in Nat
    BY <1>2, <2>1, ProgramAssumption
  <2>3. d.n \in Nat \ {0} /\ d.n <= Len(Body[d.fn][d.args])
    BY <1>1, <1>2, Zenon
  <2> QED
    BY <2>1, <2>2, <2>3, InRange, Zenon
<1>4. call.fn \in Functions /\ call.args \in ArgLists
  BY <1>2, <1>3, Arguments
<1>5. call \in CallsOf(d.fn)
  <2>1. DOMAIN Body[d.fn][d.args] = 1 .. Len(Body[d.fn][d.args])
    BY <1>2, <1>3, ProgramAssumption
  <2> QED
    BY <1>2, <1>3, <2>1, MeantArguments
<1>6. p \in Steps
  BY DEF Steps, StepOf
<1>7. /\ y \in Frames /\ y.step = "resolve" /\ y.fn = d.fn /\ y.args = d.args /\ y.n = d.n
      /\ y.sigs = d.sigs /\ y.id = d.id
  BY <1>2, FrameUpdates, ZenonT(60) DEF Steps
<1> HIDE DEF p, y, d, call
<1>8. /\ x \in Frames /\ x.step = p /\ x.fn = call.fn /\ x.args = call.args
      /\ x.n = 1 /\ x.sigs = <<>>
  BY <1>4, <1>6, NewFrame
<1> HIDE DEF x
<1> QED
  BY <1>1, <1>2, <1>3, <1>4, <1>5, <1>7, <1>8, Zenon DEF d, call, p

\* The innermost frame goes on.
GoesOn(t, p) ==
  /\ stack[t] # <<>> /\ stack[t][1] \in Frames
  /\ \E x \in Frames :
       /\ stack' = [stack EXCEPT ![t] = <<x>> \o Tail(stack[t])]
       /\ x.step = p /\ x.fn = stack[t][1].fn /\ x.args = stack[t][1].args
       /\ x.n = stack[t][1].n /\ x.sigs = stack[t][1].sigs
       /\ p # "body" => x.id = stack[t][1].id
Ends(t) ==
  /\ stack[t] # <<>> /\ stack[t][1] \in Frames
  /\ stack' = [stack EXCEPT ![t] = Tail(stack[t])]

LEMMA StepShape ==
  ASSUME TypeInv, StackInv, NEW t \in Threads, NEW p \in Steps, NEW q \in Steps, At(t, q),
         Become(t, [Top(t) EXCEPT !.step = p])
  PROVE  GoesOn(t, p) /\ stack[t][1].step = q
<1> DEFINE d == stack[t][1]
           x == [d EXCEPT !.step = p]
<1>1. stack[t] # <<>> /\ d \in Frames /\ d.step = q
  BY Innermost
<1>2. stack' = [stack EXCEPT ![t] = <<x>> \o Tail(stack[t])]
  BY DEF Become, Top
<1> HIDE DEF d
<1>3. /\ x \in Frames /\ x.step = p /\ x.fn = d.fn /\ x.args = d.args /\ x.n = d.n
      /\ x.sigs = d.sigs /\ x.id = d.id
  BY <1>1, FrameUpdates, ZenonT(60)
<1> HIDE DEF x
<1> QED
  BY <1>1, <1>2, <1>3 DEF GoesOn, d

LEMMA ReturnShape ==
  ASSUME TypeInv, StackInv, NEW t \in Threads, NEW q \in Steps, At(t, q), NEW how, Return(t, how)
  PROVE  Ends(t) /\ stack[t][1].step = q /\ ret' = [ret EXCEPT ![t] = how]
<1>1. stack[t] # <<>> /\ stack[t][1] \in Frames /\ stack[t][1].step = q
  BY Innermost
<1>2. stack' = [stack EXCEPT ![t] = Tail(stack[t])] /\ ret' = [ret EXCEPT ![t] = how]
  BY DEF Return
<1> QED
  BY <1>1, <1>2 DEF Ends

LEMMA CheckShape ==
  ASSUME TypeInv, StackInv, NEW t \in Threads, Check(t)
  PROVE  LET d == stack[t][1]
             refusal == Refusal(d.fn, d.args)
         IN  /\ stack[t] # <<>> /\ d \in Frames /\ d.step = "check"
             /\ \/ /\ refusal = "none" /\ d.args \notin DOMAIN overloads[d.fn]
                   /\ d.args \notin failed[d.fn] /\ GoesOn(t, "body") /\ ids' = ids + 1
                   /\ stack'[t][1].id = ids /\ ret' = ret
                \/ /\ Ends(t) /\ ids' = ids
                   /\ ret' = [ret EXCEPT ![t] =
                        IF refusal # "none" THEN refusal
                        ELSE IF d.args \in DOMAIN overloads[d.fn] THEN "ok"
                        ELSE "TypingError"]
                   /\ refusal = "none" /\ d.args \notin DOMAIN overloads[d.fn]
                        => d.args \in failed[d.fn]
<1> DEFINE d == stack[t][1]
           refusal == Refusal(d.fn, d.args)
           how == IF refusal # "none" THEN refusal
                  ELSE IF d.args \in DOMAIN overloads[d.fn] THEN "ok"
                  ELSE IF d.args \in failed[d.fn] THEN "TypingError"
                  ELSE "compile"
           x == [d EXCEPT !.step = "body", !.id = ids]
<1>1. /\ At(t, "check")
      /\ IF how = "compile"
         THEN /\ stack' = [stack EXCEPT ![t] = <<x>> \o Tail(stack[t])]
              /\ ids' = ids + 1 /\ ret' = ret
         ELSE Return(t, how) /\ ids' = ids
  BY DEF Check, Top, Existing, Become
<1>2. /\ stack[t] # <<>> /\ d \in Frames /\ d.step = "check"
  <2> HIDE DEF how, refusal, x
  <2> QED
    BY <1>1, Innermost
<1>3. CASE how = "compile"
  <2>1. refusal = "none" /\ d.args \notin DOMAIN overloads[d.fn] /\ d.args \notin failed[d.fn]
    <3>1. refusal # "compile"
      BY DEF Refusal, ArgumentError
    <3> HIDE DEF refusal
    <3> QED
      BY <1>3, <3>1
  <2>2. stack' = [stack EXCEPT ![t] = <<x>> \o Tail(stack[t])] /\ ids' = ids + 1 /\ ret' = ret
    BY <1>1, <1>3
  <2>3. ids \in Nat /\ stack \in [Threads -> Seq(Frames)]
    BY DEF TypeInv
  <2> HIDE DEF how, refusal, d
  <2>4. /\ x \in Frames /\ x.step = "body" /\ x.fn = d.fn /\ x.args = d.args /\ x.n = d.n
        /\ x.sigs = d.sigs /\ x.id = ids
    BY <1>2, <2>3, FrameUpdates, ZenonT(60)
  <2> HIDE DEF x
  <2>5. Tail(stack[t]) \in Seq(Frames)
    BY <1>2, <2>3, SeqFacts
  <2>6. stack'[t][1] = x
    BY <2>2, <2>3, <2>4, <2>5, Cons
  <2>7. GoesOn(t, "body")
    BY <1>2, <2>2, <2>4 DEF GoesOn, d
  <2> QED
    BY <1>2, <2>1, <2>2, <2>4, <2>6, <2>7 DEF d, refusal
<1>4. CASE how # "compile"
  <2>1. Return(t, how) /\ ids' = ids
    BY <1>1, <1>4
  <2>2. how = IF refusal # "none" THEN refusal
              ELSE IF d.args \in DOMAIN overloads[d.fn] THEN "ok"
              ELSE "TypingError"
    BY <1>4
  <2>3. refusal = "none" /\ d.args \notin DOMAIN overloads[d.fn] => d.args \in failed[d.fn]
    BY <1>4
  <2> HIDE DEF how, refusal, d, x
  <2>4. Ends(t) /\ ret' = [ret EXCEPT ![t] = how]
    BY <1>1, <2>1, ReturnShape DEF Steps
  <2> QED
    BY <1>2, <2>1, <2>2, <2>3, <2>4 DEF d, refusal
<1> QED
  BY <1>3, <1>4

LEMMA ResolveShape ==
  ASSUME TypeInv, StackInv, NEW t \in Threads, Resolve(t)
  PROVE  LET d == stack[t][1]
             call == CallOf(d)
         IN  /\ stack[t] # <<>> /\ d \in Frames /\ d.step = "resolve"
             /\ d.args \in DOMAIN Body[d.fn] /\ d.n \in 1 .. Len(Body[d.fn][d.args])
             /\ call \in CallsOf(d.fn) /\ call.fn \in Functions /\ call.args \in ArgLists
             /\ \/ /\ ret[t] # "ok" \/ Best(call.fn, call.args) = {}
                   /\ Fail(t) /\ Ends(t) /\ ret' = [ret EXCEPT ![t] = "TypingError"]
                \/ /\ ret[t] = "ok" /\ failed' = failed /\ ret' = ret
                   /\ \E s \in Best(call.fn, call.args) : \E x \in Frames :
                        /\ stack' = [stack EXCEPT ![t] = <<x>> \o Tail(stack[t])]
                        /\ x.step = "body" /\ x.fn = d.fn /\ x.args = d.args
                        /\ x.n = d.n + 1 /\ x.sigs = Append(d.sigs, s) /\ x.id = d.id
<1> DEFINE d == stack[t][1]
           call == CallOf(d)
           best == Best(call.fn, call.args)
<1>1. /\ At(t, "resolve")
      /\ IF ret[t] # "ok" \/ best = {}
         THEN Fail(t)
         ELSE /\ \E s \in best :
                   Become(t, [d EXCEPT !.step = "body", !.n = @ + 1, !.sigs = Append(@, s)])
              /\ failed' = failed /\ ret' = ret
  BY Zenon DEF Resolve, Top, Best, CallOf
<1>2. /\ stack[t] # <<>> /\ d \in Frames /\ d.step = "resolve" /\ d.fn \in Functions
      /\ d.n \in Nat \ {0} /\ FrameInv(stack[t], 1)
  <2>1. At(t, "resolve")
    BY <1>1, Zenon
  <2> HIDE DEF best, call
  <2> QED
    BY <2>1, Innermost
<1>3. d.args \in DOMAIN Body[d.fn] /\ d.n \in 1 .. Len(Body[d.fn][d.args])
  <2>1. d.args \in DOMAIN Body[d.fn] /\ d.n <= Len(Body[d.fn][d.args])
    BY <1>2 DEF FrameInv, HasBody
  <2>2. Len(Body[d.fn][d.args]) \in Nat
    BY <1>2, <2>1, ProgramAssumption
  <2> HIDE DEF d
  <2> QED
    BY <1>2, <2>1, <2>2, InRange, Zenon
<1>4. call.fn \in Functions /\ call.args \in ArgLists /\ call \in CallsOf(d.fn)
  <2>1. DOMAIN Body[d.fn][d.args] = 1 .. Len(Body[d.fn][d.args])
    BY <1>2, <1>3, ProgramAssumption
  <2> QED
    BY <1>2, <1>3, <2>1, Arguments, MeantArguments, Zenon DEF CallOf
<1>5. CASE ret[t] # "ok" \/ best = {}
  <2>1. Fail(t)
    BY <1>1, <1>5, Zenon
  <2>2. Return(t, "TypingError")
    BY <2>1 DEF Fail
  <2> HIDE DEF d, best, call
  <2>3. Ends(t) /\ ret' = [ret EXCEPT ![t] = "TypingError"]
    BY <1>1, <2>2, ReturnShape, Zenon DEF Steps
  <2> QED
    BY <1>2, <1>3, <1>4, <1>5, <2>1, <2>3 DEF d, best, call
<1>6. CASE ~(ret[t] # "ok" \/ best = {})
  <2>1. ret[t] = "ok" /\ failed' = failed /\ ret' = ret
    BY <1>1, <1>6, Zenon
  <2>2. PICK s \in best :
          Become(t, [d EXCEPT !.step = "body", !.n = @ + 1, !.sigs = Append(@, s)])
    BY <1>1, <1>6, Zenon
  <2> DEFINE x == [d EXCEPT !.step = "body", !.n = @ + 1, !.sigs = Append(@, s)]
  <2>3. stack' = [stack EXCEPT ![t] = <<x>> \o Tail(stack[t])]
    BY <2>2 DEF Become
  <2>4. s \in ArgLists
    BY <1>4, <2>2 DEF Best, TypeInv
  <2> HIDE DEF d, best, call
  <2>5. /\ x \in Frames /\ x.step = "body" /\ x.fn = d.fn /\ x.args = d.args
        /\ x.n = d.n + 1 /\ x.sigs = Append(d.sigs, s) /\ x.id = d.id
    BY <1>2, <2>4, FrameUpdates, ZenonT(60)
  <2> HIDE DEF x
  <2> QED
    BY <1>2, <1>3, <1>4, <2>1, <2>2, <2>3, <2>5 DEF d, best, call
<1> QED
  BY <1>5, <1>6, Zenon

\* The other steps.
LEMMA LookupShape ==
  ASSUME TypeInv, StackInv, NEW t \in Threads
  PROVE  LET d == stack[t][1]
         IN  /\ Result(t) =>
                  /\ stack[t] # <<>> /\ d.step = "result"
                  /\ \/ /\ d.args \in DOMAIN overloads[d.fn]
                        /\ Ends(t) /\ ret' = [ret EXCEPT ![t] = "ok"]
                     \/ can_compile[d.fn] /\ GoesOn(t, "acquire") /\ ret' = ret
                     \/ /\ ~can_compile[d.fn] /\ d.args \notin DOMAIN overloads[d.fn]
                        /\ Ends(t) /\ ret' = [ret EXCEPT ![t] = "TypingError"]
             /\ Template(t) =>
                  /\ stack[t] # <<>> /\ d.step = "template"
                  /\ \/ can_compile[d.fn] /\ GoesOn(t, "acquire") /\ ret' = ret
                     \/ /\ ~can_compile[d.fn]
                        /\ Ends(t) /\ ret' = [ret EXCEPT ![t] = "ok"]
             /\ Acquire(t) => stack[t] # <<>> /\ d.step = "acquire" /\ GoesOn(t, "check")
<1>0. "result" \in Steps /\ "template" \in Steps /\ "acquire" \in Steps /\ "check" \in Steps
  BY DEF Steps
<1>1. ASSUME Result(t)
      PROVE  /\ stack[t] # <<>> /\ stack[t][1].step = "result"
             /\ \/ /\ stack[t][1].args \in DOMAIN overloads[stack[t][1].fn]
                   /\ Ends(t) /\ ret' = [ret EXCEPT ![t] = "ok"]
                \/ can_compile[stack[t][1].fn] /\ GoesOn(t, "acquire") /\ ret' = ret
                \/ /\ ~can_compile[stack[t][1].fn]
                   /\ stack[t][1].args \notin DOMAIN overloads[stack[t][1].fn]
                   /\ Ends(t) /\ ret' = [ret EXCEPT ![t] = "TypingError"]
  <2>1. /\ At(t, "result")
        /\ \/ stack[t][1].args \in DOMAIN overloads[stack[t][1].fn] /\ Return(t, "ok")
           \/ /\ can_compile[stack[t][1].fn] /\ ret' = ret
              /\ Become(t, [Top(t) EXCEPT !.step = "acquire"])
           \/ /\ ~can_compile[stack[t][1].fn]
              /\ stack[t][1].args \notin DOMAIN overloads[stack[t][1].fn]
              /\ Return(t, "TypingError")
    BY <1>1 DEF Result, Top
  <2>2. stack[t] # <<>> /\ stack[t][1].step = "result"
    BY <2>1, Innermost
  <2> QED
    BY <1>0, <2>1, <2>2, StepShape, ReturnShape
<1>2. ASSUME Template(t)
      PROVE  /\ stack[t] # <<>> /\ stack[t][1].step = "template"
             /\ \/ can_compile[stack[t][1].fn] /\ GoesOn(t, "acquire") /\ ret' = ret
                \/ /\ ~can_compile[stack[t][1].fn]
                   /\ Ends(t) /\ ret' = [ret EXCEPT ![t] = "ok"]
  <2>1. /\ At(t, "template")
        /\ \/ /\ can_compile[stack[t][1].fn] /\ ret' = ret
              /\ Become(t, [Top(t) EXCEPT !.step = "acquire"])
           \/ ~can_compile[stack[t][1].fn] /\ Return(t, "ok")
    BY <1>2 DEF Template, Top
  <2>2. stack[t] # <<>> /\ stack[t][1].step = "template"
    BY <2>1, Innermost
  <2> QED
    BY <1>0, <2>1, <2>2, StepShape, ReturnShape
<1>3. ASSUME Acquire(t) PROVE GoesOn(t, "check") /\ stack[t][1].step = "acquire" /\ stack[t] # <<>>
  <2>1. At(t, "acquire") /\ Become(t, [Top(t) EXCEPT !.step = "check"])
    BY <1>3 DEF Acquire
  <2>2. GoesOn(t, "check") /\ stack[t][1].step = "acquire"
    BY <1>0, <2>1, StepShape
  <2> QED
    BY <2>2 DEF GoesOn
<1> QED
  BY <1>1, <1>2, <1>3

LEMMA EndShape ==
  ASSUME TypeInv, StackInv, NEW t \in Threads
  PROVE  LET d == stack[t][1]
         IN  /\ Decorated(t) => /\ Ends(t) /\ d.step = "decorate" /\ ret[t] = "ok"
                                /\ d.n > Len(Sigs[d.fn]) /\ ret' = [ret EXCEPT ![t] = "ok"]
             /\ DecorateFails(t) => /\ Ends(t) /\ d.step = "decorate" /\ ret[t] # "ok"
                                    /\ ret' = [ret EXCEPT ![t] = ret[t]]
             /\ BodyFails(t) => /\ Ends(t) /\ d.step = "body" /\ ~HasBody(d.fn, d.args)
                                /\ Fail(t) /\ ret' = [ret EXCEPT ![t] = "TypingError"]
             /\ Finish(t) =>
                  /\ Ends(t) /\ d.step = "body" /\ HasBody(d.fn, d.args)
                  /\ d.n > Len(Body[d.fn][d.args])
                  /\ IF Kind[d.fn] = "KERNEL" /\ d.fn \in Returns
                     THEN /\ overloads' = overloads /\ defns' = defns
                          /\ ret' = [ret EXCEPT ![t] = "KernelHasReturnValueError"]
                     ELSE AddOverload(d) /\ ret' = [ret EXCEPT ![t] = "ok"]
<1>0. "decorate" \in Steps /\ "body" \in Steps
  BY DEF Steps
<1>1. ASSUME Decorated(t)
      PROVE  /\ Ends(t) /\ stack[t][1].step = "decorate" /\ ret[t] = "ok"
             /\ stack[t][1].n > Len(Sigs[stack[t][1].fn]) /\ ret' = [ret EXCEPT ![t] = "ok"]
  <2>1. /\ At(t, "decorate") /\ ret[t] = "ok" /\ Return(t, "ok")
        /\ stack[t][1].n > Len(Sigs[stack[t][1].fn])
    BY <1>1 DEF Decorated, Top
  <2> QED
    BY <1>0, <2>1, ReturnShape
<1>2. ASSUME DecorateFails(t)
      PROVE  /\ Ends(t) /\ stack[t][1].step = "decorate" /\ ret[t] # "ok"
             /\ ret' = [ret EXCEPT ![t] = ret[t]]
  <2>1. At(t, "decorate") /\ ret[t] # "ok" /\ Return(t, ret[t])
    BY <1>2 DEF DecorateFails
  <2> QED
    BY <1>0, <2>1, ReturnShape
<1>3. ASSUME BodyFails(t)
      PROVE  /\ Ends(t) /\ stack[t][1].step = "body"
             /\ ~HasBody(stack[t][1].fn, stack[t][1].args)
             /\ Fail(t) /\ ret' = [ret EXCEPT ![t] = "TypingError"]
  <2>1. /\ At(t, "body") /\ Fail(t) /\ Return(t, "TypingError")
        /\ ~HasBody(stack[t][1].fn, stack[t][1].args)
    BY <1>3 DEF BodyFails, Fail, Top
  <2> QED
    BY <1>0, <2>1, ReturnShape
<1>4. ASSUME Finish(t)
      PROVE  LET d == stack[t][1]
             IN  /\ Ends(t) /\ d.step = "body" /\ HasBody(d.fn, d.args)
                 /\ d.n > Len(Body[d.fn][d.args])
                 /\ IF Kind[d.fn] = "KERNEL" /\ d.fn \in Returns
                    THEN /\ overloads' = overloads /\ defns' = defns
                         /\ ret' = [ret EXCEPT ![t] = "KernelHasReturnValueError"]
                    ELSE AddOverload(d) /\ ret' = [ret EXCEPT ![t] = "ok"]
  <2> DEFINE d == stack[t][1]
  <2>1. /\ At(t, "body") /\ HasBody(d.fn, d.args) /\ d.n > Len(Body[d.fn][d.args])
        /\ IF Kind[d.fn] = "KERNEL" /\ d.fn \in Returns
           THEN overloads' = overloads /\ defns' = defns /\ Return(t, "KernelHasReturnValueError")
           ELSE AddOverload(d) /\ Return(t, "ok")
    BY <1>4 DEF Finish, Top
  <2>2. CASE Kind[d.fn] = "KERNEL" /\ d.fn \in Returns
    <3>1. Return(t, "KernelHasReturnValueError")
      BY <2>1, <2>2
    <3>2. /\ Ends(t) /\ stack[t][1].step = "body"
          /\ ret' = [ret EXCEPT ![t] = "KernelHasReturnValueError"]
      BY <1>0, <2>1, <3>1, ReturnShape
    <3> QED
      BY <2>1, <2>2, <3>2
  <2>3. CASE ~(Kind[d.fn] = "KERNEL" /\ d.fn \in Returns)
    <3>1. Return(t, "ok") /\ AddOverload(d)
      BY <2>1, <2>3
    <3>2. /\ Ends(t) /\ stack[t][1].step = "body" /\ ret' = [ret EXCEPT ![t] = "ok"]
      BY <1>0, <2>1, <3>1, ReturnShape
    <3> QED
      BY <2>1, <2>3, <3>1, <3>2
  <2> QED
    BY <2>2, <2>3
<1> QED
  BY <1>1, <1>2, <1>3, <1>4

----------------------------------------------------------------------------
(* Every frame has its purpose *)

PurposeOf(t) == Stacked(stack'[t], Above, Bottom(t))

LEMMA EndsPurpose ==
  ASSUME TypeInv, StackInv, PurposeInv, NEW t \in Threads, Ends(t)
  PROVE  PurposeOf(t)
<1>1. stack[t] \in Seq(Frames) /\ stack[t] # <<>> /\ stack'[t] = Tail(stack[t])
  BY DEF TypeInv, Ends
<1> QED
  BY <1>1, StackedTail DEF PurposeInv, PurposeOf

LEMMA StandsPurpose ==
  ASSUME TypeInv, StackInv, PurposeInv, NEW t \in Threads, stack[t] # <<>>,
         NEW x \in Frames, stack' = [stack EXCEPT ![t] = <<x>> \o Tail(stack[t])],
         x.fn = stack[t][1].fn, x.args = stack[t][1].args, x.step \in CompileSteps,
         \/ stack[t][1].step \in CompileSteps
         \/ Sigs[stack[t][1].fn] = <<>> /\ stack[t][1].step \in {"result", "template"}
  PROVE  PurposeOf(t)
<1>1. /\ stack[t] \in Seq(Frames) /\ stack[t][1] \in Frames
      /\ stack'[t] = <<x>> \o Tail(stack[t])
  BY SeqFacts DEF TypeInv
<1>2. Stands(x, stack[t][1], Above, Bottom(t))
  BY <1>1, SamePurpose
<1> QED
  BY <1>1, <1>2, StackedBecome DEF PurposeInv, PurposeOf

LEMMA GoesOnPurpose ==
  ASSUME TypeInv, StackInv, PurposeInv, NEW t \in Threads, NEW p \in CompileSteps, GoesOn(t, p),
         \/ stack[t][1].step \in CompileSteps
         \/ Sigs[stack[t][1].fn] = <<>> /\ stack[t][1].step \in {"result", "template"}
  PROVE  PurposeOf(t)
BY StandsPurpose DEF GoesOn

\* Versions are compiled on demand only of functions without signatures.
LEMMA OnDemand ==
  ASSUME TypeInv, StackInv, PurposeInv, DecoratedInv, NEW t \in Threads, stack[t] # <<>>,
         stack[t][1].step \in {"result", "template"}
  PROVE  /\ stack[t][1].fn \in Functions
         /\ can_compile[stack[t][1].fn] <=> Sigs[stack[t][1].fn] = <<>>
<1>1. stack[t][1].fn \in decorated
  BY Asked DEF ForCall
<1> QED
  BY <1>1 DEF DecoratedInv

LEMMA DecoratePurpose ==
  ASSUME TypeInv, StackInv, PurposeInv, NEW t \in Threads, DecorateSig(t)
  PROVE  PurposeOf(t)
<1> DEFINE d == stack[t][1]
<1>1. /\ stack[t] # <<>> /\ d \in Frames /\ d.step = "decorate" /\ d.n \in 1 .. Len(Sigs[d.fn])
      /\ d.fn \in Functions
  BY DecorateShape DEF Frames
<1>2. PICK x \in Frames, y \in Frames :
        /\ stack' = [stack EXCEPT ![t] = <<x, y>> \o Tail(stack[t])]
        /\ x.step = "acquire" /\ x.fn = d.fn /\ x.args = Sigs[d.fn][d.n]
        /\ x.n = 1 /\ x.sigs = <<>>
        /\ y.step = "decorate" /\ y.fn = d.fn /\ y.args = d.args
        /\ y.n = d.n + 1 /\ y.sigs = d.sigs
  BY DecorateShape
<1>3. Sigs[d.fn] # <<>> /\ Len(Sigs[d.fn]) \in Nat
  <2>1. Len(Sigs[d.fn]) \in Nat
    BY <1>1, ProgramAssumption
  <2>2. Len(Sigs[d.fn]) # 0
    BY <1>1, <2>1
  <2>3. Len(<<>>) = 0
    OBVIOUS
  <2> QED
    BY <2>1, <2>2, <2>3
<1>4. Bound(d.fn)
  BY <1>1, <1>3, BoundTop
<1>5. stack[t] \in Seq(Frames) /\ stack'[t] = <<x, y>> \o Tail(stack[t])
  BY <1>2 DEF TypeInv
<1> HIDE DEF d
<1>6. /\ y.n \in 2 .. Len(Sigs[y.fn]) + 1 /\ y.n - 1 = d.n
  BY <1>1, <1>2, <1>3
<1>7. ForDecorator(x, y)
  BY <1>2, <1>4, <1>6 DEF ForDecorator, CompileSteps
<1>8. <<x, y>> \in Above
  BY <1>7 DEF Above
<1>9. Stands(y, stack[t][1], Above, Bottom(t))
  <2>1. ASSUME NEW z \in Frames PROVE <<d, z>> \notin Above
    BY <1>1 DEF Above, ForDecorator, ForBody, ForCall, CompileSteps
  <2>2. d \in Bottom(t) => y \in Bottom(t)
    BY <1>1, <1>2 DEF Bottom, ForStatement
  <2> QED
    BY <2>1, <2>2 DEF Stands, d
<1> QED
  BY <1>1, <1>5, <1>8, <1>9, StackedPush DEF PurposeInv, PurposeOf

LEMMA TypeCallPurpose ==
  ASSUME TypeInv, StackInv, PurposeInv, NEW t \in Threads, TypeCall(t)
  PROVE  PurposeOf(t)
<1> DEFINE d == stack[t][1]
           call == Body[d.fn][d.args][d.n]
<1>1. /\ stack[t] # <<>> /\ d \in Frames /\ d.step = "body" /\ call \in CallsOf(d.fn)
  BY TypeCallShape, Zenon
<1>2. PICK x \in Frames, y \in Frames :
        /\ stack' = [stack EXCEPT ![t] = <<x, y>> \o Tail(stack[t])]
        /\ x.step = StepOf(d.fn, call.fn) /\ x.fn = call.fn /\ x.args = call.args
        /\ x.n = 1 /\ x.sigs = <<>>
        /\ y.step = "resolve" /\ y.fn = d.fn /\ y.args = d.args
        /\ y.n = d.n /\ y.sigs = d.sigs /\ y.id = d.id
  BY TypeCallShape, Zenon
<1>3. Bound(d.fn)
  BY <1>1, BoundTop
<1>4. stack[t] \in Seq(Frames) /\ stack'[t] = <<x, y>> \o Tail(stack[t])
  BY <1>2, Zenon DEF TypeInv
<1>5. call = CallOf(y)
  BY <1>2, Zenon DEF CallOf
<1>6. Stands(y, stack[t][1], Above, Bottom(t))
  BY <1>1, <1>2, SamePurpose, Zenon DEF CompileSteps
<1> HIDE DEF d, call
<1>7. PICK D \in SUBSET decorated : \A g \in D \cup {d.fn} : \A c \in CallsOf(g) : c.fn \in D
  BY <1>3 DEF Bound
<1>8. x.fn \in D
  BY <1>1, <1>2, <1>7
<1>9. Bound(x.fn)
  BY <1>7, <1>8 DEF Bound
<1>10. ForCall(x)
  BY <1>2, <1>7, <1>8, <1>9 DEF ForCall, StepOf
<1>11. ForBody(x, y)
  BY <1>2, <1>5, <1>10 DEF ForBody, Due
<1>12. <<x, y>> \in Above
  BY <1>11 DEF Above
<1>13. stack[t] # <<>>
  BY <1>1
<1> QED
  BY <1>4, <1>6, <1>12, <1>13, StackedPush, Zenon DEF PurposeInv, PurposeOf

LEMMA ResolvePurpose ==
  ASSUME TypeInv, StackInv, PurposeInv, NEW t \in Threads, Resolve(t)
  PROVE  PurposeOf(t)
<1>1. stack[t] # <<>> /\ stack[t][1] \in Frames /\ stack[t][1].step = "resolve"
  BY ResolveShape
<1>2. \/ Ends(t)
      \/ \E x \in Frames :
           /\ stack' = [stack EXCEPT ![t] = <<x>> \o Tail(stack[t])]
           /\ x.step = "body" /\ x.fn = stack[t][1].fn /\ x.args = stack[t][1].args
  BY ResolveShape
<1>3. "resolve" \in CompileSteps /\ "body" \in CompileSteps
  BY DEF CompileSteps
<1> QED
  BY <1>1, <1>2, <1>3, EndsPurpose, StandsPurpose

LEMMA StartPurpose ==
  ASSUME TypeInv, NEW t \in Threads, Start(t)
  PROVE  Stacked(stack'[t], Above', Bottom(t)')
<1> DEFINE s == Program[t][pc[t]]
<1>1. /\ stack[t] = <<>> /\ pc[t] \in 1 .. Len(Program[t])
      /\ pc'[t] = pc[t] + 1 /\ decorated' = decorated
      /\ s.fn \in Functions /\ s.args \in ArgLists /\ s.op \in {"decorate", "call"}
      /\ s.op = "call" => Module \cup {s.fn} \subseteq decorated
      /\ s.op = "decorate" /\ Sigs[s.fn] # <<>> => Bound(s.fn)
  BY StartShape DEF Start, TypeInv
<1>2. PICK x \in Frames :
        /\ stack'[t] = <<x>> /\ x.fn = s.fn /\ x.args = s.args
        /\ x.step = IF s.op = "decorate" THEN "decorate" ELSE "result"
  BY StartShape DEF TypeInv
<1>3. Statement(t)' = s /\ pc'[t] > 1
  <2>1. pc'[t] - 1 = pc[t] /\ pc'[t] > 1
    BY <1>1
  <2> QED
    BY <2>1 DEF Statement
<1> HIDE DEF s
<1>4. s.op = "call" => Bound(s.fn)
  <2>1. \A f \in Functions : \A c \in CallsOf(f) : c.fn \in Module
    <3> TAKE f \in Functions
    <3>1. {f} \in (SUBSET Functions) \ {{}}
      OBVIOUS
    <3> QED
      BY <3>1, CallsAreOrdered
  <2>2. Module \subseteq Functions
    BY ProgramAssumption
  <2>3. \A g \in Module \cup {s.fn} : \A c \in CallsOf(g) : c.fn \in Module
    BY <1>1, <2>1, <2>2
  <2> QED
    BY <1>1, <2>3 DEF Bound
<1>5. \A f : Bound(f)' <=> Bound(f)
  BY <1>1 DEF Bound
<1>6. x.step # "decorate" => ForCall(x)' /\ Due(x) = ExpectedOf(s)
  <2> SUFFICES ASSUME x.step # "decorate" PROVE ForCall(x)' /\ Due(x) = ExpectedOf(s)
    OBVIOUS
  <2>1. s.op = "call" /\ x.step = "result"
    BY <1>1, <1>2
  <2>2. ForCall(x)'
    BY <1>1, <1>2, <1>4, <1>5, <2>1 DEF ForCall
  <2>3. Due(x) = ExpectedOf(s)
    BY <1>2, <2>1 DEF Due, Answer, ExpectedOf
  <2> QED
    BY <2>2, <2>3
<1>7. x.step = "decorate" => s.op = "decorate" /\ (Sigs[x.fn] # <<>> => Bound(x.fn)')
  BY <1>1, <1>2, <1>5
<1>8. x.step # "decorate" => s.op = "call"
  BY <1>1, <1>2
<1>9. ForStatement(x, t)'
  BY <1>2, <1>3, <1>6, <1>7, <1>8 DEF ForStatement
<1>10. x \in Bottom(t)'
  BY <1>9 DEF Bottom
<1>11. Len(stack'[t]) = 1 /\ stack'[t][1] = x
  BY <1>2
<1> QED
  BY <1>10, <1>11 DEF Stacked

\* Only the thread's own stack changes, and its statement when it starts one.
LEMMA OtherThreads ==
  ASSUME TypeInv, StackInv, NEW t \in Threads, Step(t)
  PROVE  /\ \A u \in Threads \ {t} : stack'[u] = stack[u] /\ pc'[u] = pc[u] /\ ret'[u] = ret[u]
         /\ ~Start(t) => pc' = pc /\ stack[t] # <<>>
         /\ ~Decorated(t) => decorated' = decorated /\ can_compile' = can_compile
<1>1. \A u \in Threads \ {t} : stack'[u] = stack[u]
  <2>1. PICK new : StepMove(t, new)
    BY StepMoves
  <2> QED
    BY <2>1, Others DEF StepMove
<1>2. pc' = pc \/ pc' = [pc EXCEPT ![t] = @ + 1]
  BY Zenon DEF Step, Start, DecorateSig, Decorated, DecorateFails, Result, Template, Acquire,
         Check, BodyFails, TypeCall, Resolve, Finish
<1>3. ret' = ret \/ \E how : ret' = [ret EXCEPT ![t] = how]
  BY Zenon DEF Step, Start, DecorateSig, Decorated, DecorateFails, Result, Template, Acquire,
         Check, BodyFails, TypeCall, Resolve, Finish, Return, Fail
<1>4. ~Start(t) => pc' = pc /\ stack[t] # <<>>
  BY Zenon DEF Step, DecorateSig, Decorated, DecorateFails, Result, Template, Acquire,
         Check, BodyFails, TypeCall, Resolve, Finish, At
<1>5. ~Decorated(t) => decorated' = decorated /\ can_compile' = can_compile
  BY Zenon DEF Step, Start, DecorateSig, DecorateFails, Result, Template, Acquire,
         Check, BodyFails, TypeCall, Resolve, Finish
<1> QED
  BY <1>1, <1>2, <1>3, <1>4, <1>5 DEF TypeInv

LEMMA PurposeStep ==
  ASSUME TypeInv, StackInv, PurposeInv, DecoratedInv, NEW t \in Threads, Step(t)
  PROVE  PurposeInv'
<1>1. decorated \subseteq decorated'
  BY Zenon DEF Step, Start, DecorateSig, Decorated, DecorateFails, Result, Template, Acquire,
         Check, BodyFails, TypeCall, Resolve, Finish
<1>2. ~Start(t) => PurposeOf(t)
  <2>1. "acquire" \in CompileSteps /\ "check" \in CompileSteps /\ "body" \in CompileSteps
    BY DEF CompileSteps
  <2>2. Result(t) \/ Template(t) => PurposeOf(t)
    <3> SUFFICES ASSUME Result(t) \/ Template(t) PROVE PurposeOf(t)
      OBVIOUS
    <3>1. /\ stack[t] # <<>> /\ stack[t][1].step \in {"result", "template"}
          /\ \/ Ends(t)
             \/ can_compile[stack[t][1].fn] /\ GoesOn(t, "acquire")
      BY LookupShape
    <3>2. can_compile[stack[t][1].fn] => Sigs[stack[t][1].fn] = <<>>
      BY <3>1, OnDemand
    <3> QED
      BY <2>1, <3>1, <3>2, EndsPurpose, GoesOnPurpose
  <2>3. Acquire(t) => PurposeOf(t)
    BY <2>1, LookupShape, GoesOnPurpose
  <2>4. Check(t) => PurposeOf(t)
    <3> SUFFICES ASSUME Check(t) PROVE PurposeOf(t)
      OBVIOUS
    <3>1. stack[t][1].step = "check" /\ (Ends(t) \/ GoesOn(t, "body"))
      BY CheckShape
    <3> QED
      BY <2>1, <3>1, EndsPurpose, GoesOnPurpose
  <2>5. Decorated(t) \/ DecorateFails(t) \/ BodyFails(t) \/ Finish(t) => PurposeOf(t)
    BY EndShape, EndsPurpose
  <2> QED
    BY <2>2, <2>3, <2>4, <2>5, DecoratePurpose, TypeCallPurpose, ResolvePurpose DEF Step
<1>3. Stacked(stack'[t], Above', Bottom(t)')
  <2>1. CASE Start(t)
    BY <2>1, StartPurpose
  <2>2. CASE ~Start(t)
    <3>1. Above \subseteq Above' /\ Bottom(t) \subseteq Bottom(t)'
      BY <1>1, <2>2, OtherThreads, PurposeGrows
    <3>2. Stacked(stack'[t], Above, Bottom(t))
      BY <1>2, <2>2 DEF PurposeOf
    <3>3. PICK R, B : R = Above' /\ B = Bottom(t)'
      OBVIOUS
    <3> QED
      BY <3>1, <3>2, <3>3, StackedMore
  <2> QED
    BY <2>1, <2>2
<1>4. ASSUME NEW u \in Threads, u # t PROVE Stacked(stack'[u], Above', Bottom(u)')
  <2>1. stack'[u] = stack[u] /\ pc'[u] = pc[u]
    BY <1>4, OtherThreads
  <2>2. Above \subseteq Above' /\ Bottom(u) \subseteq Bottom(u)'
    BY <1>1, <2>1, PurposeGrows
  <2>3. Stacked(stack[u], Above, Bottom(u))
    BY DEF PurposeInv
  <2>4. PICK R, B : R = Above' /\ B = Bottom(u)'
    OBVIOUS
  <2> QED
    BY <2>1, <2>2, <2>3, <2>4, StackedMore
<1> QED
  BY <1>3, <1>4 DEF PurposeInv

\* A function is decorated once.
LEMMA DecoratedOnce ==
  ASSUME NEW t \in Threads, NEW n \in 1 .. Len(Program[t]), Program[t][n].op = "decorate",
         NEW u \in Threads, NEW m \in 1 .. Len(Program[u]), Program[u][m].op = "decorate",
         Program[u][m].fn = Program[t][n].fn
  PROVE  u = t /\ m = n
<1>1. n \in DOMAIN Program[t] /\ m \in DOMAIN Program[u]
  BY ProgramAssumption
<1> QED
  BY <1>1, ProgramAssumption

LEMMA StatementThere ==
  ASSUME TypeInv, StackInv, PurposeInv, NEW t \in Threads, stack[t] # <<>>
  PROVE  pc[t] - 1 \in 1 .. Len(Program[t]) /\ pc[t] > 1
<1>1. pc[t] > 1
  BY Purpose
<1>2. pc[t] \in 1 .. Len(Program[t]) + 1 /\ Len(Program[t]) \in Nat
  BY ProgramAssumption DEF TypeInv
<1> QED
  BY <1>1, <1>2

\* What a decorator's frame is at work for.
LEMMA DecoratorTop ==
  ASSUME TypeInv, StackInv, PurposeInv, NEW t \in Threads, stack[t] # <<>>,
         stack[t][1].step = "decorate"
  PROVE  /\ Decorating(t) /\ Statement(t).fn = stack[t][1].fn
         /\ Tail(stack[t]) = <<>> /\ stack[t][1].fn \in Functions
<1>1. Tail(stack[t]) = <<>> /\ stack[t][1] \in Bottom(t)
  BY Purpose
<1>2. stack[t][1] \in Frames
  BY <1>1 DEF Bottom
<1> QED
  BY <1>1, <1>2 DEF Bottom, ForStatement, Decorating, Frames

LEMMA BegunGrows ==
  ASSUME TypeInv, StackInv, NEW t \in Threads, Step(t), NEW f, Begun(f)
  PROVE  Begun(f)'
<1>1. PICK u \in Threads : \E n \in 1 .. pc[u] - 1 :
        Program[u][n].op = "decorate" /\ Program[u][n].fn = f
  BY DEF Begun
<1>2. PICK n \in 1 .. pc[u] - 1 : Program[u][n].op = "decorate" /\ Program[u][n].fn = f
  BY <1>1
<1>3. pc'[u] = pc[u] \/ pc'[u] = pc[u] + 1
  <2>1. u # t => pc'[u] = pc[u]
    BY OtherThreads
  <2>2. ~Start(t) => pc'[u] = pc[u]
    BY OtherThreads
  <2>3. Start(t) /\ u = t => pc'[u] = pc[u] + 1
    BY StartShape DEF TypeInv
  <2> QED
    BY <2>1, <2>2, <2>3
<1>4. n \in 1 .. pc'[u] - 1
  <2>1. pc[u] \in Nat
    BY DEF TypeInv
  <2> QED
    BY <1>3, <2>1
<1> QED
  BY <1>2, <1>4 DEF Begun

LEMMA DecoratedStep ==
  ASSUME TypeInv, StackInv, PurposeInv, DecoratedInv, NEW t \in Threads, Step(t)
  PROVE  DecoratedInv'
<1>1. \A f \in decorated : Begun(f)'
  BY BegunGrows DEF DecoratedInv
<1>2. CASE Decorated(t)
  <2>0. PICK f : f = stack[t][1].fn
    OBVIOUS
  <2>1. /\ Ends(t) /\ stack[t][1].step = "decorate" /\ stack[t] # <<>>
    BY <1>2, EndShape DEF Ends
  <2>2. /\ Decorating(t) /\ Statement(t).fn = f /\ Tail(stack[t]) = <<>> /\ f \in Functions
    BY <2>0, <2>1, DecoratorTop
  <2>3. /\ decorated' = decorated \cup {f} /\ pc' = pc
        /\ can_compile' = [can_compile EXCEPT ![f] = @ /\ Sigs[f] = <<>>]
    BY <1>2, <2>0 DEF Decorated, DisableCompile, Top
  <2>4. pc[t] - 1 \in 1 .. Len(Program[t]) /\ pc[t] > 1 /\ pc[t] \in Nat
    BY <2>1, StatementThere DEF TypeInv
  <2>5. Begun(f)'
    <3>1. pc[t] - 1 \in 1 .. pc'[t] - 1
      BY <2>3, <2>4
    <3>2. Program[t][pc[t] - 1].op = "decorate" /\ Program[t][pc[t] - 1].fn = f
      BY <2>2 DEF Decorating, Statement
    <3> QED
      BY <3>1, <3>2 DEF Begun
  <2>6. \A g \in Functions : can_compile'[g] = (g \notin decorated' \/ Sigs[g] = <<>>)
    <3> TAKE g \in Functions
    <3>1. CASE g = f
      BY <2>2, <2>3, <3>1 DEF DecoratedInv, TypeInv
    <3>2. CASE g # f
      BY <2>2, <2>3, <3>2 DEF DecoratedInv, TypeInv
    <3> QED
      BY <3>1, <3>2
  <2>7. ASSUME NEW u \in Threads, Decorating(u)' PROVE Statement(u)'.fn \notin decorated'
    <3>1. u # t
      <4>1. stack'[t] = <<>>
        BY <2>1, <2>2 DEF Ends, TypeInv
      <4> QED
        BY <2>7, <4>1 DEF Decorating
    <3>2. stack'[u] = stack[u] /\ Statement(u)' = Statement(u)
      BY <2>3, <3>1, OtherThreads DEF Statement
    <3>3. Decorating(u)
      BY <2>7, <3>2 DEF Decorating
    <3>4. Statement(u).fn \notin decorated
      BY <3>3 DEF DecoratedInv
    <3>5. Statement(u).fn # f
      <4>1. pc[u] - 1 \in 1 .. Len(Program[u])
        BY <3>3, StatementThere DEF Decorating
      <4>2. Statement(u).op = "decorate" /\ Statement(t).op = "decorate"
        BY <2>2, <3>3 DEF Decorating
      <4> QED
        BY <2>2, <2>4, <3>1, <4>1, <4>2, DecoratedOnce DEF Statement
    <3> QED
      BY <2>3, <3>2, <3>4, <3>5
  <2> QED
    BY <1>1, <2>2, <2>3, <2>5, <2>6, <2>7 DEF DecoratedInv
<1>3. CASE ~Decorated(t)
  <2>1. decorated' = decorated /\ can_compile' = can_compile
    BY <1>3, OtherThreads
  <2>2. ASSUME NEW u \in Threads, Decorating(u)' PROVE Statement(u)'.fn \notin decorated
    <3>1. CASE Start(t) /\ u = t
      <4>1. /\ stack[t] = <<>> /\ pc[t] \in 1 .. Len(Program[t]) /\ pc'[t] = pc[t] + 1
        BY <3>1, StartShape DEF TypeInv
      <4>2. Statement(t)' = Program[t][pc[t]]
        <5>1. pc'[t] - 1 = pc[t]
          BY <4>1
        <5> QED
          BY <5>1 DEF Statement
      <4>3. Program[t][pc[t]].op = "decorate"
        BY <2>2, <3>1, <4>2 DEF Decorating
      <4> DEFINE f == Program[t][pc[t]].fn
      <4>4. ASSUME f \in decorated PROVE FALSE
        <5>1. PICK v \in Threads : \E n \in 1 .. pc[v] - 1 :
                Program[v][n].op = "decorate" /\ Program[v][n].fn = f
          BY <4>4 DEF DecoratedInv, Begun
        <5>2. PICK n \in 1 .. pc[v] - 1 : Program[v][n].op = "decorate" /\ Program[v][n].fn = f
          BY <5>1
        <5>3. n \in 1 .. Len(Program[v])
          <6>1. pc[v] \in 1 .. Len(Program[v]) + 1 /\ Len(Program[v]) \in Nat
            BY ProgramAssumption DEF TypeInv
          <6> QED
            BY <6>1
        <5>4. v = t /\ n = pc[t]
          BY <4>1, <4>3, <5>2, <5>3, DecoratedOnce
        <5>5. pc[t] \in Nat
          BY DEF TypeInv
        <5> QED
          BY <5>4, <5>5
      <4> QED
        BY <3>1, <4>2, <4>4
    <3>2. CASE ~(Start(t) /\ u = t)
      <4>1. Statement(u)' = Statement(u) /\ stack[u] # <<>>
        <5>1. CASE u = t
          BY <3>2, <5>1, OtherThreads DEF Statement
        <5>2. CASE u # t
          BY <2>2, <5>2, OtherThreads DEF Statement, Decorating
        <5> QED
          BY <5>1, <5>2
      <4>2. Decorating(u)
        BY <2>2, <4>1 DEF Decorating
      <4> QED
        BY <4>1, <4>2 DEF DecoratedInv
    <3> QED
      BY <3>1, <3>2
  <2> QED
    BY <1>1, <2>1, <2>2 DEF DecoratedInv
<1> QED
  BY <1>2, <1>3

----------------------------------------------------------------------------
(* Answers *)

Compiled(f, n) == Sigs[f][n] \in DOMAIN overloads[f]

\* What is remembered of a function is what compiling means, and its code is linked
\* to the versions its calls are meant for.
JustifiedInv ==
  \A f \in Functions :
    /\ \A a \in failed[f] : Outcome[f][a] = "TypingError"
    /\ \A a \in DOMAIN overloads[f] :
         /\ Outcome[f][a] = "ok" /\ a \in DOMAIN Body[f]
         /\ \A n \in DOMAIN Body[f][a] :
              overloads[f][a].code[n].args \in Meant(f, Body[f][a][n])

\* Versions of a function with signatures are those of its decorator, which
\* compiled them in their order.
Signed(f) ==
  /\ DOMAIN overloads[f] \subseteq SigSet(f)
  /\ DOMAIN overloads[f] # {} => Begun(f)
  /\ f \in decorated => \A n \in 1 .. Len(Sigs[f]) : Compiled(f, n)
  /\ \A a, b \in DOMAIN overloads[f] :
       Position(f, a) < Position(f, b) => overloads[f][a].id < overloads[f][b].id
SignedInv == \A f \in Functions : Sigs[f] # <<>> => Signed(f)

\* What a thread was answered last.
AnswerInv(t) ==
  IF stack[t] = <<>> THEN pc[t] > 1 => ret[t] = ExpectedOf(Statement(t))
  ELSE LET d == stack[t][1] IN
       /\ d.step = "resolve" =>
            LET call == CallOf(d)
            IN  /\ ret[t] = Answer(StepOf(d.fn, call.fn), call.fn, call.args)
                /\ ret[t] = "ok" /\ Sigs[call.fn] = <<>> => call.args \in DOMAIN overloads[call.fn]
       /\ d.step = "decorate" =>
            IF d.n = 1 THEN ret[t] = "ok"
            ELSE /\ ret[t] = Outcome[d.fn][Sigs[d.fn][d.n - 1]]
                 /\ ret[t] = "ok" => Compiled(d.fn, d.n - 1)

\* A compilation resolved its calls to versions they are meant for, and is younger
\* than the versions of its function.
Good ==
  {d \in Frames :
     /\ Compiling(d) /\ Kind[d.fn] = "KERNEL" => ArgumentError(d.args) = "none"
     /\ \A k \in 1 .. Len(d.sigs) :
          LET call == Body[d.fn][d.args][k]
          IN  d.sigs[k] \in Meant(d.fn, call) /\ Outcome[call.fn][d.sigs[k]] = "ok"
     /\ Compiling(d) => \A a \in DOMAIN overloads[d.fn] : overloads[d.fn][a].id < d.id}
\* A decorator has compiled the signatures before the last.
Begins ==
  {y \in Good :
     y.step = "decorate" =>
       /\ y.n <= Len(Sigs[y.fn]) + 1
       /\ \A n \in 1 .. y.n - 2 : Compiled(y.fn, n)
       /\ Sigs[y.fn] # <<>> =>
            \A a \in DOMAIN overloads[y.fn] : \E n \in 1 .. y.n - 1 : a = Sigs[y.fn][n]}
WorkInv == \A t \in Threads : Stacked(stack[t], Good \X Frames, Begins)

Base == DispatcherInv /\ LinkInv /\ PurposeInv /\ DecoratedInv
OutcomeInv == JustifiedInv /\ SignedInv /\ WorkInv /\ \A t \in Threads : AnswerInv(t)

LEMMA BaseParts ==
  ASSUME Base
  PROVE  TypeInv /\ StackInv /\ LockInv /\ NewInv /\ LinkInv /\ PurposeInv /\ DecoratedInv
BY DEF Base, DispatcherInv

LEMMA OutcomeParts ==
  ASSUME OutcomeInv
  PROVE  JustifiedInv /\ SignedInv /\ WorkInv /\ \A t \in Threads : AnswerInv(t)
BY DEF OutcomeInv

LEMMA GoodTopFrame ==
  ASSUME Base, WorkInv, NEW t \in Threads, stack[t] # <<>>
  PROVE  /\ stack[t][1] \in Good
         /\ stack[t][1].step = "decorate" => stack[t][1] \in Begins
<1>1. TypeInv /\ StackInv
  BY BaseParts
<1>2. /\ stack[t] \in Seq(Frames) /\ Len(stack[t]) \in Nat /\ 1 \in 1 .. Len(stack[t])
  BY <1>1, SeqFacts DEF TypeInv
<1>3. Stacked(stack[t], Good \X Frames, Begins) /\ FrameInv(stack[t], 1)
  BY <1>1, <1>2 DEF WorkInv, StackInv
<1>4. CASE Len(stack[t]) = 1
  BY <1>3, <1>4 DEF Stacked, Begins
<1>5. CASE Len(stack[t]) # 1
  <2>1. 1 \in 1 .. Len(stack[t]) - 1
    <3>1. \A n \in Nat : n # 1 /\ 1 \in 1 .. n => 1 \in 1 .. n - 1
      OBVIOUS
    <3> QED
      BY <1>2, <1>5, <3>1
  <2>2. <<stack[t][1], stack[t][1 + 1]>> \in Good \X Frames
    BY <1>3, <2>1 DEF Stacked
  <2>3. stack[t][1].step # "decorate"
    BY <1>3, <1>5 DEF FrameInv
  <2> QED
    BY <2>2, <2>3
<1> QED
  BY <1>4, <1>5

\* The decorator a frame works for is the thread's statement.
LEMMA ForTheDecorator ==
  ASSUME TypeInv, StackInv, PurposeInv, DecoratedInv, NEW t \in Threads, stack[t] # <<>>,
         Tail(stack[t]) # <<>>, stack[t][2].step = "decorate"
  PROVE  /\ Len(stack[t]) = 2 /\ Decorating(t) /\ Statement(t).fn = stack[t][2].fn
         /\ stack[t][2].fn \notin decorated /\ stack[t][2].fn \in Functions
<1>1. stack[t] \in Seq(Frames) /\ Len(stack[t]) \in Nat /\ Len(Tail(stack[t])) = Len(stack[t]) - 1
  BY SeqFacts DEF TypeInv
<1>2. Len(stack[t]) \in Nat \ {0, 1}
  <2>1. Tail(stack[t]) \in Seq(Frames)
    BY SeqFacts DEF TypeInv
  <2>2. Len(Tail(stack[t])) # 0
    BY <2>1, NoFrames
  <2>3. Len(Tail(stack[t])) \in Nat
    BY <2>1, SeqFacts
  <2> QED
    BY <1>1, <2>2, <2>3
<1>3. 2 \in 1 .. Len(stack[t])
  BY <1>2
<1>4. FrameInv(stack[t], 2)
  BY <1>3 DEF StackInv
<1>5. Len(stack[t]) = 2
  BY <1>4 DEF FrameInv
<1>6. stack[t][2] \in Bottom(t)
  BY <1>5 DEF PurposeInv, Stacked
<1>7. Decorating(t) /\ Statement(t).fn = stack[t][2].fn /\ stack[t][2] \in Frames
  BY <1>6 DEF Bottom, ForStatement, Decorating
<1>8. stack[t][2].fn \in Functions
  BY <1>7 DEF Frames
<1> QED
  BY <1>5, <1>7, <1>8 DEF DecoratedInv

\* compile is not refused to what has a purpose.
LEMMA MayCompile ==
  ASSUME TypeInv, StackInv, PurposeInv, DecoratedInv, NEW t \in Threads, stack[t] # <<>>,
         stack[t][1].step \in CompileSteps
  PROVE  can_compile[stack[t][1].fn] /\ stack[t][1].fn \in Functions /\ stack[t][1].args \in ArgLists
<1>1. stack[t][1] \in Frames
  BY SeqFacts DEF TypeInv
<1>2. stack[t][1].fn \in Functions /\ stack[t][1].args \in ArgLists
  BY <1>1 DEF Frames
<1>3. CASE Sigs[stack[t][1].fn] = <<>>
  BY <1>2, <1>3 DEF DecoratedInv
<1>4. CASE Sigs[stack[t][1].fn] # <<>>
  <2>1. Tail(stack[t]) # <<>> /\ ForDecorator(stack[t][1], stack[t][2])
    BY <1>4, Compiles
  <2>2. stack[t][2].step = "decorate" /\ stack[t][1].fn = stack[t][2].fn
    BY <2>1 DEF ForDecorator
  <2>3. stack[t][1].fn \notin decorated
    BY <2>1, <2>2, ForTheDecorator
  <2> QED
    BY <1>2, <2>3 DEF DecoratedInv
<1> QED
  BY <1>3, <1>4

\* The choice among the versions there are is the one that is meant.
LEMMA Chosen ==
  ASSUME Base, JustifiedInv, SignedInv, NEW t \in Threads, AnswerInv(t),
         stack[t] # <<>>, stack[t][1].step = "resolve",
         NEW call, call = CallOf(stack[t][1]), call \in CallsOf(stack[t][1].fn),
         call.fn \in Functions, call.args \in ArgLists
  PROVE  /\ ret[t] # "ok" \/ Best(call.fn, call.args) = {} =>
              \A s \in Meant(stack[t][1].fn, call) : Outcome[call.fn][s] # "ok"
         /\ ret[t] = "ok" => \A s \in Best(call.fn, call.args) :
              s \in Meant(stack[t][1].fn, call) /\ Outcome[call.fn][s] = "ok"
<1> DEFINE f == stack[t][1].fn
           g == call.fn
<1>1. /\ ret[t] = Answer(StepOf(f, g), g, call.args)
      /\ ret[t] = "ok" /\ Sigs[g] = <<>> => call.args \in DOMAIN overloads[g]
  BY DEF AnswerInv
<1>2. TypeInv /\ StackInv /\ PurposeInv /\ DecoratedInv /\ LinkInv
  BY BaseParts
<1>3. g \in decorated
  <2>1. Bound(f)
    BY <1>2, BoundTop
  <2> QED
    BY <2>1 DEF Bound
<1>4. DOMAIN overloads[g] \subseteq ArgLists
  BY <1>2 DEF TypeInv
<1>5. \A s \in DOMAIN overloads[g] : Outcome[g][s] = "ok"
  BY DEF JustifiedInv
<1>6. call.args \in DOMAIN overloads[g] => Best(g, call.args) = {call.args}
  BY <1>4, ExactBest
<1>7. CASE Sigs[g] = <<>>
  <2>1. Meant(f, call) = {call.args}
    BY <1>7 DEF Meant
  <2>2. ret[t] = Outcome[g][call.args]
    BY <1>1, <1>7 DEF Answer
  <2> QED
    BY <1>1, <1>5, <1>6, <1>7, <2>1, <2>2
<1>8. CASE Sigs[g] # <<>>
  <2>1. DOMAIN overloads[g] = SigSet(g)
    <3>1. Signed(g)
      BY <1>8 DEF SignedInv
    <3>2. DOMAIN Sigs[g] = 1 .. Len(Sigs[g])
      BY ProgramAssumption
    <3> QED
      BY <1>3, <3>1, <3>2 DEF Signed, Compiled, SigSet
  <2>2. CASE Kind[f] = "HOST" /\ Kind[g] = "KERNEL"
    <3>1. Meant(f, call) = {call.args} \cap SigSet(g)
      BY <1>8, <2>2 DEF Meant
    <3>2. ret[t] = IF call.args \notin SigSet(g) THEN "TypingError" ELSE Outcome[g][call.args]
      BY <1>1, <1>8, <2>2 DEF Answer, StepOf
    <3> QED
      BY <1>5, <1>6, <2>1, <3>1, <3>2
  <2>3. CASE ~(Kind[f] = "HOST" /\ Kind[g] = "KERNEL")
    <3>1. Meant(f, call) =
            {s \in SigSet(g) : IsBest(s, call.args, SigSet(g), LAMBDA x : Position(g, x))}
      BY <1>8, <2>3 DEF Meant
    <3>2. ret[t] = "ok"
      BY <1>1, <1>8, <2>3 DEF Answer, StepOf
    <3>3. \A a \in SigSet(g) : overloads[g][a].id \in Nat
      <4>1. PICK F \in Owners : OwnersInv(F)
        BY <1>2 DEF LinkInv
      <4> QED
        BY <2>1, <4>1 DEF OwnersInv, Known
    <3>4. \A a, b \in SigSet(g) :
            Position(g, a) < Position(g, b) => overloads[g][a].id < overloads[g][b].id
      BY <1>8, <2>1 DEF SignedInv, Signed
    <3>5. Best(g, call.args) = Meant(f, call)
      <4> HIDE DEF g, f
      <4>1. g \in Functions
        BY DEF g
      <4> QED
        BY <2>1, <3>1, <3>3, <3>4, <4>1, SignedBest
    <3>6. Best(g, call.args) \subseteq SigSet(g)
      BY <2>1 DEF Best
    <3> QED
      BY <1>5, <2>1, <3>2, <3>5, <3>6
  <2> QED
    BY <2>2, <2>3
<1> QED
  BY <1>7, <1>8

----------------------------------------------------------------------------
(* Every return answers what was asked *)

Accepted(d) == Kind[d.fn] = "KERNEL" => ArgumentError(d.args) = "none"

LEMMA Verdict ==
  ASSUME NEW d \in Frames
  PROVE  /\ ~Accepted(d) => Outcome[d.fn][d.args] = ArgumentError(d.args)
         /\ Accepted(d) /\ ~HasBody(d.fn, d.args) => Outcome[d.fn][d.args] = "TypingError"
         /\ Accepted(d) /\ HasBody(d.fn, d.args) =>
              \A n \in DOMAIN Body[d.fn][d.args] :
                LET call == Body[d.fn][d.args][n]
                IN  (\A s \in Meant(d.fn, call) : Outcome[call.fn][s] # "ok")
                      => Outcome[d.fn][d.args] = "TypingError"
         /\ /\ Accepted(d) /\ HasBody(d.fn, d.args)
            /\ \A n \in DOMAIN Body[d.fn][d.args] :
                 LET call == Body[d.fn][d.args][n]
                 IN  \E s \in Meant(d.fn, call) : Outcome[call.fn][s] = "ok"
            => Outcome[d.fn][d.args] =
                 IF Kind[d.fn] = "KERNEL" /\ d.fn \in Returns
                 THEN "KernelHasReturnValueError" ELSE "ok"
<1>1. PICK f \in Functions : f = d.fn
  BY DEF Frames
<1>2. PICK a \in ArgLists : a = d.args
  BY DEF Frames
<1>3. Outcome[f][a] = Rule(Outcome, f, a)
  BY OutcomeIs
<1>4. Kind[f] = "KERNEL" /\ ArgumentError(a) # "none" => Outcome[f][a] = ArgumentError(a)
  BY <1>3 DEF Rule
<1>5. (Kind[f] = "KERNEL" => ArgumentError(a) = "none") /\ ~HasBody(f, a)
        => Outcome[f][a] = "TypingError"
  BY <1>3 DEF Rule
<1>6. (Kind[f] = "KERNEL" => ArgumentError(a) = "none") /\ HasBody(f, a) =>
        \A n \in DOMAIN Body[f][a] :
          (\A s \in Meant(f, Body[f][a][n]) : Outcome[Body[f][a][n].fn][s] # "ok")
            => Outcome[f][a] = "TypingError"
  BY <1>3 DEF Rule
<1>7. /\ (Kind[f] = "KERNEL" => ArgumentError(a) = "none") /\ HasBody(f, a)
      /\ \A n \in DOMAIN Body[f][a] :
           \E s \in Meant(f, Body[f][a][n]) : Outcome[Body[f][a][n].fn][s] = "ok"
      => Outcome[f][a] =
           IF Kind[f] = "KERNEL" /\ f \in Returns THEN "KernelHasReturnValueError" ELSE "ok"
  BY <1>3 DEF Rule
<1> QED
  BY <1>1, <1>2, <1>4, <1>5, <1>6, <1>7 DEF Accepted

\* A thread that returns from a dispatcher returns what is due, and leaves the
\* version it was asked for.
Right(t) ==
  LET d == stack[t][1]
  IN  /\ ret'[t] = Due(d)
      /\ ret'[t] = "ok" /\ (d.step \in CompileSteps \/ Sigs[d.fn] = <<>>) =>
           d.args \in DOMAIN overloads'[d.fn]

LEMMA DueOfCompile ==
  ASSUME NEW d, d.step \in CompileSteps
  PROVE  Due(d) = Outcome[d.fn][d.args]
BY DEF Due, Answer, CompileSteps

\* The overloads of a decorated function with signatures are these.
LEMMA AllSigned ==
  ASSUME SignedInv, NEW f \in Functions, Sigs[f] # <<>>
  PROVE  /\ DOMAIN overloads[f] \subseteq SigSet(f)
         /\ f \in decorated => DOMAIN overloads[f] = SigSet(f)
<1>1. Signed(f)
  BY DEF SignedInv
<1>2. DOMAIN Sigs[f] = 1 .. Len(Sigs[f])
  BY ProgramAssumption
<1> QED
  BY <1>1, <1>2 DEF Signed, Compiled, SigSet

LEMMA LookupAnswers ==
  ASSUME Base, OutcomeInv, NEW t \in Threads, Result(t) \/ Template(t)
  PROVE  \/ Ends(t) /\ Right(t)
         \/ GoesOn(t, "acquire") /\ ret' = ret
<1> DEFINE d == stack[t][1]
<1>1. TypeInv /\ StackInv /\ PurposeInv /\ DecoratedInv /\ JustifiedInv /\ SignedInv
  BY BaseParts, OutcomeParts
<1>2. overloads' = overloads /\ ret \in [Threads -> Errors \cup {"ok"}]
  BY <1>1 DEF Result, Template, TypeInv
<1>3. stack[t] # <<>> /\ d.step \in {"result", "template"}
  BY <1>1, LookupShape
<1>4. d.fn \in Functions /\ (can_compile[d.fn] <=> Sigs[d.fn] = <<>>)
  BY <1>1, <1>3, OnDemand
<1>5. ForCall(d)
  BY <1>1, <1>3, Asked
<1>6. d.fn \in decorated
  BY <1>5 DEF ForCall
<1>7. CASE Result(t)
  <2>1. d.step = "result"
    BY <1>1, <1>7, LookupShape
  <2>2. CASE d.args \in DOMAIN overloads[d.fn] /\ Ends(t) /\ ret' = [ret EXCEPT ![t] = "ok"]
    <3>1. ret'[t] = "ok"
      BY <1>2, <2>2
    <3>2. Outcome[d.fn][d.args] = "ok"
      BY <1>1, <1>4, <2>2 DEF JustifiedInv
    <3>3. Sigs[d.fn] # <<>> => d.args \in SigSet(d.fn)
      BY <1>1, <1>4, <2>2, AllSigned
    <3>4. Right(t)
      BY <1>2, <2>1, <2>2, <3>1, <3>2, <3>3 DEF Right, Due, Answer
    <3> QED
      BY <2>2, <3>4
  <2>3. CASE /\ ~can_compile[d.fn] /\ d.args \notin DOMAIN overloads[d.fn]
             /\ Ends(t) /\ ret' = [ret EXCEPT ![t] = "TypingError"]
    <3>1. ret'[t] = "TypingError"
      BY <1>2, <2>3
    <3>2. Sigs[d.fn] # <<>> /\ d.args \notin SigSet(d.fn)
      BY <1>1, <1>4, <1>6, <2>3, AllSigned
    <3>3. Right(t)
      BY <2>1, <3>1, <3>2 DEF Right, Due, Answer
    <3> QED
      BY <2>3, <3>3
  <2> QED
    BY <1>1, <1>7, <2>2, <2>3, LookupShape
<1>8. CASE Template(t)
  <2>1. d.step = "template"
    BY <1>1, <1>8, LookupShape
  <2>2. CASE ~can_compile[d.fn] /\ Ends(t) /\ ret' = [ret EXCEPT ![t] = "ok"]
    <3>1. ret'[t] = "ok" /\ Sigs[d.fn] # <<>>
      BY <1>2, <1>4, <2>2
    <3>2. Right(t)
      BY <2>1, <3>1 DEF Right, Due, Answer, CompileSteps
    <3> QED
      BY <2>2, <3>2
  <2> QED
    BY <1>1, <1>8, <2>2, LookupShape
<1> QED
  BY <1>7, <1>8

LEMMA CheckRight ==
  ASSUME Base, OutcomeInv, NEW t \in Threads, Check(t),
         ret' = [ret EXCEPT ![t] =
           IF Refusal(stack[t][1].fn, stack[t][1].args) # "none"
           THEN Refusal(stack[t][1].fn, stack[t][1].args)
           ELSE IF stack[t][1].args \in DOMAIN overloads[stack[t][1].fn] THEN "ok"
           ELSE "TypingError"],
         \/ Refusal(stack[t][1].fn, stack[t][1].args) # "none"
         \/ stack[t][1].args \in DOMAIN overloads[stack[t][1].fn]
         \/ stack[t][1].args \in failed[stack[t][1].fn]
  PROVE  Right(t)
<1>1. TypeInv /\ StackInv /\ PurposeInv /\ DecoratedInv /\ JustifiedInv
  BY BaseParts, OutcomeParts
<1>2. /\ overloads' = overloads /\ ret \in [Threads -> Errors \cup {"ok"}]
      /\ stack[t] # <<>> /\ stack[t][1] \in Frames /\ stack[t][1].step = "check"
  BY <1>1, CheckShape, Zenon DEF Check, TypeInv
<1>3. PICK d \in Frames : d = stack[t][1]
  BY <1>2
<1>4. d.step \in CompileSteps /\ Due(d) = Outcome[d.fn][d.args]
  BY <1>2, <1>3, DueOfCompile DEF CompileSteps
<1>5. can_compile[d.fn] /\ d.fn \in Functions
  BY <1>1, <1>2, <1>3, <1>4, MayCompile
<1>6. Refusal(d.fn, d.args) = IF Accepted(d) THEN "none" ELSE ArgumentError(d.args)
  BY <1>5 DEF Refusal, Accepted
<1>7. ret'[t] = Outcome[d.fn][d.args]
  <2>1. ret'[t] = IF Refusal(d.fn, d.args) # "none" THEN Refusal(d.fn, d.args)
                  ELSE IF d.args \in DOMAIN overloads[d.fn] THEN "ok"
                  ELSE "TypingError"
    BY <1>2, <1>3
  <2>2. CASE ~Accepted(d)
    <3>1. Outcome[d.fn][d.args] = ArgumentError(d.args) /\ ArgumentError(d.args) # "none"
      BY <2>2, Verdict, Zenon DEF Accepted
    <3> QED
      BY <1>6, <2>1, <2>2, <3>1
  <2>3. CASE Accepted(d)
    <3>1. d.args \in DOMAIN overloads[d.fn] => Outcome[d.fn][d.args] = "ok"
      BY <1>1, <1>5 DEF JustifiedInv
    <3>2. d.args \in failed[d.fn] => Outcome[d.fn][d.args] = "TypingError"
      BY <1>1, <1>5 DEF JustifiedInv
    <3> QED
      BY <1>3, <1>6, <2>1, <2>3, <3>1, <3>2
  <2> QED
    BY <2>2, <2>3
<1>8. ret'[t] = "ok" => d.args \in DOMAIN overloads[d.fn]
  <2>1. ArgumentError(d.args) # "ok"
    BY DEF ArgumentError
  <2> QED
    BY <1>2, <1>3, <1>6, <2>1
<1> QED
  BY <1>2, <1>3, <1>4, <1>7, <1>8 DEF Right

LEMMA ReadyTop ==
  ASSUME LinkInv, NEW t \in Threads, stack[t] # <<>>, stack[t][1].step # "decorate"
  PROVE  Ready(stack[t][1])
<1>1. PICK F \in Owners : OwnersInv(F)
  BY DEF LinkInv
<1>2. stack[t][1] \in GoodFrames(F, ids)
  <2>1. stack[t] \in Seq(GoodFrames(F, ids))
    BY <1>1 DEF OwnersInv
  <2> QED
    BY <2>1, GoodSeq
<1> QED
  BY <1>2 DEF GoodFrames

\* A compilation that is through with its calls.
LEMMA Resolved ==
  ASSUME NEW d \in Good, Ready(d), HasBody(d.fn, d.args), d.n > Len(Body[d.fn][d.args])
  PROVE  \A n \in DOMAIN Body[d.fn][d.args] :
           LET call == Body[d.fn][d.args][n]
           IN  /\ n \in DOMAIN d.sigs
               /\ d.sigs[n] \in Meant(d.fn, call) /\ Outcome[call.fn][d.sigs[n]] = "ok"
<1>1. d.fn \in Functions /\ d.n \in Nat /\ d.sigs \in Seq(ArgLists)
  BY DEF Good, Frames
<1>2. PICK m \in Nat : m = Len(Body[d.fn][d.args]) /\ DOMAIN Body[d.fn][d.args] = 1 .. m
  BY <1>1, ProgramAssumption DEF HasBody
<1>3. Len(d.sigs) = d.n - 1 /\ DOMAIN d.sigs = 1 .. Len(d.sigs)
  BY <1>1 DEF Ready
<1>4. DOMAIN Body[d.fn][d.args] \subseteq 1 .. Len(d.sigs)
  <2>1. \A k, n \in Nat : n > m /\ k \in 1 .. m => k \in 1 .. n - 1
    OBVIOUS
  <2> QED
    BY <1>1, <1>2, <1>3, <2>1
<1>5. \A k \in 1 .. Len(d.sigs) :
        LET call == Body[d.fn][d.args][k]
        IN  d.sigs[k] \in Meant(d.fn, call) /\ Outcome[call.fn][d.sigs[k]] = "ok"
  BY DEF Good
<1> QED
  BY <1>3, <1>4, <1>5

LEMMA FailRight ==
  ASSUME Base, OutcomeInv, NEW t \in Threads, BodyFails(t) \/ (Resolve(t) /\ Fail(t))
  PROVE  Right(t) /\ ret'[t] = "TypingError"
<1>1. TypeInv /\ StackInv /\ JustifiedInv /\ SignedInv /\ WorkInv /\ AnswerInv(t)
  BY BaseParts, OutcomeParts
<1>2. stack[t] # <<>> /\ stack[t][1] \in Frames
  BY <1>1, EndShape, ResolveShape DEF Ends
<1>3. PICK d \in Good : d = stack[t][1]
  BY <1>1, <1>2, GoodTopFrame
<1>4. d \in Frames /\ d.step \in {"body", "resolve"}
  BY <1>1, <1>2, <1>3, EndShape, ResolveShape
<1>5. Accepted(d)
  BY <1>4 DEF Good, Compiling, Accepted
<1>6. ret'[t] = "TypingError"
  BY <1>1 DEF BodyFails, Fail, Return, TypeInv
<1>7. Outcome[d.fn][d.args] = "TypingError"
  <2>1. CASE BodyFails(t)
    <3>1. ~HasBody(d.fn, d.args)
      BY <1>1, <1>3, <2>1, EndShape
    <3> QED
      BY <1>4, <1>5, <3>1, Verdict
  <2>2. CASE Resolve(t) /\ Fail(t)
    <3>1. /\ d.step = "resolve" /\ d.args \in DOMAIN Body[d.fn]
          /\ d.n \in 1 .. Len(Body[d.fn][d.args])
          /\ CallOf(d) \in CallsOf(d.fn) /\ CallOf(d).fn \in Functions
          /\ CallOf(d).args \in ArgLists
      BY <1>1, <1>3, <2>2, ResolveShape
    <3>2. ret[t] # "ok" \/ Best(CallOf(d).fn, CallOf(d).args) = {}
      <4>1. CASE failed' = failed
        <5>1. d.args \in failed[d.fn]
          BY <1>1, <1>3, <1>4, <2>2, <4>1 DEF Fail, Top, TypeInv, Frames
        <5>2. d.args \notin failed[d.fn]
          <6>1. NewInv /\ 1 \in 1 .. Len(stack[t])
            BY <1>1, <1>2, BaseParts, SeqFacts DEF TypeInv
          <6> QED
            BY <1>3, <1>4, <6>1 DEF NewInv, Compiling
        <5> QED
          BY <5>1, <5>2
      <4>2. CASE failed' # failed
        BY <1>1, <1>3, <2>2, <4>2, ResolveShape
      <4> QED
        BY <4>1, <4>2
    <3> DEFINE call == CallOf(d)
    <3>3. call = CallOf(stack[t][1]) /\ call \in CallsOf(stack[t][1].fn)
      BY <1>3, <3>1
    <3>4. \A s \in Meant(d.fn, call) : Outcome[call.fn][s] # "ok"
      <4> HIDE DEF call
      <4>1. call.fn \in Functions /\ call.args \in ArgLists
        BY <3>1 DEF call
      <4>2. ret[t] # "ok" \/ Best(call.fn, call.args) = {} =>
              \A s \in Meant(stack[t][1].fn, call) : Outcome[call.fn][s] # "ok"
        BY <1>1, <1>2, <1>3, <3>1, <3>3, <4>1, Chosen
      <4> QED
        BY <1>3, <3>2, <4>2 DEF call
    <3>5. HasBody(d.fn, d.args) /\ d.n \in DOMAIN Body[d.fn][d.args]
      BY <1>4, <3>1, ProgramAssumption DEF HasBody, Frames
    <3>6. call = Body[d.fn][d.args][d.n]
      BY DEF CallOf
    <3> HIDE DEF call
    <3> QED
      BY <1>4, <1>5, <3>4, <3>5, <3>6, Verdict
  <2> QED
    BY <2>1, <2>2
<1>8. Due(d) = "TypingError"
  BY <1>4, <1>7, DueOfCompile DEF CompileSteps
<1> QED
  BY <1>3, <1>6, <1>8 DEF Right

LEMMA FinishRight ==
  ASSUME Base, OutcomeInv, NEW t \in Threads, Finish(t)
  PROVE  Right(t)
<1>1. TypeInv /\ StackInv /\ LinkInv /\ WorkInv
  BY BaseParts, OutcomeParts
<1>2. stack[t] # <<>> /\ stack[t][1] \in Frames /\ stack[t][1].step = "body"
  BY <1>1, EndShape DEF Ends
<1>3. PICK d \in Good : d = stack[t][1]
  BY <1>1, <1>2, GoodTopFrame
<1>4. d \in Frames /\ d.step = "body" /\ Ready(d)
  BY <1>1, <1>2, <1>3, ReadyTop
<1>5. Accepted(d)
  BY <1>4 DEF Good, Compiling, Accepted
<1>6. HasBody(d.fn, d.args) /\ d.n > Len(Body[d.fn][d.args])
  BY <1>1, <1>3, EndShape
<1>7. Outcome[d.fn][d.args] =
        IF Kind[d.fn] = "KERNEL" /\ d.fn \in Returns THEN "KernelHasReturnValueError" ELSE "ok"
  <2>1. \A n \in DOMAIN Body[d.fn][d.args] :
          LET call == Body[d.fn][d.args][n]
          IN  \E s \in Meant(d.fn, call) : Outcome[call.fn][s] = "ok"
    BY <1>4, <1>6, Resolved
  <2> QED
    BY <1>4, <1>5, <1>6, <2>1, Verdict
<1>8. Due(d) = Outcome[d.fn][d.args]
  BY <1>4, DueOfCompile DEF CompileSteps
<1>9. IF Kind[d.fn] = "KERNEL" /\ d.fn \in Returns
      THEN ret' = [ret EXCEPT ![t] = "KernelHasReturnValueError"]
      ELSE AddOverload(d) /\ ret' = [ret EXCEPT ![t] = "ok"]
  BY <1>1, <1>3, EndShape
<1>10. CASE Kind[d.fn] = "KERNEL" /\ d.fn \in Returns
  <2>1. ret'[t] = "KernelHasReturnValueError"
    BY <1>1, <1>9, <1>10 DEF TypeInv
  <2> QED
    BY <1>3, <1>7, <1>8, <1>10, <2>1 DEF Right
<1>11. CASE ~(Kind[d.fn] = "KERNEL" /\ d.fn \in Returns)
  <2>1. ret'[t] = "ok" /\ AddOverload(d)
    BY <1>1, <1>9, <1>11 DEF TypeInv
  <2>2. d.args \in DOMAIN overloads'[d.fn]
    <3>1. d.fn \in Functions
      BY <1>4 DEF Frames
    <3> QED
      BY <1>1, <2>1, <3>1 DEF AddOverload, TypeInv
  <2> QED
    BY <1>3, <1>7, <1>8, <1>11, <2>1, <2>2 DEF Right
<1> QED
  BY <1>10, <1>11

\* The version of d is added, and nothing else.
Adds(d) ==
  /\ \A f \in Functions \ {d.fn} : overloads'[f] = overloads[f]
  /\ DOMAIN overloads'[d.fn] = DOMAIN overloads[d.fn] \cup {d.args}
  /\ \A a \in DOMAIN overloads[d.fn] \ {d.args} : overloads'[d.fn][a] = overloads[d.fn][a]
  /\ overloads'[d.fn][d.args].id = d.id /\ overloads'[d.fn][d.args].code = Linked(d)

LEMMA OverloadsStep ==
  ASSUME TypeInv, StackInv, NEW t \in Threads, Step(t)
  PROVE  /\ \/ overloads' = overloads
            \/ /\ Finish(t) /\ stack[t] # <<>> /\ stack[t][1] \in Frames /\ Ends(t)
               /\ stack[t][1].step = "body"
               /\ Adds(stack[t][1]) /\ ret' = [ret EXCEPT ![t] = "ok"]
         /\ Grows
<1>1. CASE overloads' = overloads
  BY <1>1 DEF Grows
<1>2. CASE overloads' # overloads
  <2>1. Finish(t)
    BY <1>2, Changes
  <2>2. /\ stack[t] # <<>> /\ stack[t][1] \in Frames /\ Ends(t) /\ stack[t][1].step = "body"
        /\ AddOverload(stack[t][1]) /\ ret' = [ret EXCEPT ![t] = "ok"]
    BY <1>2, <2>1, EndShape DEF Ends
  <2>3. PICK d \in Frames : d = stack[t][1]
    BY <2>2
  <2>4. Adds(d)
    <3>1. d.fn \in Functions /\ DOMAIN overloads = Functions
      BY DEF Frames, TypeInv
    <3>2. PICK new : new = [a \in DOMAIN overloads[d.fn] \cup {d.args} |->
            IF a = d.args
            THEN [id |-> d.id, entry_point |-> EntryPoint(d.fn, d.id), code |-> Linked(d)]
            ELSE overloads[d.fn][a]]
      OBVIOUS
    <3>3. overloads' = [overloads EXCEPT ![d.fn] = new]
      BY <2>2, <2>3, <3>2 DEF AddOverload
    <3>4. overloads'[d.fn] = new /\ \A g \in Functions \ {d.fn} : overloads'[g] = overloads[g]
      BY <3>1, <3>3
    <3>5. /\ DOMAIN new = DOMAIN overloads[d.fn] \cup {d.args}
          /\ \A a \in DOMAIN overloads[d.fn] \ {d.args} : new[a] = overloads[d.fn][a]
          /\ new[d.args].id = d.id /\ new[d.args].code = Linked(d)
      BY <3>2
    <3> QED
      BY <3>4, <3>5 DEF Adds
  <2>5. \A f \in Functions : f = d.fn \/ f \in Functions \ {d.fn}
    OBVIOUS
  <2>6. Grows
    BY <2>4, <2>5 DEF Grows, Adds
  <2> QED
    BY <2>1, <2>2, <2>3, <2>4, <2>6
<1> QED
  BY <1>1, <1>2

LEMMA CheckAnswers ==
  ASSUME Base, OutcomeInv, NEW t \in Threads, Check(t)
  PROVE  \/ Ends(t) /\ Right(t)
         \/ /\ GoesOn(t, "body") /\ ret' = ret /\ stack'[t][1].id = ids
            /\ Refusal(stack[t][1].fn, stack[t][1].args) = "none"
<1>1. TypeInv /\ StackInv
  BY BaseParts
<1> QED
  BY <1>1, CheckShape, CheckRight

\* The answer a thread goes on with.
LEMMA AnswerKept ==
  ASSUME NEW t \in Threads, stack'[t] # <<>>, stack'[t][1].step \notin {"resolve", "decorate"}
  PROVE  AnswerInv(t)'
BY DEF AnswerInv

LEMMA AnswerOnTop ==
  ASSUME TypeInv, NEW t \in Threads, NEW x \in Frames, NEW r \in Seq(Frames),
         stack' = [stack EXCEPT ![t] = <<x>> \o r], x.step \notin {"resolve", "decorate"}
  PROVE  AnswerInv(t)'
<1>1. stack'[t] = <<x>> \o r
  BY DEF TypeInv
<1>2. <<x>> \o r # <<>> /\ (<<x>> \o r)[1] = x
  OBVIOUS
<1> QED
  BY <1>1, <1>2, AnswerKept

LEMMA AnswerElsewhere ==
  ASSUME Grows, NEW u \in Threads, AnswerInv(u), TypeInv, StackInv,
         stack'[u] = stack[u], pc'[u] = pc[u], ret'[u] = ret[u]
  PROVE  AnswerInv(u)'
<1>1. CASE stack[u] = <<>>
  BY <1>1 DEF AnswerInv, Statement
<1>2. CASE stack[u] # <<>>
  <2>1. PICK d \in Frames : d = stack[u][1]
    BY <1>2, SeqFacts DEF TypeInv
  <2>2. d.fn \in Functions
    BY <2>1 DEF Frames
  <2>3. CASE d.step = "resolve"
    <3>1. CallOf(d).fn \in Functions
      <4>1. FrameInv(stack[u], 1)
        BY <1>2, SeqFacts DEF StackInv, TypeInv
      <4>2. d.args \in DOMAIN Body[d.fn] /\ d.n <= Len(Body[d.fn][d.args])
        BY <2>1, <2>3, <4>1 DEF FrameInv, HasBody
      <4>3. d.n \in Nat \ {0}
        BY DEF Frames
      <4>4. d.n \in DOMAIN Body[d.fn][d.args]
        BY <2>2, <4>2, <4>3, ProgramAssumption
      <4> QED
        BY <2>2, <4>2, <4>4, MeantArguments DEF CallOf
    <3>2. /\ ret[u] = Answer(StepOf(d.fn, CallOf(d).fn), CallOf(d).fn, CallOf(d).args)
          /\ ret[u] = "ok" /\ Sigs[CallOf(d).fn] = <<>> =>
               CallOf(d).args \in DOMAIN overloads[CallOf(d).fn]
      BY <1>2, <2>1, <2>3 DEF AnswerInv
    <3>3. ret[u] = "ok" /\ Sigs[CallOf(d).fn] = <<>> =>
               CallOf(d).args \in DOMAIN overloads'[CallOf(d).fn]
      BY <3>1, <3>2 DEF Grows
    <3> QED
      BY <1>2, <2>1, <2>3, <3>2, <3>3 DEF AnswerInv
  <2>4. CASE d.step = "decorate"
    <3>1. IF d.n = 1 THEN ret[u] = "ok"
          ELSE /\ ret[u] = Outcome[d.fn][Sigs[d.fn][d.n - 1]]
               /\ ret[u] = "ok" => Sigs[d.fn][d.n - 1] \in DOMAIN overloads[d.fn]
      BY <1>2, <2>1, <2>4 DEF AnswerInv, Compiled
    <3>2. DOMAIN overloads[d.fn] \subseteq DOMAIN overloads'[d.fn]
      BY <2>2 DEF Grows
    <3> QED
      BY <1>2, <2>1, <2>4, <3>1, <3>2 DEF AnswerInv, Compiled
  <2>5. CASE d.step \notin {"resolve", "decorate"}
    BY <1>2, <2>1, <2>5, AnswerKept
  <2> QED
    BY <2>3, <2>4, <2>5
<1> QED
  BY <1>1, <1>2

\* What a dispatcher returns is the answer of whoever asked.
LEMMA AnswerReturned ==
  ASSUME TypeInv, StackInv, PurposeInv, NEW t \in Threads, Ends(t), Right(t),
         stack[t][1].step # "decorate", pc' = pc
  PROVE  AnswerInv(t)'
<1>1. stack[t] # <<>> /\ stack'[t] = Tail(stack[t])
  BY DEF Ends, TypeInv
<1>2. PICK d : d = stack[t][1]
  OBVIOUS
<1>3. /\ ret'[t] = Due(d)
      /\ ret'[t] = "ok" /\ (d.step \in CompileSteps \/ Sigs[d.fn] = <<>>) =>
           d.args \in DOMAIN overloads'[d.fn]
  BY <1>2 DEF Right
<1>4. CASE Tail(stack[t]) = <<>>
  <2>1. d \in Bottom(t)
    BY <1>1, <1>2, <1>4, Purpose
  <2>2. Due(d) = ExpectedOf(Statement(t))
    BY <1>2, <2>1 DEF Bottom, ForStatement
  <2>3. Statement(t)' = Statement(t)
    BY DEF Statement
  <2> QED
    BY <1>1, <1>3, <1>4, <2>2, <2>3 DEF AnswerInv
<1>5. CASE Tail(stack[t]) # <<>>
  <2>1. PICK y \in Frames : y = stack[t][2] /\ y = Tail(stack[t])[1] /\ <<d, y>> \in Above
    BY <1>1, <1>2, <1>5, Purpose
  <2>2. stack'[t] # <<>> /\ stack'[t][1] = y
    BY <1>1, <1>5, <2>1
  <2>3. CASE ForDecorator(d, y)
    <3>1. /\ y.step = "decorate" /\ y.n # 1 /\ d.step \in CompileSteps
          /\ d.fn = y.fn /\ d.args = Sigs[y.fn][y.n - 1]
      <4>1. /\ y.step = "decorate" /\ y.n \in 2 .. Len(Sigs[y.fn]) + 1
            /\ d.step \in CompileSteps /\ d.fn = y.fn /\ d.args = Sigs[y.fn][y.n - 1]
        BY <2>3 DEF ForDecorator
      <4>2. y.fn \in Functions
        BY DEF Frames
      <4>3. Len(Sigs[y.fn]) \in Nat
        BY <4>2, ProgramAssumption
      <4>4. y.n # 1
        BY <4>1, <4>3
      <4> QED
        BY <4>1, <4>4
    <3>2. Due(d) = Outcome[y.fn][Sigs[y.fn][y.n - 1]]
      BY <3>1, DueOfCompile
    <3> QED
      BY <1>3, <2>2, <3>1, <3>2 DEF AnswerInv, Compiled
  <2>4. CASE ForBody(d, y)
    <3>1. /\ y.step = "resolve" /\ d.fn = CallOf(y).fn /\ d.args = CallOf(y).args
          /\ Due(d) = Answer(StepOf(y.fn, d.fn), d.fn, d.args)
      BY <2>4 DEF ForBody
    <3> QED
      BY <1>3, <2>2, <3>1 DEF AnswerInv
  <2> QED
    BY <2>1, <2>3, <2>4 DEF Above
<1> QED
  BY <1>4, <1>5

\* A signature that was refused is the first that is.
LEMMA FirstRefused ==
  ASSUME NEW s, s.fn \in Functions, s.op # "call",
         NEW k \in 1 .. Len(Sigs[s.fn]), Outcome[s.fn][Sigs[s.fn][k]] # "ok",
         \A n \in 1 .. k - 1 : Outcome[s.fn][Sigs[s.fn][n]] = "ok"
  PROVE  ExpectedOf(s) = Outcome[s.fn][Sigs[s.fn][k]]
<1> DEFINE bad == {n \in DOMAIN Sigs[s.fn] : Outcome[s.fn][Sigs[s.fn][n]] # "ok"}
<1>1. DOMAIN Sigs[s.fn] = 1 .. Len(Sigs[s.fn]) /\ Len(Sigs[s.fn]) \in Nat
  BY ProgramAssumption
<1>2. k \in bad /\ bad \subseteq Nat \ {0}
  BY <1>1
<1>3. \A m \in bad : k <= m
  <2> SUFFICES ASSUME NEW m \in bad, m < k PROVE FALSE
    BY <1>1
  <2>1. m \in 1 .. k - 1
    BY <1>1
  <2> QED
    BY <2>1
<1>4. \A n \in bad : (\A m \in bad : n <= m) => n = k
  <2> HIDE DEF bad
  <2> QED
    BY <1>2, <1>3
<1>5. (CHOOSE n \in bad : \A m \in bad : n <= m) = k
  <2> HIDE DEF bad
  <2> QED
    BY <1>2, <1>3, <1>4
<1>6. ExpectedOf(s) = IF bad = {} THEN "ok"
        ELSE Outcome[s.fn][Sigs[s.fn][CHOOSE n \in bad : \A m \in bad : n <= m]]
  BY DEF ExpectedOf
<1> HIDE DEF bad
<1> QED
  BY <1>2, <1>5, <1>6

\* What a decorator has compiled before it returns.
LEMMA DecoratorSoFar ==
  ASSUME Base, OutcomeInv, NEW t \in Threads, stack[t] # <<>>, stack[t][1].step = "decorate"
  PROVE  LET d == stack[t][1]
         IN  /\ d \in Frames /\ d \in Begins /\ d.n \in 1 .. Len(Sigs[d.fn]) + 1
             /\ \A n \in 1 .. d.n - 2 : Compiled(d.fn, n)
             /\ ret[t] = "ok" => \A n \in 1 .. d.n - 1 : Compiled(d.fn, n)
             /\ ret[t] # "ok" => d.n # 1 /\ ret[t] = Outcome[d.fn][Sigs[d.fn][d.n - 1]]
             /\ \A n \in Nat : Compiled(d.fn, n) => Outcome[d.fn][Sigs[d.fn][n]] = "ok"
<1> PICK d : d = stack[t][1]
  OBVIOUS
<1>1. JustifiedInv /\ WorkInv /\ AnswerInv(t)
  BY OutcomeParts
<1>2. d \in Begins
  BY <1>1, GoodTopFrame
<1>3. d \in Frames /\ d.n <= Len(Sigs[d.fn]) + 1 /\ \A n \in 1 .. d.n - 2 : Compiled(d.fn, n)
  BY <1>2, Zenon DEF Begins, Good
<1>4. d.n \in Nat \ {0} /\ d.fn \in Functions /\ Len(Sigs[d.fn]) \in Nat
  BY <1>3, ProgramAssumption DEF Frames
<1>5. IF d.n = 1 THEN ret[t] = "ok"
      ELSE /\ ret[t] = Outcome[d.fn][Sigs[d.fn][d.n - 1]]
           /\ ret[t] = "ok" => Compiled(d.fn, d.n - 1)
  BY <1>1 DEF AnswerInv
<1>6. ret[t] = "ok" => \A n \in 1 .. d.n - 1 : Compiled(d.fn, n)
  <2> SUFFICES ASSUME ret[t] = "ok", NEW n \in 1 .. d.n - 1 PROVE Compiled(d.fn, n)
    OBVIOUS
  <2>1. d.n # 1 /\ (n \in 1 .. d.n - 2 \/ n = d.n - 1)
    BY <1>4
  <2>2. Compiled(d.fn, d.n - 1)
    BY <1>5, <2>1, Zenon
  <2> QED
    BY <1>3, <2>1, <2>2, Zenon
<1>7. \A n \in Nat : Compiled(d.fn, n) => Outcome[d.fn][Sigs[d.fn][n]] = "ok"
  BY <1>1, <1>4 DEF Compiled, JustifiedInv
<1> QED
  BY <1>2, <1>3, <1>4, <1>5, <1>6, <1>7

LEMMA AnswerDecorator ==
  ASSUME Base, OutcomeInv, NEW t \in Threads, Decorated(t) \/ DecorateFails(t)
  PROVE  AnswerInv(t)'
<1>1. TypeInv /\ StackInv /\ PurposeInv
  BY BaseParts
<1>2. /\ Ends(t) /\ stack[t][1].step = "decorate" /\ pc' = pc
      /\ Decorated(t) => ret[t] = "ok" /\ stack[t][1].n > Len(Sigs[stack[t][1].fn])
      /\ DecorateFails(t) => ret[t] # "ok"
      /\ ret' = [ret EXCEPT ![t] = ret[t]]
  BY <1>1, EndShape DEF Decorated, DecorateFails
<1>3. /\ stack[t] # <<>> /\ stack'[t] = Tail(stack[t]) /\ ret'[t] = ret[t]
  BY <1>1, <1>2 DEF Ends, TypeInv
<1>4. PICK d : d = stack[t][1]
  OBVIOUS
<1>5. /\ Decorating(t) /\ Statement(t).fn = d.fn /\ Tail(stack[t]) = <<>> /\ d.fn \in Functions
  BY <1>1, <1>2, <1>3, <1>4, DecoratorTop
<1>6. Statement(t).op # "call" /\ Statement(t)' = Statement(t)
  BY <1>2, <1>5 DEF Decorating, Statement
<1>7. /\ d.n \in 1 .. Len(Sigs[d.fn]) + 1
      /\ \A n \in 1 .. d.n - 2 : Compiled(d.fn, n)
      /\ ret[t] = "ok" => \A n \in 1 .. d.n - 1 : Compiled(d.fn, n)
      /\ ret[t] # "ok" => d.n # 1 /\ ret[t] = Outcome[d.fn][Sigs[d.fn][d.n - 1]]
      /\ \A n \in Nat : Compiled(d.fn, n) => Outcome[d.fn][Sigs[d.fn][n]] = "ok"
  BY <1>2, <1>3, <1>4, DecoratorSoFar
<1>8. Len(Sigs[d.fn]) \in Nat /\ DOMAIN Sigs[d.fn] = 1 .. Len(Sigs[d.fn])
  BY <1>5, ProgramAssumption
<1>9. ret[t] = ExpectedOf(Statement(t))
  <2>1. CASE Decorated(t)
    <3>1. d.n - 1 = Len(Sigs[d.fn]) /\ ret[t] = "ok"
      BY <1>2, <1>4, <1>7, <1>8, <2>1
    <3>2. \A n \in DOMAIN Sigs[d.fn] : Outcome[d.fn][Sigs[d.fn][n]] = "ok"
      BY <1>7, <1>8, <3>1
    <3>3. PICK s : s = Statement(t)
      OBVIOUS
    <3>4. ExpectedOf(s) = "ok"
      <4>1. {n \in DOMAIN Sigs[s.fn] : Outcome[s.fn][Sigs[s.fn][n]] # "ok"} = {}
        BY <1>5, <3>2, <3>3
      <4> QED
        BY <1>6, <3>3, <4>1 DEF ExpectedOf
    <3> QED
      BY <3>1, <3>3, <3>4
  <2>2. CASE DecorateFails(t)
    <3>1. d.n # 1 /\ ret[t] = Outcome[d.fn][Sigs[d.fn][d.n - 1]] /\ ret[t] # "ok"
      BY <1>2, <1>7, <2>2
    <3>2. PICK k \in 1 .. Len(Sigs[d.fn]) : k = d.n - 1 /\ k - 1 = d.n - 2
      BY <1>7, <1>8, <3>1
    <3>3. \A n \in 1 .. k - 1 : Outcome[d.fn][Sigs[d.fn][n]] = "ok"
      BY <1>7, <3>2
    <3>4. PICK s : s = Statement(t)
      OBVIOUS
    <3>5. s.fn = d.fn /\ s.op # "call"
      BY <1>5, <1>6, <3>4
    <3>6. ExpectedOf(s) = Outcome[s.fn][Sigs[s.fn][k]]
      <4>1. s.fn \in Functions /\ k \in 1 .. Len(Sigs[s.fn])
        BY <1>5, <3>2, <3>5
      <4>2. Outcome[s.fn][Sigs[s.fn][k]] # "ok"
        BY <3>1, <3>2, <3>5
      <4>3. \A n \in 1 .. k - 1 : Outcome[s.fn][Sigs[s.fn][n]] = "ok"
        BY <3>3, <3>5
      <4> QED
        BY <3>5, <4>1, <4>2, <4>3, FirstRefused
    <3> QED
      BY <3>1, <3>2, <3>4, <3>5, <3>6
  <2> QED
    BY <2>1, <2>2
<1> QED
  BY <1>3, <1>5, <1>6, <1>9 DEF AnswerInv

LEMMA AnswerGoesOn ==
  ASSUME TypeInv, NEW t \in Threads, NEW p \in {"acquire", "check", "body"}, GoesOn(t, p)
  PROVE  AnswerInv(t)'
<1>1. PICK x \in Frames : stack' = [stack EXCEPT ![t] = <<x>> \o Tail(stack[t])] /\ x.step = p
  BY DEF GoesOn
<1>2. Tail(stack[t]) \in Seq(Frames)
  BY SeqFacts DEF TypeInv, GoesOn
<1> QED
  BY <1>1, <1>2, AnswerOnTop

LEMMA AnswerPushed ==
  ASSUME TypeInv, NEW t \in Threads, stack[t] # <<>>, NEW x \in Frames, NEW y \in Frames,
         stack' = [stack EXCEPT ![t] = <<x, y>> \o Tail(stack[t])],
         x.step \notin {"resolve", "decorate"}
  PROVE  AnswerInv(t)'
<1>1. PICK r \in Seq(Frames) : r = Tail(stack[t])
  BY SeqFacts DEF TypeInv
<1>2. stack'[t] = <<x, y>> \o r
  BY <1>1 DEF TypeInv
<1>3. <<x, y>> \o r # <<>> /\ (<<x, y>> \o r)[1] = x
  OBVIOUS
<1> QED
  BY <1>2, <1>3, AnswerKept

LEMMA AnswerStarted ==
  ASSUME TypeInv, NEW t \in Threads, Start(t)
  PROVE  AnswerInv(t)'
<1>1. PICK x \in Frames : /\ stack' = [stack EXCEPT ![t] = <<x>>] /\ x.n = 1
                          /\ x.step \in {"decorate", "result"}
  BY StartShape
<1>2. stack'[t] = <<x>> /\ ret'[t] = "ok"
  BY <1>1 DEF Start, TypeInv
<1>3. <<x>> # <<>> /\ <<x>>[1] = x
  OBVIOUS
<1> QED
  BY <1>1, <1>2, <1>3 DEF AnswerInv

LEMMA AnswerStep ==
  ASSUME Base, OutcomeInv, NEW t \in Threads, Step(t)
  PROVE  \A u \in Threads : AnswerInv(u)'
<1>1. TypeInv /\ StackInv /\ PurposeInv /\ \A u \in Threads : AnswerInv(u)
  BY BaseParts, OutcomeParts
<1>2. \A u \in Threads \ {t} : AnswerInv(u)'
  <2>1. Grows
    BY <1>1, OverloadsStep
  <2>2. \A u \in Threads \ {t} : stack'[u] = stack[u] /\ pc'[u] = pc[u] /\ ret'[u] = ret[u]
    BY <1>1, OtherThreads
  <2> QED
    BY <1>1, <2>1, <2>2, AnswerElsewhere
<1>3. AnswerInv(t)'
  <2>1. CASE Start(t)
    BY <1>1, <2>1, AnswerStarted
  <2>2. CASE DecorateSig(t)
    <3> DEFINE d == stack[t][1]
    <3>1. stack[t] # <<>>
      BY <1>1, <2>2, DecorateShape
    <3>2. PICK x \in Frames, y \in Frames :
            /\ stack' = [stack EXCEPT ![t] = <<x, y>> \o Tail(stack[t])]
            /\ x.step = "acquire" /\ x.fn = d.fn /\ x.args = Sigs[d.fn][d.n]
            /\ x.n = 1 /\ x.sigs = <<>>
            /\ y.step = "decorate" /\ y.fn = d.fn /\ y.args = d.args
            /\ y.n = d.n + 1 /\ y.sigs = d.sigs
      BY <1>1, <2>2, DecorateShape
    <3> QED
      BY <1>1, <3>1, <3>2, AnswerPushed
  <2>3. CASE Decorated(t) \/ DecorateFails(t)
    BY <2>3, AnswerDecorator
  <2>4. CASE Result(t) \/ Template(t)
    <3>1. pc' = pc
      BY <2>4 DEF Result, Template
    <3>2. stack[t][1].step # "decorate"
      BY <1>1, <2>4, LookupShape
    <3> QED
      BY <1>1, <2>4, <3>1, <3>2, LookupAnswers, AnswerReturned, AnswerGoesOn
  <2>5. CASE Acquire(t)
    BY <1>1, <2>5, LookupShape, AnswerGoesOn
  <2>6. CASE Check(t)
    <3>1. pc' = pc
      BY <2>6 DEF Check
    <3>2. stack[t][1].step # "decorate"
      BY <1>1, <2>6, CheckShape
    <3> QED
      BY <1>1, <2>6, <3>1, <3>2, CheckAnswers, AnswerReturned, AnswerGoesOn
  <2>7. CASE BodyFails(t)
    <3>1. pc' = pc
      BY <2>7 DEF BodyFails
    <3>2. stack[t][1].step # "decorate" /\ Ends(t)
      BY <1>1, <2>7, EndShape
    <3> QED
      BY <1>1, <2>7, <3>1, <3>2, FailRight, AnswerReturned
  <2>8. CASE TypeCall(t)
    <3> DEFINE d == stack[t][1]
               call == Body[d.fn][d.args][d.n]
    <3>1. stack[t] # <<>>
      BY <1>1, <2>8, TypeCallShape, Zenon
    <3>2. PICK x \in Frames, y \in Frames :
            /\ stack' = [stack EXCEPT ![t] = <<x, y>> \o Tail(stack[t])]
            /\ x.step = StepOf(d.fn, call.fn) /\ x.fn = call.fn /\ x.args = call.args
            /\ x.n = 1 /\ x.sigs = <<>>
            /\ y.step = "resolve" /\ y.fn = d.fn /\ y.args = d.args
            /\ y.n = d.n /\ y.sigs = d.sigs /\ y.id = d.id
      BY <1>1, <2>8, TypeCallShape, Zenon
    <3>3. x.step \notin {"resolve", "decorate"}
      BY <3>2, Zenon DEF StepOf
    <3> QED
      BY <1>1, <3>1, <3>2, <3>3, AnswerPushed, Zenon
  <2>9. CASE Resolve(t)
    <3>1. pc' = pc
      BY <2>9, Zenon DEF Resolve
    <3>2. CASE Fail(t) /\ Ends(t)
      <4>1. stack[t][1].step # "decorate"
        BY <1>1, <2>9, ResolveShape
      <4> QED
        BY <1>1, <2>9, <3>1, <3>2, <4>1, FailRight, AnswerReturned
    <3>3. CASE \E x \in Frames : /\ stack' = [stack EXCEPT ![t] = <<x>> \o Tail(stack[t])]
                                 /\ x.step = "body"
      <4>1. Tail(stack[t]) \in Seq(Frames)
        <5>1. stack[t] # <<>>
          BY <1>1, <2>9, ResolveShape
        <5> QED
          BY <1>1, <5>1, SeqFacts DEF TypeInv
      <4> QED
        BY <1>1, <3>3, <4>1, AnswerOnTop
    <3> QED
      BY <1>1, <2>9, <3>2, <3>3, ResolveShape, Zenon
  <2>10. CASE Finish(t)
    <3>1. pc' = pc
      BY <2>10 DEF Finish
    <3>2. stack[t][1].step # "decorate" /\ Ends(t)
      BY <1>1, <2>10, EndShape
    <3> QED
      BY <1>1, <2>10, <3>1, <3>2, FinishRight, AnswerReturned
  <2> QED
    BY <2>1, <2>2, <2>3, <2>4, <2>5, <2>6, <2>7, <2>8, <2>9, <2>10 DEF Step
<1> QED
  BY <1>2, <1>3

\* What is remembered: refusals.
LEMMA FailedStep ==
  ASSUME Base, OutcomeInv, NEW t \in Threads, Step(t)
  PROVE  \A f \in Functions : \A a \in failed'[f] : Outcome[f][a] = "TypingError"
<1>1. TypeInv /\ StackInv /\ JustifiedInv
  BY BaseParts, OutcomeParts
<1>2. CASE failed' = failed
  BY <1>1, <1>2 DEF JustifiedInv
<1>3. CASE failed' # failed
  <2>1. BodyFails(t) \/ (Resolve(t) /\ Fail(t))
    BY <1>3, Zenon DEF Step, Start, DecorateSig, Decorated, DecorateFails, Result, Template,
       Acquire, Check, TypeCall, Resolve, Finish
  <2>2. Right(t) /\ ret'[t] = "TypingError"
    BY <2>1, FailRight
  <2>3. PICK d \in Frames : d = stack[t][1] /\ d.step \in CompileSteps
    BY <1>1, <2>1, EndShape, ResolveShape DEF Ends, CompileSteps
  <2>4. Outcome[d.fn][d.args] = "TypingError"
    BY <2>2, <2>3, DueOfCompile DEF Right
  <2>5. failed' = [failed EXCEPT ![d.fn] = @ \cup {d.args}]
    BY <2>1, <2>3 DEF BodyFails, Fail, Top
  <2>6. failed \in [Functions -> SUBSET ArgLists] /\ d.fn \in Functions
    BY <1>1, <2>3 DEF TypeInv, Frames
  <2>7. \A f \in Functions : \A a \in failed'[f] : a \in failed[f] \/ (f = d.fn /\ a = d.args)
    BY <2>5, <2>6
  <2> QED
    BY <1>1, <2>4, <2>7 DEF JustifiedInv
<1> QED
  BY <1>2, <1>3

\* What is remembered: versions.
LEMMA JustifiedStep ==
  ASSUME Base, OutcomeInv, NEW t \in Threads, Step(t)
  PROVE  JustifiedInv'
<1>1. TypeInv /\ StackInv /\ LinkInv /\ JustifiedInv /\ WorkInv
  BY BaseParts, OutcomeParts
<1>2. \A f \in Functions : \A a \in failed'[f] : Outcome[f][a] = "TypingError"
  BY FailedStep
<1>3. CASE overloads' = overloads
  BY <1>1, <1>2, <1>3 DEF JustifiedInv
<1>4. CASE overloads' # overloads
  <2>1. /\ Finish(t) /\ stack[t] # <<>> /\ stack[t][1].step = "body"
        /\ stack[t][1] \in Frames /\ ret' = [ret EXCEPT ![t] = "ok"]
    BY <1>1, <1>4, OverloadsStep
  <2>2. PICK d \in Good : d = stack[t][1]
    BY <1>1, <2>1, GoodTopFrame
  <2>3. Adds(d)
    BY <1>1, <1>4, <2>2, OverloadsStep, Zenon DEF Adds, Linked
  <2>4. /\ d \in Frames /\ d.step = "body" /\ Ready(d) /\ HasBody(d.fn, d.args)
        /\ d.n > Len(Body[d.fn][d.args])
    BY <1>1, <2>1, <2>2, ReadyTop, EndShape
  <2>5. Outcome[d.fn][d.args] = "ok"
    <3>1. Right(t)
      BY <2>1, FinishRight
    <3>2. ret'[t] = "ok"
      BY <1>1, <2>1 DEF TypeInv
    <3>3. Due(d) = Outcome[d.fn][d.args]
      BY <2>4, DueOfCompile DEF CompileSteps
    <3>4. ret'[t] = Due(d)
      BY <2>2, <3>1 DEF Right
    <3> QED
      BY <3>2, <3>3, <3>4
  <2>6. \A n \in DOMAIN Body[d.fn][d.args] :
          overloads'[d.fn][d.args].code[n].args \in Meant(d.fn, Body[d.fn][d.args][n])
    <3>1. \A n \in DOMAIN d.sigs : Linked(d)[n].args = d.sigs[n]
      BY Zenon DEF Linked
    <3>2. \A n \in DOMAIN Body[d.fn][d.args] :
            n \in DOMAIN d.sigs /\ d.sigs[n] \in Meant(d.fn, Body[d.fn][d.args][n])
      BY <2>4, Resolved
    <3> QED
      BY <2>3, <3>1, <3>2 DEF Adds
  <2>7. ASSUME NEW f \in Functions, NEW a \in DOMAIN overloads'[f]
        PROVE  /\ Outcome[f][a] = "ok" /\ a \in DOMAIN Body[f]
               /\ \A n \in DOMAIN Body[f][a] :
                    overloads'[f][a].code[n].args \in Meant(f, Body[f][a][n])
    <3>1. CASE f = d.fn /\ a = d.args
      BY <2>4, <2>5, <2>6, <3>1 DEF HasBody
    <3>2. CASE ~(f = d.fn /\ a = d.args)
      <4>1. a \in DOMAIN overloads[f] /\ overloads'[f][a] = overloads[f][a]
        BY <2>3, <2>7, <3>2 DEF Adds
      <4> QED
        BY <1>1, <4>1 DEF JustifiedInv
    <3> QED
      BY <3>1, <3>2
  <2> QED
    BY <1>2, <2>7 DEF JustifiedInv
<1> QED
  BY <1>3, <1>4

\* A function with signatures that is compiled: its decorator waits for the
\* signature, which is not compiled yet.
LEMMA CompiledFor ==
  ASSUME Base, OutcomeInv, NEW t \in Threads, NEW d \in Frames, d = stack[t][1],
         stack[t] # <<>>, Compiling(d), Sigs[d.fn] # <<>>
  PROVE  \E y \in Begins :
           /\ y = stack[t][2] /\ Len(stack[t]) = 2 /\ y.step = "decorate" /\ y.fn = d.fn
           /\ y.n \in 2 .. Len(Sigs[d.fn]) + 1 /\ d.args = Sigs[d.fn][y.n - 1]
           /\ d.fn \notin decorated /\ Begun(d.fn)
           /\ \A n \in 1 .. y.n - 2 : Compiled(d.fn, n)
           /\ \A a \in DOMAIN overloads[d.fn] : \E n \in 1 .. y.n - 2 : a = Sigs[d.fn][n]
           /\ d.args \notin DOMAIN overloads[d.fn]
<1>1. TypeInv /\ StackInv /\ PurposeInv /\ DecoratedInv /\ NewInv /\ WorkInv
  BY BaseParts, OutcomeParts
<1>2. /\ Tail(stack[t]) # <<>> /\ stack[t][2] \in Frames /\ ForDecorator(d, stack[t][2])
  <2>1. d.step \in CompileSteps
    BY DEF Compiling, CompileSteps
  <2> QED
    BY <1>1, <2>1, Compiles
<1>3. PICK y \in Frames : y = stack[t][2]
  BY <1>2
<1>4. /\ y.step = "decorate" /\ y.n \in 2 .. Len(Sigs[y.fn]) + 1
      /\ d.fn = y.fn /\ d.args = Sigs[y.fn][y.n - 1]
  BY <1>2, <1>3 DEF ForDecorator
<1>5. /\ Len(stack[t]) = 2 /\ Decorating(t) /\ Statement(t).fn = y.fn
      /\ y.fn \notin decorated /\ y.fn \in Functions
  BY <1>1, <1>2, <1>3, <1>4, ForTheDecorator
<1>6. y \in Begins
  BY <1>1, <1>3, <1>5 DEF WorkInv, Stacked
<1>7. Begun(y.fn)
  <2>1. pc[t] - 1 \in 1 .. Len(Program[t]) /\ pc[t] > 1
    BY <1>1, StatementThere
  <2>2. pc[t] - 1 \in 1 .. pc[t] - 1
    <3>1. pc[t] \in Nat
      BY <1>1 DEF TypeInv
    <3> QED
      BY <2>1, <3>1
  <2> QED
    BY <1>5, <2>2 DEF Begun, Decorating, Statement
<1>8. d.args \notin DOMAIN overloads[d.fn]
  <2>1. 1 \in 1 .. Len(stack[t])
    BY <1>5
  <2> QED
    BY <1>1, <2>1 DEF NewInv
<1>9. /\ \A n \in 1 .. y.n - 2 : Compiled(y.fn, n)
      /\ \A a \in DOMAIN overloads[y.fn] : \E n \in 1 .. y.n - 1 : a = Sigs[y.fn][n]
  BY <1>4, <1>6 DEF Begins
<1>10. \A a \in DOMAIN overloads[d.fn] : \E n \in 1 .. y.n - 2 : a = Sigs[d.fn][n]
  <2> SUFFICES ASSUME NEW a \in DOMAIN overloads[d.fn]
               PROVE  \E n \in 1 .. y.n - 2 : a = Sigs[d.fn][n]
    OBVIOUS
  <2>1. PICK n \in 1 .. y.n - 1 : a = Sigs[d.fn][n]
    BY <1>4, <1>9
  <2>2. n # y.n - 1
    BY <1>4, <1>8, <2>1
  <2>3. y.n \in Nat
    BY <1>3 DEF Frames
  <2>4. n \in 1 .. y.n - 2
    BY <2>2, <2>3
  <2> QED
    BY <2>1, <2>4
<1> QED
  BY <1>3, <1>4, <1>5, <1>6, <1>7, <1>8, <1>9, <1>10, Zenon

\* The signature a decorator compiles comes after those it compiled.
LEMMA NextPosition ==
  ASSUME NEW f \in Functions, NEW k \in 1 .. Len(Sigs[f]), NEW a \in SigSet(f),
         \A n \in 1 .. k - 1 : Sigs[f][n] # Sigs[f][k],
         \E n \in 1 .. k - 1 : a = Sigs[f][n]
  PROVE  ~(Position(f, Sigs[f][k]) < Position(f, a))
<1>1. Len(Sigs[f]) \in Nat /\ DOMAIN Sigs[f] = 1 .. Len(Sigs[f])
  BY ProgramAssumption
<1>2. PICK b \in SigSet(f) : b = Sigs[f][k]
  BY <1>1 DEF SigSet
<1>3. /\ Position(f, b) \in 1 .. Len(Sigs[f]) /\ Sigs[f][Position(f, b)] = b
  BY PositionIs
<1>4. /\ Position(f, a) \in 1 .. Len(Sigs[f])
      /\ \A m \in 1 .. Position(f, a) - 1 : Sigs[f][m] # a
  BY PositionIs
<1>5. PICK p \in Nat : p = Position(f, b)
  BY <1>3
<1>6. PICK q \in Nat : q = Position(f, a)
  BY <1>4
<1>7. p >= k
  <2>1. p \notin 1 .. k - 1
    BY <1>2, <1>3, <1>5
  <2> QED
    BY <1>1, <1>3, <1>5, <2>1
<1>8. q < k
  <2>1. PICK n \in 1 .. k - 1 : a = Sigs[f][n]
    OBVIOUS
  <2>2. n \notin 1 .. q - 1
    BY <1>4, <1>6, <2>1
  <2> QED
    BY <1>1, <1>6, <2>2
<1> QED
  BY <1>1, <1>2, <1>5, <1>6, <1>7, <1>8

\* A decorator that returns has compiled its signatures.
LEMMA SignedWhenDecorated ==
  ASSUME Base, OutcomeInv, NEW t \in Threads, Decorated(t)
  PROVE  /\ decorated' = decorated \cup {stack[t][1].fn}
         /\ \A n \in 1 .. Len(Sigs[stack[t][1].fn]) : Compiled(stack[t][1].fn, n)
<1>1. TypeInv /\ StackInv
  BY BaseParts
<1>2. /\ stack[t] # <<>> /\ stack[t][1].step = "decorate" /\ ret[t] = "ok"
      /\ stack[t][1].n > Len(Sigs[stack[t][1].fn])
  BY <1>1, EndShape DEF Ends
<1>3. decorated' = decorated \cup {stack[t][1].fn}
  BY DEF Decorated, Top
<1>4. PICK d : d = stack[t][1]
  OBVIOUS
<1>5. /\ d \in Frames /\ d.n \in 1 .. Len(Sigs[d.fn]) + 1
      /\ \A n \in 1 .. d.n - 1 : Compiled(d.fn, n)
  BY <1>2, <1>4, DecoratorSoFar
<1>6. Len(Sigs[d.fn]) \in Nat
  BY <1>5, ProgramAssumption DEF Frames
<1>7. d.n - 1 = Len(Sigs[d.fn])
  BY <1>2, <1>4, <1>5, <1>6
<1> QED
  BY <1>3, <1>4, <1>5, <1>7

LEMMA SignedStep ==
  ASSUME Base, OutcomeInv, NEW t \in Threads, Step(t)
  PROVE  SignedInv'
<1>1. TypeInv /\ StackInv /\ LinkInv /\ SignedInv /\ WorkInv
  BY BaseParts, OutcomeParts
<1> SUFFICES ASSUME NEW f \in Functions, Sigs[f] # <<>> PROVE Signed(f)'
  BY DEF SignedInv
<1>2. /\ DOMAIN overloads[f] \subseteq SigSet(f)
      /\ DOMAIN overloads[f] # {} => Begun(f)
      /\ f \in decorated => \A n \in 1 .. Len(Sigs[f]) : Compiled(f, n)
      /\ \A a, b \in DOMAIN overloads[f] :
           Position(f, a) < Position(f, b) => overloads[f][a].id < overloads[f][b].id
  BY <1>1 DEF SignedInv, Signed
<1>3. Begun(f) => Begun(f)'
  BY <1>1, BegunGrows
<1>4. CASE overloads' = overloads
  <2>1. f \in decorated' => \A n \in 1 .. Len(Sigs[f]) : Compiled(f, n)
    <3>1. CASE Decorated(t)
      BY <1>2, <3>1, SignedWhenDecorated
    <3>2. CASE ~Decorated(t)
      BY <1>1, <1>2, <3>2, OtherThreads
    <3> QED
      BY <3>1, <3>2
  <2> QED
    BY <1>2, <1>3, <1>4, <2>1 DEF Signed, Compiled
<1>5. CASE overloads' # overloads
  <2>1. /\ Finish(t) /\ stack[t] # <<>> /\ stack[t][1] \in Frames
        /\ stack[t][1].step = "body" /\ ~Decorated(t)
    BY <1>1, <1>5, OverloadsStep, EndShape
  <2>2. PICK d \in Good : d = stack[t][1]
    BY <1>1, <2>1, GoodTopFrame
  <2>3. Adds(d)
    BY <1>1, <1>5, <2>2, OverloadsStep, Zenon DEF Adds, Linked
  <2>4. decorated' = decorated
    BY <1>1, <2>1, OtherThreads
  <2>5. CASE f # d.fn
    <3>1. overloads'[f] = overloads[f]
      BY <2>3, <2>5 DEF Adds
    <3> QED
      BY <1>2, <1>3, <2>4, <3>1 DEF Signed, Compiled
  <2>6. CASE f = d.fn
    <3>1. d \in Frames /\ Compiling(d)
      BY <2>1, <2>2 DEF Compiling, Frames
    <3>2. PICK y \in Begins :
            /\ y.n \in 2 .. Len(Sigs[f]) + 1 /\ d.args = Sigs[f][y.n - 1]
            /\ f \notin decorated /\ Begun(f)
            /\ \A n \in 1 .. y.n - 2 : Compiled(f, n)
            /\ \A a \in DOMAIN overloads[f] : \E n \in 1 .. y.n - 2 : a = Sigs[f][n]
            /\ d.args \notin DOMAIN overloads[f]
      <4>1. PICK y \in Begins :
              /\ y = stack[t][2] /\ Len(stack[t]) = 2 /\ y.step = "decorate" /\ y.fn = d.fn
              /\ y.n \in 2 .. Len(Sigs[d.fn]) + 1 /\ d.args = Sigs[d.fn][y.n - 1]
              /\ d.fn \notin decorated /\ Begun(d.fn)
              /\ \A n \in 1 .. y.n - 2 : Compiled(d.fn, n)
              /\ \A a \in DOMAIN overloads[d.fn] : \E n \in 1 .. y.n - 2 : a = Sigs[d.fn][n]
              /\ d.args \notin DOMAIN overloads[d.fn]
        BY <2>1, <2>2, <2>6, <3>1, CompiledFor
      <4>2. Begun(f) /\ \A n \in 1 .. y.n - 2 : Compiled(f, n)
        BY <2>6, <4>1 DEF Begun, Compiled
      <4> QED
        BY <2>6, <4>1, <4>2, Zenon
    <3>3. Len(Sigs[f]) \in Nat /\ DOMAIN Sigs[f] = 1 .. Len(Sigs[f])
      BY ProgramAssumption
    <3>4. PICK k \in 1 .. Len(Sigs[f]) : k = y.n - 1 /\ k - 1 = y.n - 2 /\ d.args = Sigs[f][k]
      BY <3>2, <3>3
    <3>5. d.args \in SigSet(f)
      BY <3>3, <3>4 DEF SigSet
    <3>6. /\ DOMAIN overloads'[f] = DOMAIN overloads[f] \cup {d.args}
          /\ \A a \in DOMAIN overloads[f] : overloads'[f][a] = overloads[f][a]
          /\ overloads'[f][d.args].id = d.id
      BY <2>3, <2>6, <3>2 DEF Adds
    <3>7. \A n \in 1 .. k - 1 : Sigs[f][n] # Sigs[f][k]
      BY <3>2, <3>4 DEF Compiled
    <3>8. \A a \in DOMAIN overloads[f] : ~(Position(f, d.args) < Position(f, a))
      BY <1>2, <3>2, <3>4, <3>7, NextPosition
    <3>9. \A a \in DOMAIN overloads[f] : overloads[f][a].id < d.id
      BY <2>6, <3>1 DEF Good
    <3>10. ~(Position(f, d.args) < Position(f, d.args))
      BY <3>3, <3>5, PositionIs
    <3>11. \A a, b \in DOMAIN overloads'[f] :
             Position(f, a) < Position(f, b) => overloads'[f][a].id < overloads'[f][b].id
      <4> SUFFICES ASSUME NEW a \in DOMAIN overloads'[f], NEW b \in DOMAIN overloads'[f],
                          Position(f, a) < Position(f, b)
                   PROVE  overloads'[f][a].id < overloads'[f][b].id
        OBVIOUS
      <4>1. a # d.args
        BY <3>6, <3>8, <3>10
      <4>2. a \in DOMAIN overloads[f] /\ overloads'[f][a] = overloads[f][a]
        BY <3>6, <4>1
      <4>3. CASE b = d.args
        BY <3>6, <3>9, <4>2, <4>3
      <4>4. CASE b \in DOMAIN overloads[f]
        BY <1>2, <3>6, <4>2, <4>4
      <4> QED
        BY <3>6, <4>3, <4>4
    <3> QED
      BY <1>2, <1>3, <2>4, <3>2, <3>5, <3>6, <3>11 DEF Signed, Compiled
  <2> QED
    BY <2>5, <2>6
<1> QED
  BY <1>4, <1>5

LEMMA GoodAtFirst ==
  ASSUME NEW x \in Frames, x.sigs = <<>>, ~Compiling(x)
  PROVE  x \in Good
<1>1. Len(<<>>) = 0
  OBVIOUS
<1>2. 1 .. Len(x.sigs) = {}
  BY <1>1
<1> QED
  BY <1>2 DEF Good

LEMMA GoodStands ==
  ASSUME NEW d \in Good, NEW x \in Frames, x.fn = d.fn, x.args = d.args, x.sigs = d.sigs,
         x.step # "decorate",
         Compiling(x) => /\ Accepted(x)
                         /\ \A a \in DOMAIN overloads[x.fn] : overloads[x.fn][a].id < x.id
  PROVE  x \in Good /\ Stands(x, d, Good \X Frames, Begins)
<1>1. \A k \in 1 .. Len(d.sigs) :
        LET call == Body[d.fn][d.args][k]
        IN  d.sigs[k] \in Meant(d.fn, call) /\ Outcome[call.fn][d.sigs[k]] = "ok"
  BY DEF Good
<1>2. x \in Good
  BY <1>1 DEF Good, Accepted
<1>3. x \in Begins
  BY <1>2 DEF Begins
<1> QED
  BY <1>2, <1>3 DEF Stands

WorkOf(t) == Stacked(stack'[t], Good \X Frames, Begins)

LEMMA WorkBecomes ==
  ASSUME Base, WorkInv, NEW t \in Threads, stack[t] # <<>>, NEW x \in Frames,
         stack' = [stack EXCEPT ![t] = <<x>> \o Tail(stack[t])],
         Stands(x, stack[t][1], Good \X Frames, Begins)
  PROVE  WorkOf(t)
<1>1. stack[t] \in Seq(Frames) /\ stack'[t] = <<x>> \o Tail(stack[t])
  BY BaseParts DEF TypeInv
<1>2. Stacked(stack[t], Good \X Frames, Begins)
  BY DEF WorkInv
<1> QED
  BY <1>1, <1>2, StackedBecome DEF WorkOf

LEMMA WorkPushes ==
  ASSUME Base, WorkInv, NEW t \in Threads, stack[t] # <<>>, NEW x \in Good, NEW y \in Frames,
         stack' = [stack EXCEPT ![t] = <<x, y>> \o Tail(stack[t])],
         Stands(y, stack[t][1], Good \X Frames, Begins)
  PROVE  WorkOf(t)
<1>1. stack[t] \in Seq(Frames) /\ stack'[t] = <<x, y>> \o Tail(stack[t])
  BY BaseParts DEF TypeInv
<1>2. Stacked(stack[t], Good \X Frames, Begins) /\ x \in Frames
  BY Zenon DEF WorkInv, Good
<1>3. <<x, y>> \in Good \X Frames
  OBVIOUS
<1> QED
  BY <1>1, <1>2, <1>3, StackedPush DEF WorkOf

LEMMA WorkEnds ==
  ASSUME Base, WorkInv, NEW t \in Threads, Ends(t)
  PROVE  WorkOf(t)
<1>1. stack[t] \in Seq(Frames) /\ stack[t] # <<>> /\ stack'[t] = Tail(stack[t])
  BY BaseParts DEF TypeInv, Ends
<1>2. Stacked(stack[t], Good \X Frames, Begins)
  BY DEF WorkInv
<1> QED
  BY <1>1, <1>2, StackedTail DEF WorkOf

LEMMA WorkGoesOn ==
  ASSUME Base, WorkInv, NEW t \in Threads, NEW p \in {"acquire", "check"}, GoesOn(t, p)
  PROVE  WorkOf(t)
<1>1. stack[t] # <<>> /\ stack[t][1] \in Good
  BY GoodTopFrame DEF GoesOn
<1>2. PICK x \in Frames :
        /\ stack' = [stack EXCEPT ![t] = <<x>> \o Tail(stack[t])]
        /\ x.step = p /\ x.fn = stack[t][1].fn /\ x.args = stack[t][1].args
        /\ x.sigs = stack[t][1].sigs
  BY DEF GoesOn
<1>3. ~Compiling(x) /\ x.step # "decorate"
  BY <1>2 DEF Compiling
<1>4. Stands(x, stack[t][1], Good \X Frames, Begins)
  BY <1>1, <1>2, <1>3, GoodStands
<1> QED
  BY <1>1, <1>2, <1>4, WorkBecomes

LEMMA WorkCompiles ==
  ASSUME Base, OutcomeInv, NEW t \in Threads, GoesOn(t, "body"), stack'[t][1].id = ids,
         stack[t][1].step = "check", Refusal(stack[t][1].fn, stack[t][1].args) = "none"
  PROVE  WorkOf(t)
<1>1. TypeInv /\ StackInv /\ LinkInv /\ WorkInv
  BY BaseParts, OutcomeParts
<1>2. stack[t] # <<>> /\ stack[t][1] \in Good /\ stack[t][1] \in Frames
  BY <1>1, GoodTopFrame DEF GoesOn
<1>3. PICK x \in Frames :
        /\ stack' = [stack EXCEPT ![t] = <<x>> \o Tail(stack[t])]
        /\ x.step = "body" /\ x.fn = stack[t][1].fn /\ x.args = stack[t][1].args
        /\ x.sigs = stack[t][1].sigs
  BY DEF GoesOn
<1>4. x.id = ids
  <2>1. PICK r \in Seq(Frames) : r = Tail(stack[t])
    BY <1>1, <1>2, SeqFacts DEF TypeInv
  <2>2. stack'[t] = <<x>> \o r
    BY <1>1, <1>3, <2>1 DEF TypeInv
  <2>3. (<<x>> \o r)[1] = x
    OBVIOUS
  <2> QED
    BY <2>2, <2>3
<1>5. x.fn \in Functions
  BY DEF Frames
<1>6. Accepted(x)
  BY <1>3 DEF Refusal, Accepted
<1>7. \A a \in DOMAIN overloads[x.fn] : overloads[x.fn][a].id < x.id
  <2>1. PICK F \in Owners : OwnersInv(F)
    BY <1>1 DEF LinkInv
  <2> QED
    BY <1>4, <1>5, <2>1 DEF OwnersInv, Known
<1>8. Stands(x, stack[t][1], Good \X Frames, Begins)
  BY <1>2, <1>3, <1>6, <1>7, GoodStands
<1> QED
  BY <1>1, <1>2, <1>3, <1>8, WorkBecomes

LEMMA WorkResolves ==
  ASSUME Base, OutcomeInv, NEW t \in Threads, Resolve(t), ret[t] = "ok",
         NEW s \in Best(CallOf(stack[t][1]).fn, CallOf(stack[t][1]).args), NEW x \in Frames,
         stack' = [stack EXCEPT ![t] = <<x>> \o Tail(stack[t])],
         x.step = "body", x.fn = stack[t][1].fn, x.args = stack[t][1].args,
         x.sigs = Append(stack[t][1].sigs, s), x.id = stack[t][1].id
  PROVE  WorkOf(t)
<1>1. /\ TypeInv /\ StackInv /\ LinkInv /\ JustifiedInv /\ SignedInv /\ WorkInv /\ AnswerInv(t)
  BY BaseParts, OutcomeParts
<1>2. /\ stack[t] # <<>> /\ stack[t][1] \in Frames /\ stack[t][1].step = "resolve"
      /\ CallOf(stack[t][1]) \in CallsOf(stack[t][1].fn)
      /\ CallOf(stack[t][1]).fn \in Functions /\ CallOf(stack[t][1]).args \in ArgLists
  BY <1>1, ResolveShape
<1>3. PICK d \in Good : d = stack[t][1]
  BY <1>1, <1>2, GoodTopFrame
<1>4. PICK call : call = CallOf(stack[t][1])
  OBVIOUS
<1>5. s \in Meant(d.fn, call) /\ Outcome[call.fn][s] = "ok"
  <2>1. ret[t] = "ok" => \A r \in Best(call.fn, call.args) :
          r \in Meant(stack[t][1].fn, call) /\ Outcome[call.fn][r] = "ok"
    BY <1>1, <1>2, <1>4, Chosen
  <2> QED
    BY <1>3, <1>4, <2>1
<1>6. Ready(d) /\ d \in Frames /\ d.step = "resolve"
  BY <1>1, <1>2, <1>3, ReadyTop
<1>7. PICK q \in Seq(ArgLists) : q = d.sigs
  BY <1>6 DEF Frames
<1>8. PICK m \in Nat : m = Len(q) /\ d.n = m + 1
  <2>1. Len(q) = d.n - 1 /\ Len(q) \in Nat /\ d.n \in Nat
    BY <1>6, <1>7 DEF Ready, Frames
  <2> QED
    BY <2>1
<1>9. \A k \in 1 .. m : d.sigs[k] \in Meant(d.fn, Body[d.fn][d.args][k])
                        /\ Outcome[Body[d.fn][d.args][k].fn][d.sigs[k]] = "ok"
  BY <1>7, <1>8, Zenon DEF Good
<1>10. s \in ArgLists
  BY <1>1, <1>2 DEF Best, TypeInv
<1>11. /\ Len(x.sigs) = m + 1 /\ x.sigs[m + 1] = s
       /\ \A k \in 1 .. m : x.sigs[k] = d.sigs[k]
  BY <1>3, <1>7, <1>8, <1>10
<1>12. call = Body[d.fn][d.args][m + 1]
  BY <1>3, <1>4, <1>8, Zenon DEF CallOf
<1>13. ASSUME NEW k \in 1 .. Len(x.sigs)
       PROVE  /\ x.sigs[k] \in Meant(x.fn, Body[x.fn][x.args][k])
              /\ Outcome[Body[x.fn][x.args][k].fn][x.sigs[k]] = "ok"
  <2>1. k \in 1 .. m \/ k = m + 1
    BY <1>11
  <2> QED
    BY <1>3, <1>5, <1>9, <1>11, <1>12, <2>1, Zenon
<1>14. x \in Good
  <2>1. Compiling(x) /\ Kind[x.fn] = "KERNEL" => ArgumentError(x.args) = "none"
    BY <1>3, <1>6, Zenon DEF Good, Compiling
  <2>2. \A a \in DOMAIN overloads[x.fn] : overloads[x.fn][a].id < x.id
    BY <1>3, <1>6, Zenon DEF Good, Compiling
  <2> QED
    BY <1>13, <2>1, <2>2, Zenon DEF Good
<1>15. Stands(x, stack[t][1], Good \X Frames, Begins)
  BY <1>14 DEF Stands, Begins
<1> QED
  BY <1>1, <1>2, <1>15, WorkBecomes

LEMMA NotBegun ==
  ASSUME TypeInv, NEW t \in Threads, pc[t] \in 1 .. Len(Program[t]),
         Program[t][pc[t]].op = "decorate"
  PROVE  ~Begun(Program[t][pc[t]].fn)
<1> SUFFICES ASSUME Begun(Program[t][pc[t]].fn) PROVE FALSE
  OBVIOUS
<1>1. PICK v \in Threads : \E n \in 1 .. pc[v] - 1 :
        Program[v][n].op = "decorate" /\ Program[v][n].fn = Program[t][pc[t]].fn
  BY DEF Begun
<1>2. PICK n \in 1 .. pc[v] - 1 :
        Program[v][n].op = "decorate" /\ Program[v][n].fn = Program[t][pc[t]].fn
  BY <1>1
<1>3. n \in 1 .. Len(Program[v])
  <2>1. pc[v] \in 1 .. Len(Program[v]) + 1 /\ Len(Program[v]) \in Nat
    BY ProgramAssumption DEF TypeInv
  <2> QED
    BY <2>1
<1>4. v = t /\ n = pc[t]
  BY <1>2, <1>3, DecoratedOnce
<1>5. pc[t] \in Nat
  BY DEF TypeInv
<1> QED
  BY <1>4, <1>5

LEMMA WorkStarts ==
  ASSUME Base, OutcomeInv, NEW t \in Threads, Start(t)
  PROVE  WorkOf(t)
<1>1. TypeInv /\ SignedInv
  BY BaseParts, OutcomeParts
<1> DEFINE s == Program[t][pc[t]]
<1>2. pc[t] \in 1 .. Len(Program[t]) /\ s.fn \in Functions
  BY <1>1, StartShape
<1>3. PICK x \in Frames :
        /\ stack' = [stack EXCEPT ![t] = <<x>>]
        /\ x.fn = s.fn /\ x.args = s.args /\ x.n = 1 /\ x.sigs = <<>>
        /\ x.step = IF s.op = "decorate" THEN "decorate" ELSE "result"
  BY <1>1, StartShape
<1>4. x \in Good
  BY <1>3, GoodAtFirst DEF Compiling
<1>5. x \in Begins
  <2>1. CASE s.op # "decorate"
    BY <1>3, <1>4, <2>1 DEF Begins
  <2>2. CASE s.op = "decorate"
    <3>1. ~Begun(s.fn)
      BY <1>1, <1>2, <2>2, NotBegun
    <3>2. Sigs[s.fn] # <<>> => DOMAIN overloads[s.fn] = {}
      BY <1>1, <1>2, <3>1 DEF SignedInv, Signed
    <3>3. Len(Sigs[s.fn]) \in Nat
      BY <1>2, ProgramAssumption
    <3>4. 1 <= Len(Sigs[s.fn]) + 1 /\ 1 .. 1 - 2 = {}
      BY <3>3
    <3> HIDE DEF s
    <3> QED
      BY <1>3, <1>4, <3>2, <3>4 DEF Begins
  <2> QED
    BY <2>1, <2>2
<1>6. stack'[t] = <<x>>
  BY <1>1, <1>3 DEF TypeInv
<1>7. Stacked(<<x>>, Good \X Frames, Begins)
  <2>1. Len(<<x>>) = 1 /\ <<x>>[1] = x
    OBVIOUS
  <2> QED
    BY <1>5, <2>1 DEF Stacked
<1> QED
  BY <1>6, <1>7 DEF WorkOf

LEMMA WorkDecorates ==
  ASSUME Base, OutcomeInv, NEW t \in Threads, DecorateSig(t)
  PROVE  WorkOf(t)
<1>1. TypeInv /\ StackInv /\ WorkInv
  BY BaseParts, OutcomeParts
<1> DEFINE d == stack[t][1]
<1>2. /\ stack[t] # <<>> /\ d \in Frames /\ d.step = "decorate" /\ ret[t] = "ok"
      /\ d.n \in 1 .. Len(Sigs[d.fn]) /\ d.fn \in Functions
  BY <1>1, DecorateShape DEF Frames
<1>3. PICK x \in Frames, y \in Frames :
        /\ stack' = [stack EXCEPT ![t] = <<x, y>> \o Tail(stack[t])]
        /\ x.step = "acquire" /\ x.fn = d.fn /\ x.args = Sigs[d.fn][d.n]
        /\ x.n = 1 /\ x.sigs = <<>>
        /\ y.step = "decorate" /\ y.fn = d.fn /\ y.args = d.args
        /\ y.n = d.n + 1 /\ y.sigs = d.sigs
  BY <1>1, DecorateShape
<1>4. x \in Good
  BY <1>3, GoodAtFirst DEF Compiling
<1>5. d \in Begins /\ \A n \in 1 .. d.n - 1 : Compiled(d.fn, n)
  BY <1>2, DecoratorSoFar
<1>6. d.n \in Nat /\ Len(Sigs[d.fn]) \in Nat
  BY <1>2, ProgramAssumption DEF Frames
<1> HIDE DEF d
<1>7. y \in Good
  <2>1. \A k \in 1 .. Len(d.sigs) :
          LET call == Body[d.fn][d.args][k]
          IN  d.sigs[k] \in Meant(d.fn, call) /\ Outcome[call.fn][d.sigs[k]] = "ok"
    BY <1>5 DEF Begins, Good
  <2> QED
    BY <1>3, <2>1, Zenon DEF Good, Compiling
<1>8. y \in Begins
  <2>1. y.n <= Len(Sigs[y.fn]) + 1 /\ y.n - 2 = d.n - 1 /\ y.n - 1 = d.n
    BY <1>2, <1>3, <1>6
  <2>2. \A n \in 1 .. y.n - 2 : Sigs[y.fn][n] \in DOMAIN overloads[y.fn]
    BY <1>3, <1>5, <2>1 DEF Compiled
  <2>3. Sigs[y.fn] # <<>> =>
          \A a \in DOMAIN overloads[y.fn] : \E n \in 1 .. y.n - 1 : a = Sigs[y.fn][n]
    <3>1. Sigs[d.fn] # <<>> =>
            \A a \in DOMAIN overloads[d.fn] : \E n \in 1 .. d.n - 1 : a = Sigs[d.fn][n]
      BY <1>2, <1>5 DEF Begins
    <3>2. 1 .. d.n - 1 \subseteq 1 .. y.n - 1
      BY <1>6, <2>1
    <3> QED
      BY <1>3, <3>1, <3>2
  <2> QED
    BY <1>7, <2>1, <2>2, <2>3 DEF Begins, Compiled
<1>9. Stands(y, stack[t][1], Good \X Frames, Begins)
  BY <1>7, <1>8 DEF Stands
<1> QED
  BY <1>1, <1>2, <1>3, <1>4, <1>9, WorkPushes

LEMMA WorkTypes ==
  ASSUME Base, OutcomeInv, NEW t \in Threads, TypeCall(t)
  PROVE  WorkOf(t)
<1>1. TypeInv /\ StackInv /\ WorkInv
  BY BaseParts, OutcomeParts
<1> DEFINE d == stack[t][1]
           call == Body[d.fn][d.args][d.n]
<1>2. stack[t] # <<>> /\ d \in Frames /\ d.step = "body"
  BY <1>1, TypeCallShape, Zenon
<1>3. PICK x \in Frames, y \in Frames :
        /\ stack' = [stack EXCEPT ![t] = <<x, y>> \o Tail(stack[t])]
        /\ x.step = StepOf(d.fn, call.fn) /\ x.fn = call.fn /\ x.args = call.args
        /\ x.n = 1 /\ x.sigs = <<>>
        /\ y.step = "resolve" /\ y.fn = d.fn /\ y.args = d.args
        /\ y.n = d.n /\ y.sigs = d.sigs /\ y.id = d.id
  BY <1>1, TypeCallShape, Zenon
<1>4. x \in Good
  BY <1>3, GoodAtFirst, Zenon DEF Compiling, StepOf
<1>5. d \in Good
  BY <1>1, <1>2, GoodTopFrame
<1>6. Accepted(y) /\ \A a \in DOMAIN overloads[y.fn] : overloads[y.fn][a].id < y.id
  BY <1>2, <1>3, <1>5, Zenon DEF Good, Compiling, Accepted
<1>7. Stands(y, stack[t][1], Good \X Frames, Begins)
  BY <1>3, <1>5, <1>6, GoodStands, Zenon
<1> QED
  BY <1>1, <1>2, <1>3, <1>4, <1>7, WorkPushes, Zenon

\* A new version leaves the other compilations alone: no other is of its function.
LEMMA GoodKept ==
  ASSUME Base, NEW t \in Threads, stack[t] # <<>>, Compiling(stack[t][1]), Adds(stack[t][1]),
         NEW u \in Threads, NEW n \in 1 .. Len(stack[u]), u # t \/ n # 1,
         stack[u][n] \in Good
  PROVE  stack[u][n] \in Good'
<1>1. TypeInv /\ StackInv /\ LockInv
  BY BaseParts
<1>2. PICK e \in Good : e = stack[u][n]
  OBVIOUS
<1>3. e \in Frames /\ e.fn \in Functions
  BY Zenon DEF Good, Frames
<1>4. 1 \in 1 .. Len(stack[t])
  BY <1>1, SeqFacts DEF TypeInv
<1>5. Compiling(e) => e.fn # stack[t][1].fn
  <2>1. CASE u # t
    BY <1>1, <1>2, <1>4, <2>1, Exclusive
  <2>2. CASE u = t /\ Compiling(e)
    <3>1. stack[t] \in Seq(Frames) /\ \A m \in 1 .. Len(stack[t]) : FrameInv(stack[t], m)
      BY <1>1 DEF TypeInv, StackInv
    <3>2. n \in 2 .. Len(stack[t])
      <4>1. n \in Nat /\ n >= 2 /\ n <= Len(stack[t]) /\ Len(stack[t]) \in Nat
        <5>1. Len(stack[t]) \in Nat
          BY <3>1, SeqFacts
        <5> QED
          BY <2>2, <5>1
      <4> QED
        BY <4>1
    <3>3. stack[t][n].step = "resolve"
      <4>1. n > 1
        BY <3>2
      <4>2. FrameInv(stack[t], n)
        BY <2>2, <3>1
      <4> QED
        BY <1>2, <2>2, <4>1, <4>2 DEF FrameInv, Compiling
    <3> QED
      BY <1>2, <2>2, <3>1, <3>2, <3>3, Distinct
  <2> QED
    BY <2>1, <2>2
<1>6. Compiling(e) => overloads'[e.fn] = overloads[e.fn]
  BY <1>3, <1>5 DEF Adds
<1>7. e \in Good'
  <2>1. /\ Compiling(e) /\ Kind[e.fn] = "KERNEL" => ArgumentError(e.args) = "none"
        /\ \A k \in 1 .. Len(e.sigs) :
             LET call == Body[e.fn][e.args][k]
             IN  e.sigs[k] \in Meant(e.fn, call) /\ Outcome[call.fn][e.sigs[k]] = "ok"
        /\ Compiling(e) => \A a \in DOMAIN overloads[e.fn] : overloads[e.fn][a].id < e.id
    BY Zenon DEF Good
  <2>2. Compiling(e) => \A a \in DOMAIN overloads'[e.fn] : overloads'[e.fn][a].id < e.id
    BY <1>6, <2>1
  <2> QED
    BY <1>3, <2>1, <2>2, Zenon DEF Good
<1> QED
  BY <1>2, <1>7

\* The decorator of the function has a version more.
LEMMA BeginsKept ==
  ASSUME Base, OutcomeInv, NEW t \in Threads, stack[t] # <<>>, Compiling(stack[t][1]),
         Adds(stack[t][1]), Grows,
         NEW u \in Threads, NEW n \in 1 .. Len(stack[u]), n = Len(stack[u]), u # t \/ n # 1,
         stack[u][n] \in Begins
  PROVE  stack[u][n] \in Begins'
<1>1. TypeInv /\ StackInv /\ PurposeInv /\ DecoratedInv
  BY BaseParts
<1>2. PICK e \in Begins : e = stack[u][n]
  OBVIOUS
<1>3. e \in Frames /\ e.fn \in Functions /\ e \in Good
  BY Zenon DEF Begins, Good, Frames
<1>4. e \in Good'
  BY <1>2, <1>3, GoodKept
<1>5. CASE e.step # "decorate"
  BY <1>2, <1>4, <1>5 DEF Begins
<1>6. CASE e.step = "decorate"
  <2>1. /\ e.n <= Len(Sigs[e.fn]) + 1
        /\ \A m \in 1 .. e.n - 2 : Sigs[e.fn][m] \in DOMAIN overloads[e.fn]
        /\ Sigs[e.fn] # <<>> =>
             \A a \in DOMAIN overloads[e.fn] : \E m \in 1 .. e.n - 1 : a = Sigs[e.fn][m]
    BY <1>6 DEF Begins, Compiled
  <2>2. \A m \in 1 .. e.n - 2 : Sigs[e.fn][m] \in DOMAIN overloads'[e.fn]
    BY <1>3, <2>1 DEF Grows
  <2>3. ASSUME Sigs[e.fn] # <<>>, NEW a \in DOMAIN overloads'[e.fn]
        PROVE  \E m \in 1 .. e.n - 1 : a = Sigs[e.fn][m]
    <3>1. PICK d \in Frames : d = stack[t][1]
      BY <1>1, SeqFacts DEF TypeInv
    <3>2. Adds(d)
      BY <3>1, Zenon DEF Adds, Linked
    <3>3. CASE e.fn # d.fn
      <4>1. overloads'[e.fn] = overloads[e.fn]
        BY <1>3, <3>2, <3>3 DEF Adds
      <4> QED
        BY <2>1, <2>3, <4>1
    <3>4. CASE e.fn = d.fn
      <4>1. PICK y \in Begins :
              /\ y = stack[t][2] /\ Len(stack[t]) = 2 /\ y.step = "decorate" /\ y.fn = d.fn
              /\ y.n \in 2 .. Len(Sigs[d.fn]) + 1 /\ d.args = Sigs[d.fn][y.n - 1]
              /\ d.fn \notin decorated /\ Begun(d.fn)
              /\ \A m \in 1 .. y.n - 2 : Compiled(d.fn, m)
              /\ \A b \in DOMAIN overloads[d.fn] : \E m \in 1 .. y.n - 2 : b = Sigs[d.fn][m]
              /\ d.args \notin DOMAIN overloads[d.fn]
        <5>1. Sigs[d.fn] # <<>> /\ Compiling(d)
          BY <2>3, <3>1, <3>4 DEF Compiling
        <5> QED
          BY <3>1, <5>1, CompiledFor
      <4>2. stack[u] # <<>> /\ e \in Bottom(u) /\ y \in Bottom(t)
        <5>1. Len(stack[u]) # 0
          <6>1. Len(stack[u]) \in Nat
            BY <1>1, SeqFacts DEF TypeInv
          <6> QED
            BY <6>1
        <5>2. Len(<<>>) = 0
          OBVIOUS
        <5>3. stack[u] # <<>>
          BY <5>1, <5>2
        <5> QED
          BY <1>1, <1>2, <4>1, <5>3 DEF PurposeInv, Stacked
      <4>3. /\ Statement(u).op = "decorate" /\ Statement(u).fn = d.fn
            /\ Statement(t).op = "decorate" /\ Statement(t).fn = d.fn
        BY <1>6, <3>4, <4>1, <4>2 DEF Bottom, ForStatement
      <4>4. pc[u] - 1 \in 1 .. Len(Program[u]) /\ pc[t] - 1 \in 1 .. Len(Program[t])
        BY <1>1, <4>2, StatementThere
      <4>5. u = t
        BY <4>3, <4>4, DecoratedOnce DEF Statement
      <4>6. e = y
        BY <1>2, <4>1, <4>5
      <4>7. a \in DOMAIN overloads[e.fn] \/ a = d.args
        BY <2>3, <3>2, <3>4 DEF Adds
      <4>8. y.n - 1 \in 1 .. y.n - 1
        BY <4>1
      <4> QED
        BY <2>1, <2>3, <3>4, <4>1, <4>6, <4>7, <4>8
    <3> QED
      BY <3>3, <3>4
  <2> QED
    BY <1>2, <1>4, <2>1, <2>2, <2>3 DEF Begins, Compiled
<1> QED
  BY <1>5, <1>6

LEMMA WorkAfterFinish ==
  ASSUME Base, OutcomeInv, NEW t \in Threads, Ends(t), Compiling(stack[t][1]),
         Adds(stack[t][1]), Grows, \A u \in Threads \ {t} : stack'[u] = stack[u],
         NEW u \in Threads
  PROVE  Stacked(stack[u], Good \X Frames, Begins)'
<1>1. TypeInv /\ WorkInv /\ stack[t] # <<>>
  BY BaseParts, OutcomeParts DEF Ends
<1>2. Stacked(stack[u], Good \X Frames, Begins)
  BY <1>1 DEF WorkInv
<1>3. PICK s \in Seq(Frames) : s = stack[u]
  BY <1>1 DEF TypeInv
<1>4. PICK l \in Nat : l = Len(s)
  OBVIOUS
<1>5. \A n \in 1 .. l - 1 : s[n] \in Good /\ s[n + 1] \in Frames
  BY <1>2, <1>3, <1>4 DEF Stacked
<1>6. ASSUME NEW n \in 1 .. l - 1, u # t \/ n # 1 PROVE s[n] \in Good'
  <2>1. n \in 1 .. l
    BY <1>4
  <2> QED
    BY <1>1, <1>3, <1>4, <1>5, <1>6, <2>1, GoodKept
<1>7. ASSUME l # 0, u # t \/ l # 1 PROVE s[l] \in Begins'
  <2>1. l \in 1 .. Len(stack[u]) /\ l = Len(stack[u])
    BY <1>3, <1>4, <1>7
  <2>2. stack[u][l] \in Begins
    <3>1. stack[u] # <<>>
      BY <1>3, <1>4, <1>7
    <3> QED
      BY <1>2, <2>1, <3>1 DEF Stacked
  <2>3. stack[u][l] \in Begins'
    BY <1>1, <1>7, <2>1, <2>2, BeginsKept
  <2> QED
    BY <1>3, <2>3
<1>8. CASE u # t
  <2>1. stack'[u] = s
    BY <1>3, <1>8
  <2>2. \A n \in 1 .. Len(s) - 1 : <<s[n], s[n + 1]>> \in Good' \X Frames
    BY <1>4, <1>5, <1>6, <1>8
  <2>3. s # <<>> => s[Len(s)] \in Begins'
    BY <1>4, <1>7, <1>8
  <2> QED
    BY <2>1, <2>2, <2>3 DEF Stacked
<1>9. CASE u = t
  <2>1. PICK r \in Seq(Frames) : r = Tail(s)
    <3>1. s # <<>>
      BY <1>1, <1>3, <1>9
    <3> QED
      BY <3>1, SeqFacts
  <2>2. stack'[u] = r /\ s # <<>> /\ l # 0
    BY <1>1, <1>3, <1>4, <1>9, <2>1 DEF Ends, TypeInv
  <2>3. Len(r) = l - 1 /\ \A n \in 1 .. l - 1 : r[n] = s[n + 1]
    BY <1>4, <2>1, <2>2
  <2>4. \A n \in 1 .. Len(r) - 1 : <<r[n], r[n + 1]>> \in Good' \X Frames
    <3> SUFFICES ASSUME NEW n \in 1 .. Len(r) - 1 PROVE r[n] \in Good' /\ r[n + 1] \in Frames
      OBVIOUS
    <3>1. n + 1 \in 1 .. l - 1 /\ n \in 1 .. l - 1 /\ n + 1 # 1
      BY <2>3
    <3>2. s[n + 1] \in Good' /\ s[(n + 1) + 1] \in Frames
      BY <1>5, <1>6, <3>1
    <3> QED
      BY <2>3, <3>1, <3>2
  <2>5. r # <<>> => r[Len(r)] \in Begins'
    <3> SUFFICES ASSUME r # <<>> PROVE r[Len(r)] \in Begins'
      OBVIOUS
    <3>1. Len(r) # 0
      OBVIOUS
    <3>2. l - 1 \in 1 .. l - 1 /\ (l - 1) + 1 = l /\ l # 1
      BY <2>2, <2>3, <3>1
    <3> QED
      BY <1>7, <2>2, <2>3, <3>2
  <2> QED
    BY <2>2, <2>4, <2>5 DEF Stacked
<1> QED
  BY <1>8, <1>9

LEMMA WorkStep ==
  ASSUME Base, OutcomeInv, NEW t \in Threads, Step(t)
  PROVE  WorkInv'
<1>1. TypeInv /\ StackInv /\ WorkInv
  BY BaseParts, OutcomeParts
<1>2. \A u \in Threads \ {t} : stack'[u] = stack[u]
  BY <1>1, OtherThreads
<1>3. CASE overloads' # overloads
  <2>1. /\ Ends(t) /\ stack[t][1].step = "body" /\ Adds(stack[t][1]) /\ Grows
    BY <1>1, <1>3, OverloadsStep
  <2>2. Compiling(stack[t][1])
    BY <2>1 DEF Compiling
  <2> QED
    BY <1>2, <2>1, <2>2, WorkAfterFinish DEF WorkInv
<1>4. CASE overloads' = overloads
  <2>1. Good' = Good
    BY <1>4 DEF Good
  <2>2. Begins' = Begins
    BY <1>4, <2>1 DEF Begins, Compiled
  <2>3. WorkOf(t)
    <3>1. CASE Start(t)
      BY <3>1, WorkStarts
    <3>2. CASE DecorateSig(t)
      BY <3>2, WorkDecorates
    <3>3. CASE Decorated(t) \/ DecorateFails(t) \/ BodyFails(t) \/ Finish(t)
      BY <1>1, <3>3, EndShape, WorkEnds
    <3>4. CASE Result(t) \/ Template(t) \/ Acquire(t)
      BY <1>1, <3>4, LookupShape, WorkEnds, WorkGoesOn
    <3>5. CASE Check(t)
      <4>1. stack[t][1].step = "check"
        BY <1>1, <3>5, CheckShape
      <4> QED
        BY <1>1, <3>5, <4>1, CheckAnswers, WorkEnds, WorkCompiles
    <3>6. CASE TypeCall(t)
      BY <3>6, WorkTypes
    <3>7. CASE Resolve(t)
      <4>1. CASE Ends(t)
        BY <1>1, <4>1, WorkEnds
      <4>2. CASE ~Ends(t)
        <5> DEFINE d == stack[t][1]
                   call == CallOf(d)
        <5>1. ret[t] = "ok"
          BY <1>1, <3>7, <4>2, ResolveShape
        <5>2. PICK s \in Best(call.fn, call.args), x \in Frames :
                /\ stack' = [stack EXCEPT ![t] = <<x>> \o Tail(stack[t])]
                /\ x.step = "body" /\ x.fn = d.fn /\ x.args = d.args
                /\ x.n = d.n + 1 /\ x.sigs = Append(d.sigs, s) /\ x.id = d.id
          BY <1>1, <3>7, <4>2, ResolveShape
        <5> QED
          BY <3>7, <5>1, <5>2, WorkResolves
      <4> QED
        BY <4>1, <4>2
    <3> QED
      BY <3>1, <3>2, <3>3, <3>4, <3>5, <3>6, <3>7 DEF Step
  <2>4. ASSUME NEW u \in Threads PROVE Stacked(stack'[u], Good \X Frames, Begins)
    BY <1>1, <1>2, <2>3 DEF WorkInv, WorkOf
  <2> QED
    BY <2>1, <2>2, <2>4 DEF WorkInv, Stacked
<1> QED
  BY <1>3, <1>4

----------------------------------------------------------------------------
(* The invariants hold *)

Exact == Base /\ OutcomeInv

LEMMA StackedNone ==
  ASSUME NEW R, NEW B
  PROVE  Stacked(<<>>, R, B)
<1>1. Len(<<>>) = 0
  OBVIOUS
<1>2. 1 .. Len(<<>>) - 1 = {}
  BY <1>1
<1> QED
  BY <1>2 DEF Stacked

LEMMA ExactAtFirst ==
  ASSUME Init
  PROVE  Exact
<1>1. /\ \A t \in Threads : stack[t] = <<>> /\ ret[t] = "ok" /\ pc[t] = 1
      /\ \A f \in Functions : /\ DOMAIN overloads[f] = {} /\ failed[f] = {}
                              /\ can_compile[f] = TRUE
      /\ decorated = {}
  BY DEF Init, Nothing
<1>2. DispatcherInv /\ LinkInv
  BY Initially, LinkAtFirst
<1>3. PurposeInv /\ WorkInv
  BY <1>1, StackedNone DEF PurposeInv, WorkInv
<1>4. DecoratedInv
  BY <1>1 DEF DecoratedInv, Decorating
<1>5. JustifiedInv
  BY <1>1 DEF JustifiedInv
<1>6. SignedInv
  BY <1>1 DEF SignedInv, Signed
<1>7. \A t \in Threads : AnswerInv(t)
  BY <1>1 DEF AnswerInv
<1> QED
  BY <1>2, <1>3, <1>4, <1>5, <1>6, <1>7 DEF Exact, Base, OutcomeInv

LEMMA ExactStutters ==
  ASSUME Exact, UNCHANGED vars
  PROVE  OutcomeInv' /\ PurposeInv' /\ DecoratedInv'
<1>1. /\ overloads' = overloads /\ failed' = failed /\ can_compile' = can_compile
      /\ decorated' = decorated /\ ids' = ids /\ stack' = stack /\ ret' = ret /\ pc' = pc
  BY DEF vars
<1>2. /\ JustifiedInv /\ SignedInv /\ WorkInv /\ (\A t \in Threads : AnswerInv(t))
      /\ PurposeInv /\ DecoratedInv
  BY OutcomeParts, BaseParts DEF Exact
<1>3. \A f : (Bound(f)' <=> Bound(f)) /\ (Begun(f)' <=> Begun(f))
  BY <1>1 DEF Bound, Begun
<1>4. PurposeInv'
  <2>1. Above' = Above
    BY <1>1, <1>3 DEF Above, ForDecorator, ForBody, ForCall
  <2>2. \A t \in Threads : Bottom(t)' = Bottom(t)
    BY <1>1, <1>3 DEF Bottom, ForStatement, ForCall, Statement
  <2> QED
    BY <1>1, <1>2, <2>1, <2>2 DEF PurposeInv, Stacked
<1>5. DecoratedInv'
  BY <1>1, <1>2, <1>3 DEF DecoratedInv, Decorating, Statement
<1>6. JustifiedInv'
  BY <1>1, <1>2 DEF JustifiedInv
<1>7. SignedInv'
  BY <1>1, <1>2, <1>3 DEF SignedInv, Signed, Compiled
<1>8. WorkInv'
  <2>1. Good' = Good
    BY <1>1 DEF Good
  <2>2. Begins' = Begins
    BY <1>1, <2>1 DEF Begins, Compiled
  <2> QED
    BY <1>1, <1>2, <2>1, <2>2 DEF WorkInv, Stacked
<1>9. \A t \in Threads : AnswerInv(t)'
  BY <1>1, <1>2 DEF AnswerInv, Statement, Compiled
<1> QED
  BY <1>4, <1>5, <1>6, <1>7, <1>8, <1>9 DEF OutcomeInv

\* The inductive invariant of outcomes: every frame has a purpose, what was
\* answered, compiled and refused so far is what compiling means, and decorators
\* compile their signatures in order.
THEOREM OutcomeInvariance == Spec => []Exact
<1>1. Init => Exact
  BY ExactAtFirst
<1>2. ASSUME Exact, [Next]_vars PROVE Exact'
  <2>1. /\ Base /\ OutcomeInv /\ DispatcherInv /\ LinkInv /\ TypeInv /\ StackInv
        /\ PurposeInv /\ DecoratedInv
    BY <1>2, BaseParts DEF Exact, Base
  <2>2. DispatcherInv'
    BY <1>2, <2>1, Preserved
  <2>3. CASE UNCHANGED vars
    BY <1>2, <2>1, <2>2, <2>3, LinkStutters, ExactStutters DEF Exact, Base
  <2>4. CASE \E t \in Threads : Step(t)
    <3>1. PICK t \in Threads : Step(t)
      BY <2>4
    <3>2. LinkInv' /\ PurposeInv' /\ DecoratedInv'
      BY <2>1, <3>1, LinkStep, PurposeStep, DecoratedStep
    <3>3. JustifiedInv' /\ SignedInv' /\ WorkInv' /\ \A u \in Threads : AnswerInv(u)'
      BY <2>1, <3>1, JustifiedStep, SignedStep, WorkStep, AnswerStep
    <3> QED
      BY <2>2, <3>2, <3>3 DEF Exact, Base, OutcomeInv
  <2> QED
    BY <1>2, <2>3, <2>4 DEF Next
<1>3. Exact /\ [Next]_vars => Exact'
  BY <1>2
<1> QED
  BY <1>1, <1>3, PTL DEF Spec

\* Whether a decorator or a call succeeds, and the error it raises, depend on the
\* function's source, its signatures and the arguments, and not on what any thread
\* compiled or was refused before.
THEOREM OutcomesCorrect == Spec => []OutcomeExact
<1>1. ASSUME Exact PROVE OutcomeExact
  <2>1. \A t \in Threads : AnswerInv(t)
    BY <1>1, OutcomeParts DEF Exact
  <2> QED
    BY <2>1 DEF OutcomeExact, AnswerInv, Statement
<1> QED
  BY <1>1, OutcomeInvariance, PTL

\* Compiled code calls the functions its source names, and of each the version
\* that is meant for the types of the call, also where closures share a qualified
\* name and whatever other versions there are.
THEOREM CodeCorrect == Spec => []CodeExact
<1>1. ASSUME Exact PROVE CodeExact
  <2>1. LinkInv /\ JustifiedInv
    BY <1>1, BaseParts, OutcomeParts DEF Exact
  <2>2. PICK F \in Owners : OwnersInv(F)
    BY <2>1 DEF LinkInv
  <2> SUFFICES ASSUME NEW f \in Functions, NEW a \in DOMAIN overloads[f]
               PROVE  /\ DOMAIN overloads[f][a].code = DOMAIN Body[f][a]
                      /\ \A n \in DOMAIN Body[f][a] :
                           LET to == overloads[f][a].code[n]
                           IN  /\ to.fn = Body[f][a][n].fn
                               /\ to.args \in Meant(f, Body[f][a][n])
    BY DEF CodeExact
  <2>3. IsLinked(f, a, overloads[f][a].code)
    <3>1. Known(F, f, a, overloads[f][a])
      BY <2>2 DEF OwnersInv
    <3> QED
      BY <3>1 DEF Known
  <2>4. \A n \in DOMAIN Body[f][a] : overloads[f][a].code[n].args \in Meant(f, Body[f][a][n])
    BY <2>1 DEF JustifiedInv
  <2> QED
    BY <2>3, <2>4 DEF IsLinked
<1> QED
  BY <1>1, OutcomeInvariance, PTL

\* Every overload a lookup can find is one that compile would accept, and one of
\* the signatures where the function was given any: lookups make no checks of
\* their own.
THEOREM OverloadsCorrect == Spec => []OverloadsJustified
<1>1. ASSUME Exact PROVE OverloadsJustified
  <2>1. JustifiedInv /\ SignedInv
    BY <1>1, OutcomeParts DEF Exact
  <2> SUFFICES ASSUME NEW f \in Functions, NEW a \in DOMAIN overloads[f]
               PROVE  Outcome[f][a] = "ok" /\ (Sigs[f] # <<>> => a \in SigSet(f))
    BY DEF OverloadsJustified
  <2>2. Outcome[f][a] = "ok"
    BY <2>1 DEF JustifiedInv
  <2>3. Sigs[f] # <<>> => a \in SigSet(f)
    BY <2>1, AllSigned
  <2> QED
    BY <2>2, <2>3
<1> QED
  BY <1>1, OutcomeInvariance, PTL
=============================================================================
