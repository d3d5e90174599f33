---------------------- MODULE ComputeFollowsDataProofs ----------------------
(***************************************************************************)
(* Proofs about ComputeFollowsData, for functions of any length over any   *)
(* arrays, queues and devices: the inductive invariants of the pipeline,   *)
(* that a kernel runs where its arrays are, that the USM type of a result  *)
(* follows its operands, and that a refusal has a reason in the source.    *)
(***************************************************************************)
EXTENDS ComputeFollowsData, FiniteSets, WellFoundedInduction, TLAPS

----------------------------------------------------------------------------
(* The inductive invariants *)

Statement ==
  [op : {"call"}, lhs : Nat, known : BOOLEAN, from : Nat, takes : SUBSET Nat]
    \cup [op : {"parfor"}, lhs : Nat, from : Nat, ins : SUBSET Nat, outs : SUBSET Nat]

\* The arrays a statement uses.
Uses(i) == IF IsParfor(i) THEN prog[i].ins \cup prog[i].outs ELSE prog[i].takes

\* The program: what a statement uses is defined by no later one.
ProgInv ==
  /\ prog \in Seq(Statement) /\ Len(prog) <= MaxStmts
  /\ \A i \in DOMAIN prog :
       /\ prog[i].lhs \in Var \cup {0}
       /\ IsParfor(i) \/ prog[i].lhs # 0
       /\ Uses(i) \subseteq Var
       /\ \A x \in Uses(i), j \in DOMAIN prog :
            j > i /\ prog[j].lhs # 0 => x < prog[j].lhs
       /\ prog[i].from # 0 => prog[i].lhs # 0 /\ prog[i].from < prog[i].lhs
       /\ IsParfor(i) => Uses(i) # {}
       /\ IsParfor(i) /\ prog[i].lhs # 0 =>
            prog[i].outs = {prog[i].lhs} /\ prog[i].ins # {} /\ prog[i].lhs \notin prog[i].ins

\* The first statement that has not run.
Executed == IF phase \in {"run", "done"} THEN pos ELSE 1

\* The arrays that exist are those defined by the arguments and the statements
\* that ran, in the order of their numbers.
MemoryInv ==
  /\ phase \in {"typing", "lower"} => pos = 1
  /\ Len(memory) <= Len(typed)
  /\ \A i, j \in DOMAIN prog :
       i < j /\ prog[i].lhs # 0 /\ prog[j].lhs # 0 => prog[i].lhs < prog[j].lhs
  /\ \A x \in Var :
       x > Len(memory) => \E i \in DOMAIN prog : i >= Executed /\ prog[i].lhs = x
  /\ \A i \in DOMAIN prog :
       prog[i].lhs # 0 => (prog[i].lhs > Len(memory) <=> i >= Executed)
  /\ \A x \in DOMAIN memory : memory[x].usm = typed[x].usm

\* The first statement that the pass has not seen.
Legalized ==
  CASE phase \in {"typing", "error"} -> 1
    [] phase = "cfd" -> pos
    [] OTHER -> Len(prog) + 1

\* A variable that no statement seen by the pass defines.
Pending(x) == \E j \in DOMAIN prog : j >= pos /\ prog[j].lhs = x

\* The pass only ever raises the USM type of an array it has seen, and gave
\* the result of an expression the largest of its operands.
PassInv ==
  /\ \A x \in seen : typemap[x].usm >= typed[x].usm
  /\ phase \in {"typing", "cfd"} =>
       \A x \in Var :
         /\ Pending(x) => typemap[x] = typed[x] /\ x \notin seen
         /\ ~Pending(x) /\ Known(x) => x \in seen
  /\ \A i \in DOMAIN prog :
       /\ i < Legalized /\ IsParfor(i) /\ prog[i].lhs # 0
       /\ \A x \in prog[i].ins : Known(x)
       => /\ \A x \in prog[i].ins : typed[x].usm <= typed[prog[i].lhs].usm
          /\ \E x \in prog[i].ins : x \in seen /\ typed[prog[i].lhs].usm <= typemap[x].usm

\* A loop over arrays of one type, one of which the pass knows.
Plain(i) == ~IsParfor(i) \/ (~MixesTypes(i) /\ ~NothingKnown(i))

\* While the loops are plain the pass changes no type, and a loop's lowerer is
\* for the device of its arrays.
PlainInv ==
  /\ phase = "typing" => typemap = typed /\ updated = {}
  /\ phase # "error" /\ (\A i \in DOMAIN prog : i < Legalized => Plain(i)) =>
       /\ typemap = typed /\ updated = {}
       /\ \A i \in DOMAIN prog : i < Legalized /\ IsParfor(i) =>
            \A x \in Uses(i) : lowerer[i] = {TypedDevice(typed, x)}
  /\ phase \in {"typing", "cfd"} => fused = {}
  /\ fused \subseteq Fusible

\* What is run was accepted by the lowering.
RunInv == /\ phase \in {"run", "done"} => Lowers
          /\ phase = "done" => pos > Len(prog)

IInv == TypeOK /\ ProgInv /\ MemoryInv /\ PassInv /\ PlainInv /\ RunInv /\ RefusalJustified

\* Without zeros_like(x, device=d), an array is allocated on the queue of its type.
SourceInv ==
  /\ \A i \in DOMAIN prog :
       prog[i].from # 0 => typed[prog[i].from].queue = typed[prog[i].lhs].queue
  /\ \A x \in DOMAIN memory : memory[x].queue = typed[x].queue

----------------------------------------------------------------------------
(* Lemmas about the operators of the model *)

\* Every set of numbers has a least one.
LEMMA Least ==
  ASSUME NEW S, S \subseteq Nat, S # {}
  PROVE  \E x \in S : \A y \in S : x <= y
<1> DEFINE R == OpToRel(<, Nat)
<1>1. \E x \in S : \A y \in S : <<y, x>> \notin R
  <2>1. IsWellFoundedOn(R, Nat)
    BY NatLessThanWellFounded
  <2> HIDE DEF R
  <2> QED
    BY <2>1, WFMin
<1>2. PICK x \in S : \A y \in S : <<y, x>> \notin R
  BY <1>1
<1>3. \A y, z \in Nat : <<y, z>> \in R <=> y < z
  BY DEF OpToRel
<1> HIDE DEF R
<1>4. ASSUME NEW y \in S PROVE x <= y
  <2>1. x \in Nat /\ y \in Nat
    OBVIOUS
  <2>2. ~(y < x)
    BY <1>2, <1>3, <2>1
  <2> QED
    BY <2>1, <2>2
<1> QED
  BY <1>4

\* First is the least element of a set of positions.
LEMMA FirstIsLeast ==
  ASSUME NEW S, S \subseteq Nat, S # {}
  PROVE  First(S) \in S /\ \A m \in S : First(S) <= m
  BY Least DEF First

\* Largest is the largest of a set of USM types.
LEMMA LargestIsMax ==
  ASSUME NEW S, S \subseteq 1..3, S # {}
  PROVE  Largest(S) \in S /\ \A m \in S : m <= Largest(S)
<1>1. \E n \in S : \A m \in S : m <= n
  <2>1. CASE 3 \in S
    BY <2>1
  <2>2. CASE 3 \notin S /\ 2 \in S
    BY <2>2
  <2>3. CASE 3 \notin S /\ 2 \notin S
    <3>1. \A m \in S : m = 1
      BY <2>3
    <3>2. PICK k \in S : TRUE
      OBVIOUS
    <3>3. \A m \in S : m <= k
      BY <3>1, <3>2
    <3> QED
      BY <3>3
  <2> QED
    BY <2>1, <2>2, <2>3
<1> QED
  BY <1>1 DEF Largest

\* It is the only element no other exceeds.
LEMMA LargestIsUnique ==
  ASSUME NEW S, S \subseteq 1..3, NEW n \in S, \A m \in S : m <= n
  PROVE  Largest(S) = n
<1>1. Largest(S) \in S /\ n <= Largest(S)
  BY LargestIsMax
<1>2. \A m \in S : m \in Int
  OBVIOUS
<1>3. Largest(S) <= n
  BY <1>1
<1>4. Largest(S) \in Int /\ n \in Int
  BY <1>1, <1>2
<1> QED
  BY <1>1, <1>3, <1>4

\* An expression has operands, and one type decides.
LEMMA ExpressionLeaves ==
  ASSUME NEW expr \in Expression, typed \in Seq(ArrayType)
  PROVE  /\ Leaves(expr) \subseteq Var /\ LastLeaf(expr) \in Leaves(expr)
         /\ \A i \in DOMAIN expr : DOMAIN expr[i] # {} /\ DOMAIN expr[i] \subseteq Nat
         /\ DOMAIN expr \subseteq Nat
<1> DEFINE Good == /\ Leaves(expr) \subseteq Var /\ LastLeaf(expr) \in Leaves(expr)
                   /\ \A i \in DOMAIN expr : DOMAIN expr[i] # {} /\ DOMAIN expr[i] \subseteq Nat
                   /\ DOMAIN expr \subseteq Nat
<1>1. ASSUME NEW x \in Var, expr = <<<<x>>>> PROVE Good
  BY <1>1 DEF Leaves, LastLeaf
<1>2. ASSUME NEW x \in Var, NEW y \in Var, expr = <<<<x>>, <<y>>>> PROVE Good
  BY <1>2 DEF Leaves, LastLeaf
<1>3. ASSUME NEW x \in Var, NEW y \in Var, NEW z \in Var, expr = <<<<x, y>>, <<z>>>>
      PROVE Good
  <2>1. /\ DOMAIN expr = {1, 2} /\ Len(expr) = 2
        /\ DOMAIN expr[1] = {1, 2} /\ expr[1][1] = x /\ expr[1][2] = y
        /\ DOMAIN expr[2] = {1} /\ expr[2][1] = z /\ Len(expr[2]) = 1
    BY <1>3
  <2>2. Leaves(expr) = {x, y, z}
    BY <2>1 DEF Leaves
  <2>3. LastLeaf(expr) = z
    BY <2>1 DEF LastLeaf
  <2> QED
    BY <2>1, <2>2, <2>3
<1> QED
  BY <1>1, <1>2, <1>3 DEF Expression, Operand

\* The queue of an expression's result is that of an operand, unless a nested
\* expression has no operand on it.
LEMMA ExpressionQueue ==
  ASSUME NEW expr \in Expression, typed \in Seq(ArrayType),
         NEW queue, queue = typed[LastLeaf(expr)].queue
  PROVE  /\ ~GetQueueFails(expr, queue) =>
              /\ QueueVar(expr, queue) \in Leaves(expr)
              /\ typed[QueueVar(expr, queue)].queue = queue
         /\ GetQueueFails(expr, queue) => \E x \in Leaves(expr) : typed[x].queue # queue
<1> DEFINE S == {i \in DOMAIN expr : Matching(expr[i], queue) # {}}
           n == FirstMatch(expr, queue)
<1>1. PICK i \in DOMAIN expr : \E j \in DOMAIN expr[i] : expr[i][j] = LastLeaf(expr)
  BY ExpressionLeaves DEF Leaves
<1>2. Matching(expr[i], queue) # {}
  BY <1>1 DEF Matching
<1>3. S # {} /\ S \subseteq Nat
  BY <1>2, ExpressionLeaves
<1>4. n \in S /\ \A m \in S : n <= m
  <2> HIDE DEF S
  <2>1. n = First(S)
    BY DEF FirstMatch, S
  <2> QED
    BY <1>3, <2>1, FirstIsLeast
<1>5. /\ First(Matching(expr[n], queue)) \in DOMAIN expr[n]
      /\ typed[expr[n][First(Matching(expr[n], queue))]].queue = queue
  <2>1. Matching(expr[n], queue) # {} /\ Matching(expr[n], queue) \subseteq Nat
    BY <1>4, ExpressionLeaves DEF Matching
  <2>2. First(Matching(expr[n], queue)) \in Matching(expr[n], queue)
    BY <2>1, FirstIsLeast
  <2> QED
    BY <2>2 DEF Matching
<1>6. QueueVar(expr, queue) = expr[n][First(Matching(expr[n], queue))]
  BY DEF QueueVar
<1>7. QueueVar(expr, queue) \in Leaves(expr)
  BY <1>4, <1>5, <1>6 DEF Leaves
<1>8. ASSUME GetQueueFails(expr, queue)
      PROVE \E x \in Leaves(expr) : typed[x].queue # queue
  <2>1. PICK k \in DOMAIN expr : k < n
    BY <1>8 DEF GetQueueFails
  <2>2. k \in Nat /\ n \in Nat
    BY <1>3, <1>4, ExpressionLeaves
  <2>3. k \notin S
    BY <1>4, <2>1, <2>2
  <2>4. PICK m \in DOMAIN expr[k] : TRUE
    BY ExpressionLeaves
  <2>5. typed[expr[k][m]].queue # queue
    BY <2>3, <2>4 DEF Matching
  <2> QED
    BY <2>4, <2>5 DEF Leaves
<1> QED
  BY <1>5, <1>6, <1>7, <1>8

----------------------------------------------------------------------------
(* Writing a statement *)

\* A statement that type inference accepts after those before it.
Fits(s) ==
  /\ s \in Statement
  /\ s.lhs \in {0, NewVar} /\ s.from \in Var \cup {0}
  /\ s.from # 0 => s.lhs # 0
  /\ s.op = "call" => s.lhs # 0 /\ s.takes \subseteq Var
  /\ s.op = "parfor" =>
       /\ s.ins \subseteq Var /\ s.outs \subseteq Var \cup {s.lhs} /\ 0 \notin s.outs
       /\ s.ins \cup s.outs # {}
       /\ s.lhs # 0 => s.outs = {s.lhs} /\ s.ins # {}

\* What every action of type inference does.
Written(s) ==
  /\ phase = "typing" /\ phase' \in {"typing", "error"}
  /\ Fits(s) /\ Len(prog) < MaxStmts /\ prog' = Append(prog, s)
  /\ \/ s.lhs = 0 /\ typed' = typed /\ typemap' = typemap
     \/ /\ s.lhs # 0 /\ typemap' = typed'
        /\ \E type \in ArrayType : typed' = Append(typed, type)
        /\ LikeDevice = {} /\ s.from # 0 => typed'[s.lhs].queue = typed[s.from].queue
  /\ phase' = "error" =>
       s.op = "parfor" /\ \E x, y \in s.ins : typed[x] # typed[y]
  /\ UNCHANGED <<pos, seen, updated, lowerer, fused, executed>>

\* A variable that is defined gets the next number.
LEMMA DefineWrites ==
  ASSUME typed \in Seq(ArrayType), NEW s, Fits(s), s.lhs = NewVar, s.op # "parfor" \/ s.lhs # 0,
         NEW type \in ArrayType, Define(s, type),
         LikeDevice = {} /\ s.from # 0 => type.queue = typed[s.from].queue
  PROVE  Written(s)
<1>1. /\ phase = "typing" /\ phase' = phase /\ Len(prog) < MaxStmts /\ prog' = Append(prog, s)
      /\ typed' = Append(typed, type) /\ typemap' = typed'
      /\ UNCHANGED <<pos, seen, updated, lowerer, fused, executed>>
  BY DEF Define, Write, Writing
<1>2. NewVar \in Nat /\ NewVar # 0 /\ typed'[NewVar] = type
  BY <1>1 DEF NewVar
<1> QED
  BY <1>1, <1>2 DEF Written

\* So does every action of type inference (core/typing and the parfor passes).
LEMMA TypingWrites ==
  ASSUME typed \in Seq(ArrayType), [Next]_vars, phase = "typing"
  PROVE  (\E s : Written(s)) \/ StartLegalize \/ UNCHANGED vars
<1> USE QueueAssumption, InputAssumption
<1>1. Var \subseteq Nat /\ NewVar \in Nat /\ NewVar # 0 /\ NewVar \notin Var /\ 0 \notin Var
  BY DEF NewVar, Var
<1>2. \A x \in Var : typed[x] \in ArrayType
  BY DEF Var
<1>3. ASSUME NEW known \in BOOLEAN, NEW from \in Var \cup {0}, NEW takes \in SUBSET Var
      PROVE Fits(Call(known, from, takes)) /\ Call(known, from, takes).lhs = NewVar
            /\ Call(known, from, takes).op = "call" /\ Call(known, from, takes).from = from
  BY <1>1 DEF Fits, Call, Statement
<1>4. ASSUME NEW usm \in Usm, NEW known \in BOOLEAN, NEW device \in Device,
             WriteMake(known, device, usm)
      PROVE \E s : Written(s)
  <2>1. [queue |-> CachedQueue[device], usm |-> usm] \in ArrayType
    BY DEF ArrayType
  <2> QED
    BY <1>1, <1>3, <1>4, <2>1, DefineWrites DEF WriteMake
<1>5. ASSUME NEW usm \in Usm, NEW known \in BOOLEAN, NEW x \in Var,
             WriteMakeOn(known, x, usm)
      PROVE \E s : Written(s)
  <2>1. [queue |-> typed[x].queue, usm |-> usm] \in ArrayType
    BY <1>2 DEF ArrayType
  <2> QED
    BY <1>1, <1>3, <1>5, <2>1, DefineWrites DEF WriteMakeOn
<1>6. ASSUME NEW usm \in Usm, NEW x \in Var,
             NEW queue \in {typed[x].queue} \cup {CachedQueue[d] : d \in LikeDevice},
             WriteLike(x, queue, usm)
      PROVE \E s : Written(s)
  <2>1. queue \in Queue /\ (LikeDevice = {} => queue = typed[x].queue)
    BY <1>2 DEF ArrayType
  <2>2. [queue |-> queue, usm |-> usm] \in ArrayType
    BY <2>1 DEF ArrayType
  <2>3. {x} \in SUBSET Var /\ x \in Var \cup {0} /\ FALSE \in BOOLEAN
    OBVIOUS
  <2> DEFINE s == Call(FALSE, x, {x})
  <2>4. Fits(s) /\ s.lhs = NewVar /\ s.op = "call" /\ s.from = x
    BY <1>3, <2>3
  <2> HIDE DEF s
  <2>5. Written(s)
    BY <1>1, <1>6, <2>1, <2>2, <2>4, DefineWrites DEF WriteLike, s
  <2> QED
    BY <2>5
<1>7. ASSUME NEW expr \in Expression, WriteExpr(expr) PROVE \E s : Written(s)
  <2> DEFINE type == typed[LastLeaf(expr)]
             s == [op |-> "parfor", lhs |-> NewVar, from |-> QueueVar(expr, type.queue),
                   ins |-> Leaves(expr), outs |-> {NewVar}]
  <2>1. /\ Leaves(expr) \subseteq Var /\ Leaves(expr) # {} /\ type \in ArrayType
        /\ QueueVar(expr, type.queue) \in Var
        /\ typed[QueueVar(expr, type.queue)].queue = type.queue
    BY <1>2, <1>7, ExpressionLeaves, ExpressionQueue DEF WriteExpr
  <2>0. s \in Statement
    <3>1. Leaves(expr) \in SUBSET Nat /\ {NewVar} \in SUBSET Nat
      BY <1>1, <2>1
    <3> QED
      BY <1>1, <2>1, <3>1 DEF Statement
  <2>2. Fits(s)
    BY <1>1, <2>0, <2>1 DEF Fits
  <2>3. Define(s, type) /\ s.lhs = NewVar /\ s.from = QueueVar(expr, type.queue)
    BY <1>7 DEF WriteExpr
  <2> QED
    BY <1>1, <2>1, <2>2, <2>3, DefineWrites
<1>8. ASSUME NEW expr \in Expression, WriteBadExpr(expr) PROVE \E s : Written(s)
  <2> DEFINE s == [op |-> "parfor", lhs |-> 0, from |-> 0, ins |-> Leaves(expr), outs |-> {}]
  <2>1. Leaves(expr) \subseteq Var /\ LastLeaf(expr) \in Leaves(expr)
    BY ExpressionLeaves
  <2>0. s \in Statement
    <3>1. Leaves(expr) \in SUBSET Nat /\ {} \in SUBSET Nat
      BY <1>1, <2>1
    <3> QED
      BY <3>1 DEF Statement
  <2>2. Fits(s)
    <3>1. s.ins \cup s.outs # {}
      BY <2>1
    <3>2. s.op = "parfor" /\ s.lhs = 0 /\ s.from = 0 /\ s.ins = Leaves(expr) /\ s.outs = {}
      OBVIOUS
    <3> HIDE DEF s
    <3> QED
      BY <2>0, <2>1, <3>1, <3>2 DEF Fits
  <2>3. \E x, y \in Leaves(expr) : typed[x] # typed[y]
    BY <1>8, <2>1, ExpressionQueue DEF WriteBadExpr
  <2>4. /\ Writing /\ prog' = Append(prog, s) /\ phase' = "error"
        /\ UNCHANGED <<pos, typed, legalized, fused, executed>>
    BY <1>8 DEF WriteBadExpr
  <2>5. Written(s)
    BY <2>2, <2>3, <2>4 DEF Written, Writing, legalized
  <2> QED
    BY <2>5
<1>9. ASSUME NEW ins \in SUBSET Var, NEW outs \in (SUBSET Var) \ {{}}, WritePrange(ins, outs)
      PROVE \E s : Written(s)
  <2> DEFINE s == [op |-> "parfor", lhs |-> 0, from |-> 0, ins |-> ins, outs |-> outs]
  <2>1. Fits(s)
    BY <1>1 DEF Fits, Statement
  <2>2. /\ Writing /\ prog' = Append(prog, s) /\ phase' = phase
        /\ typed' = typed /\ typemap' = typemap
        /\ UNCHANGED <<pos, seen, updated, lowerer, fused, executed>>
    BY <1>9 DEF WritePrange, Write
  <2>3. Written(s)
    BY <2>1, <2>2 DEF Written, Writing
  <2> QED
    BY <2>3
<1>10. ASSUME phase # "typing" PROVE FALSE
  BY <1>10
<1>11. \/ LegalizeCall \/ RefuseCall \/ LegalizeParfor \/ RefuseParfor
       \/ Fuse \/ Lower \/ RefuseLowering \/ Execute \/ Launch \/ Finish
       => FALSE
  BY DEF LegalizeCall, RefuseCall, LegalizeParfor, RefuseParfor, AtCall, AtParfor,
         Fuse, Lower, RefuseLowering, Execute, Launch, Finish, Running
<1> QED
  BY <1>4, <1>5, <1>6, <1>7, <1>8, <1>9, <1>11 DEF Next

\* What a written statement changes: the statements and variables before it stay.
LEMMA WrittenFacts ==
  ASSUME typed \in Seq(ArrayType), prog \in Seq(Statement), NEW s, Written(s)
  PROVE  /\ Len(prog') = Len(prog) + 1 /\ prog'[Len(prog) + 1] = s
         /\ prog' \in Seq(Statement)
         /\ \A i \in DOMAIN prog : prog'[i] = prog[i]
         /\ DOMAIN prog = 1..Len(prog) /\ DOMAIN prog' = 1..Len(prog) + 1
         /\ Var = 1..Len(typed) /\ Len(typed) \in Nat /\ Len(prog) \in Nat
         /\ typed' \in Seq(ArrayType) /\ \A x \in Var : typed'[x] = typed[x]
         /\ s.lhs = 0 => typed' = typed
         /\ s.lhs # 0 => /\ s.lhs = Len(typed) + 1 /\ Len(typed') = Len(typed) + 1
                         /\ Var' = Var \cup {s.lhs}
<1>1. s \in Statement /\ prog' = Append(prog, s)
  BY DEF Written, Fits
<1>2. /\ Len(prog') = Len(prog) + 1 /\ prog'[Len(prog) + 1] = s
      /\ prog' \in Seq(Statement)
      /\ \A i \in DOMAIN prog : prog'[i] = prog[i]
      /\ DOMAIN prog = 1..Len(prog) /\ DOMAIN prog' = 1..Len(prog) + 1 /\ Len(prog) \in Nat
  <2> HIDE DEF Statement
  <2> QED
    BY <1>1
<1>3. Var = 1..Len(typed) /\ Len(typed) \in Nat
  BY DEF Var
<1>4. CASE s.lhs = 0
  BY <1>2, <1>3, <1>4 DEF Written
<1>5. CASE s.lhs # 0
  <2>1. PICK type \in ArrayType : typed' = Append(typed, type)
    BY <1>5 DEF Written
  <2>2. s.lhs = Len(typed) + 1
    BY <1>5 DEF Written, Fits, NewVar
  <2>3. /\ typed' \in Seq(ArrayType) /\ Len(typed') = Len(typed) + 1
        /\ \A x \in 1..Len(typed) : typed'[x] = typed[x]
    BY <2>1
  <2>4. Var' = 1..Len(typed) + 1
    BY <2>3 DEF Var
  <2>5. 1..Len(typed) + 1 = 1..Len(typed) \cup {Len(typed) + 1}
    BY <1>3
  <2> QED
    BY <1>2, <1>3, <1>5, <2>2, <2>3, <2>4, <2>5
<1> QED
  BY <1>4, <1>5

\* What can happen after it.
LEMMA AfterTyping ==
  ASSUME [Next]_vars, phase # "typing"
  PROVE  \/ LegalizeCall \/ RefuseCall \/ LegalizeParfor \/ RefuseParfor \/ Fuse \/ Lower
         \/ RefuseLowering \/ Execute \/ Launch \/ Finish \/ UNCHANGED vars
<1>1. ~Writing /\ ~StartLegalize
  BY DEF Writing, StartLegalize
<1> QED
  BY <1>1 DEF Next, WriteMake, WriteMakeOn, WriteLike, WriteExpr, WriteBadExpr, WritePrange,
              Define, Write

\* After type inference neither the program nor the types it inferred change.
LEMMA WrittenOrFixed ==
  ASSUME typed \in Seq(ArrayType), [Next]_vars
  PROVE  (\E s : Written(s)) \/ UNCHANGED compiled
<1>1. CASE phase = "typing"
  BY <1>1, TypingWrites DEF StartLegalize, vars
<1>2. CASE phase # "typing"
  BY <1>2, AfterTyping
     DEF LegalizeCall, RefuseCall, LegalizeParfor, RefuseParfor, NextStatement, Fail, Fuse, Lower,
         RefuseLowering, Execute, Launch, Advance, Finish, vars
<1> QED
  BY <1>1, <1>2

\* The program stays well formed.
LEMMA StepProg ==
  ASSUME typed \in Seq(ArrayType), MaxStmts \in Nat, ProgInv, [Next]_vars
  PROVE  ProgInv'
<1>1. ASSUME UNCHANGED compiled PROVE ProgInv'
  BY <1>1 DEF ProgInv, compiled, Uses, IsParfor, Var
<1>2. ASSUME NEW s, Written(s) PROVE ProgInv'
  <2>1. prog \in Seq(Statement)
    BY DEF ProgInv
  <2>2. /\ Len(prog') = Len(prog) + 1 /\ prog'[Len(prog) + 1] = s
        /\ prog' \in Seq(Statement)
        /\ \A i \in DOMAIN prog : prog'[i] = prog[i]
        /\ DOMAIN prog = 1..Len(prog) /\ DOMAIN prog' = 1..Len(prog) + 1
        /\ Var = 1..Len(typed) /\ Len(typed) \in Nat /\ Len(prog) \in Nat
    BY <1>2, <2>1, WrittenFacts
  <2>3. /\ s.lhs = 0 => Var' = Var
        /\ s.lhs # 0 => s.lhs = Len(typed) + 1 /\ Var' = Var \cup {s.lhs}
    BY <1>2, <2>1, WrittenFacts DEF Var
  <2>4. Fits(s) /\ Len(prog) < MaxStmts
    BY <1>2 DEF Written
  <2>5. \A i \in DOMAIN prog : Uses(i)' = Uses(i) /\ IsParfor(i)' = IsParfor(i)
    BY <2>2 DEF Uses, IsParfor
  <2>0. PICK n \in Nat : n = Len(prog) + 1
    BY <2>2
  <2>6. /\ IsParfor(n)' <=> s.op = "parfor"
        /\ Uses(n)' = IF s.op = "parfor" THEN s.ins \cup s.outs ELSE s.takes
        /\ s.op \in {"call", "parfor"}
    <3>1. s.op \in {"call", "parfor"}
      BY <2>4 DEF Fits, Statement
    <3>2. prog'[n] = s
      BY <2>0, <2>2
    <3> QED
      BY <3>1, <3>2 DEF Uses, IsParfor
  <2>7. Uses(n)' \subseteq Var'
    <3>1. Var \cup ({s.lhs} \ {0}) \subseteq Var'
      BY <2>3
    <3> QED
      BY <2>4, <2>6, <3>1 DEF Fits
  <2>8. \A i \in DOMAIN prog : Uses(i) \subseteq Var /\ prog[i].lhs \in Var \cup {0}
    BY DEF ProgInv
  <2>9. ASSUME NEW i \in DOMAIN prog', NEW x \in Uses(i)', NEW j \in DOMAIN prog',
               j > i, prog'[j].lhs # 0
        PROVE  x < prog'[j].lhs
    <3>1. i \in DOMAIN prog
      BY <2>2, <2>9
    <3>2. CASE j \in DOMAIN prog
      BY <2>2, <2>5, <2>9, <3>1, <3>2 DEF ProgInv
    <3>3. CASE j \notin DOMAIN prog
      <4>1. prog'[j] = s
        BY <2>2, <3>3
      <4>2. x \in Var
        BY <2>5, <2>8, <2>9, <3>1
      <4> QED
        BY <2>2, <2>3, <2>9, <4>1, <4>2
    <3> QED
      BY <3>2, <3>3
  <2>10. ASSUME NEW i \in DOMAIN prog'
         PROVE /\ prog'[i].lhs \in Var' \cup {0}
               /\ IsParfor(i)' \/ prog'[i].lhs # 0
               /\ Uses(i)' \subseteq Var'
               /\ prog'[i].from # 0 => prog'[i].lhs # 0 /\ prog'[i].from < prog'[i].lhs
               /\ IsParfor(i)' => Uses(i)' # {}
               /\ IsParfor(i)' /\ prog'[i].lhs # 0 =>
                    /\ prog'[i].outs = {prog'[i].lhs} /\ prog'[i].ins # {}
                    /\ prog'[i].lhs \notin prog'[i].ins
    <3>1. CASE i \in DOMAIN prog
      BY <2>2, <2>3, <2>5, <2>8, <3>1 DEF ProgInv
    <3>2. CASE i \notin DOMAIN prog
      <4>1. i = n /\ prog'[i] = s
        BY <2>0, <2>2, <3>2
      <4>2. s.lhs # 0 => s.lhs \notin Var /\ \A x \in Var : x < s.lhs
        BY <2>2, <2>3
      <4>3. s.op = "parfor" => s.ins \subseteq Var
        BY <2>4 DEF Fits
      <4>4. s.from # 0 => s.from \in Var
        BY <2>4 DEF Fits
      <4>5. IsParfor(i)' => Uses(i)' # {} /\ (s.lhs # 0 => s.outs = {s.lhs} /\ s.ins # {})
        BY <2>4, <2>6, <4>1 DEF Fits
      <4>6. s.lhs \in Var' \cup {0} /\ (IsParfor(i)' \/ s.lhs # 0) /\ (s.from # 0 => s.lhs # 0)
        BY <2>3, <2>4, <2>6, <4>1 DEF Fits
      <4> QED
        BY <2>6, <2>7, <4>1, <4>2, <4>3, <4>4, <4>5, <4>6
    <3> QED
      BY <3>1, <3>2
  <2>11. Len(prog') <= MaxStmts
    BY <2>2, <2>4
  <2> QED
    BY <2>2, <2>9, <2>10, <2>11 DEF ProgInv
<1> QED
  BY <1>1, <1>2, WrittenOrFixed

----------------------------------------------------------------------------
(* Memory *)

\* The statement that runs next defines the next array, and its source exists.
LEMMA NextArray ==
  ASSUME TypeOK, ProgInv, MemoryInv, phase = "run", pos \in DOMAIN prog, prog[pos].lhs # 0
  PROVE  prog[pos].lhs = Len(memory) + 1 /\ prog[pos].lhs \in Var
<1> DEFINE x == prog[pos].lhs
<1>1. x \in Var /\ Var = 1..Len(typed) /\ Len(typed) \in Nat /\ Len(memory) \in Nat
  BY DEF TypeOK, ProgInv, Var
<1>2. x > Len(memory)
  BY DEF MemoryInv, Executed, TypeOK
<1>3. Len(memory) + 1 \in Var
  BY <1>1, <1>2
<1>4. PICK i \in DOMAIN prog : i >= pos /\ prog[i].lhs = Len(memory) + 1
  BY <1>1, <1>3 DEF MemoryInv, Executed
<1>5. i = pos
  <2>1. i \in Int /\ pos \in Int
    BY DEF TypeOK, ProgInv
  <2>2. ~(pos < i)
    BY <1>1, <1>2, <1>4 DEF MemoryInv
  <2> QED
    BY <1>4, <2>1, <2>2
<1> QED
  BY <1>1, <1>4, <1>5

\* _empty_nd_impl appends the array of the statement to those that exist.
LEMMA AllocateFacts ==
  ASSUME QueueAssumption, TypeOK, ProgInv, MemoryInv, phase = "run", pos \in DOMAIN prog, Allocate(prog[pos])
  PROVE  /\ prog[pos].lhs = 0 => memory' = memory
         /\ prog[pos].lhs # 0 =>
              /\ Allocation(prog[pos]) \in ArrayType
              /\ memory' = Append(memory, Allocation(prog[pos]))
              /\ memory' \in Seq(ArrayType) /\ DOMAIN memory' = 1..Len(memory) + 1
              /\ prog[pos].lhs = Len(memory) + 1 /\ prog[pos].lhs \in Var
              /\ prog[pos].from # 0 => prog[pos].from \in DOMAIN memory
<1>1. CASE prog[pos].lhs = 0
  BY <1>1 DEF Allocate
<1>2. CASE prog[pos].lhs # 0
  <2>1. prog[pos].lhs = Len(memory) + 1 /\ prog[pos].lhs \in Var
    BY <1>2, NextArray
  <2>2. prog[pos] \in Statement
    BY DEF ProgInv
  <2>3. prog[pos].from \in Nat
    BY <2>2 DEF Statement
  <2>4. prog[pos].from # 0 => prog[pos].from \in DOMAIN memory
    <3>1. DOMAIN memory = 1..Len(memory) /\ Len(memory) \in Nat
      BY DEF TypeOK
    <3> QED
      BY <2>1, <2>3, <3>1 DEF ProgInv
  <2>5. \A x \in DOMAIN memory : memory[x] \in ArrayType
    BY DEF TypeOK
  <2>6. typed[prog[pos].lhs] \in ArrayType
    BY <2>1 DEF TypeOK, Var
  <2>7. Allocation(prog[pos]) \in ArrayType
    BY <2>4, <2>5, <2>6 DEF Allocation, ArrayType
  <2>8. memory' = Append(memory, Allocation(prog[pos]))
    BY <1>2 DEF Allocate
  <2>9. memory' \in Seq(ArrayType) /\ DOMAIN memory' = 1..Len(memory) + 1
    BY <2>7, <2>8 DEF TypeOK
  <2> QED
    BY <1>2, <2>1, <2>4, <2>7, <2>8, <2>9
<1> QED
  BY <1>1, <1>2

\* The arrays that exist stay those defined so far.
LEMMA StepMemory ==
  ASSUME QueueAssumption, TypeOK, ProgInv, MemoryInv, [Next]_vars
  PROVE  MemoryInv'
<1>0. /\ DOMAIN prog = 1..Len(prog) /\ Len(prog) \in Nat /\ pos \in 1..Len(prog) + 1
      /\ Var = 1..Len(typed) /\ Len(typed) \in Nat
      /\ DOMAIN memory = 1..Len(memory) /\ Len(memory) \in Nat
      /\ memory \in Seq(ArrayType) /\ typed \in Seq(ArrayType) /\ prog \in Seq(Statement)
  BY DEF TypeOK, ProgInv, Var
<1>1. ASSUME NEW s, Written(s) PROVE MemoryInv'
  <2>1. /\ Len(prog') = Len(prog) + 1 /\ prog'[Len(prog) + 1] = s
        /\ \A i \in DOMAIN prog : prog'[i] = prog[i]
        /\ DOMAIN prog' = 1..Len(prog) + 1
        /\ \A x \in Var : typed'[x] = typed[x]
        /\ s.lhs = 0 => typed' = typed
        /\ s.lhs # 0 => s.lhs = Len(typed) + 1 /\ Len(typed') = Len(typed) + 1
                        /\ Var' = Var \cup {s.lhs}
    BY <1>0, <1>1, WrittenFacts
  <2>2. /\ phase = "typing" /\ phase' \in {"typing", "error"} /\ pos' = pos /\ memory' = memory
    BY <1>1 DEF Written, executed
  <2>3. Executed = 1 /\ Executed' = 1 /\ pos = 1 /\ Len(memory) <= Len(typed)
    BY <2>2 DEF Executed, MemoryInv
  <2>4. \A i \in DOMAIN prog : prog[i].lhs \in Var \cup {0}
    BY DEF ProgInv
  <2>5. /\ (phase \in {"typing", "lower"} => pos = 1)'
        /\ Len(memory') <= Len(typed')
    BY <1>0, <2>1, <2>2, <2>3
  <2>6. ASSUME NEW i \in DOMAIN prog', NEW j \in DOMAIN prog', i < j,
               prog'[i].lhs # 0, prog'[j].lhs # 0
        PROVE  prog'[i].lhs < prog'[j].lhs
    <3>1. i \in DOMAIN prog
      BY <1>0, <2>1, <2>6
    <3>2. CASE j \in DOMAIN prog
      BY <2>1, <2>6, <3>1, <3>2 DEF MemoryInv
    <3>3. CASE j \notin DOMAIN prog
      <4>1. prog'[j] = s
        BY <1>0, <2>1, <3>3
      <4> QED
        BY <1>0, <2>1, <2>4, <2>6, <3>1, <4>1
    <3> QED
      BY <3>2, <3>3
  <2>7. ASSUME NEW x \in Var', x > Len(memory)
        PROVE  \E i \in DOMAIN prog' : i >= 1 /\ prog'[i].lhs = x
    <3>1. CASE x \in Var
      <4>1. PICK i \in DOMAIN prog : i >= 1 /\ prog[i].lhs = x
        BY <2>3, <2>7, <3>1 DEF MemoryInv
      <4> QED
        BY <1>0, <2>1, <4>1
    <3>2. CASE x \notin Var
      <4>1. s.lhs # 0 /\ x = s.lhs
        BY <2>1, <3>2 DEF Var
      <4>2. /\ Len(prog) + 1 \in DOMAIN prog' /\ Len(prog) + 1 >= 1
            /\ prog'[Len(prog) + 1].lhs = x
        BY <1>0, <2>1, <4>1
      <4> QED
        BY <4>2
    <3> QED
      BY <3>1, <3>2
  <2>8. ASSUME NEW i \in DOMAIN prog', prog'[i].lhs # 0
        PROVE  prog'[i].lhs > Len(memory) /\ i >= 1
    <3>1. CASE i \in DOMAIN prog
      BY <1>0, <2>1, <2>3, <2>8, <3>1 DEF MemoryInv
    <3>2. CASE i \notin DOMAIN prog
      BY <1>0, <2>1, <2>3, <2>8, <3>2
    <3> QED
      BY <3>1, <3>2
  <2>9. \A x \in DOMAIN memory : memory[x].usm = typed'[x].usm
    BY <1>0, <2>1, <2>3 DEF MemoryInv
  <2> QED
    BY <2>2, <2>3, <2>5, <2>6, <2>7, <2>8, <2>9 DEF MemoryInv
<1>2. ASSUME UNCHANGED compiled, memory' = memory, Executed' = Executed,
             (phase \in {"typing", "lower"} => pos = 1)'
      PROVE  MemoryInv'
  BY <1>2 DEF MemoryInv, compiled, Var
<1>3. ASSUME Execute \/ Launch PROVE MemoryInv'
  <2>1. /\ phase = "run" /\ phase' = "run" /\ pos \in DOMAIN prog /\ Allocate(prog[pos])
        /\ pos' = pos + 1 /\ UNCHANGED compiled
    BY <1>0, <1>3 DEF Execute, Launch, Running, Advance
  <2>2. prog' = prog /\ typed' = typed /\ Executed = pos /\ Executed' = pos + 1
    BY <2>1 DEF compiled, Executed
  <2>3. CASE prog[pos].lhs = 0
    <3>1. memory' = memory
      BY <2>1, <2>3, AllocateFacts
    <3>2. \A i \in DOMAIN prog : prog[i].lhs # 0 => (i >= pos <=> i >= pos + 1)
      BY <1>0, <2>3
    <3>3. \A x \in Var : x > Len(memory) => \E i \in DOMAIN prog : i >= pos + 1 /\ prog[i].lhs = x
      BY <1>0, <2>2, <3>2 DEF MemoryInv
    <3> QED
      BY <2>1, <2>2, <3>1, <3>2, <3>3 DEF MemoryInv, Var
  <2>4. CASE prog[pos].lhs # 0
    <3>1. /\ memory' = Append(memory, Allocation(prog[pos])) /\ Allocation(prog[pos]) \in ArrayType
          /\ prog[pos].lhs = Len(memory) + 1 /\ prog[pos].lhs \in Var
      BY <2>1, <2>4, AllocateFacts
    <3>2. /\ Len(memory') = Len(memory) + 1 /\ DOMAIN memory' = 1..Len(memory) + 1
          /\ memory'[Len(memory) + 1] = Allocation(prog[pos])
          /\ \A x \in DOMAIN memory : memory'[x] = memory[x]
      BY <1>0, <3>1
    <3>3. \A i \in DOMAIN prog :
            prog[i].lhs # 0 => (prog[i].lhs > Len(memory) + 1 <=> i >= pos + 1)
      <4> TAKE i \in DOMAIN prog
      <4> HAVE prog[i].lhs # 0
      <4>1. prog[i].lhs \in Nat /\ (prog[i].lhs > Len(memory) <=> i >= pos)
        BY <1>0, <2>2 DEF MemoryInv, ProgInv
      <4>2. i < pos => prog[i].lhs < prog[pos].lhs
        BY <2>1, <2>4 DEF MemoryInv
      <4>3. pos < i => prog[pos].lhs < prog[i].lhs
        BY <2>1, <2>4 DEF MemoryInv
      <4> QED
        BY <1>0, <3>1, <4>1, <4>2, <4>3
    <3>4. \A x \in Var :
            x > Len(memory) + 1 => \E i \in DOMAIN prog : i >= pos + 1 /\ prog[i].lhs = x
      <4> TAKE x \in Var
      <4> HAVE x > Len(memory) + 1
      <4>1. PICK i \in DOMAIN prog : i >= pos /\ prog[i].lhs = x
        BY <1>0, <2>2 DEF MemoryInv
      <4> QED
        BY <1>0, <3>1, <4>1
    <3>5. \A x \in DOMAIN memory' : memory'[x].usm = typed[x].usm
      BY <1>0, <3>1, <3>2 DEF MemoryInv, Allocation
    <3>6. Len(memory') <= Len(typed)
      BY <1>0, <3>1, <3>2
    <3>7. \A i, j \in DOMAIN prog :
            i < j /\ prog[i].lhs # 0 /\ prog[j].lhs # 0 => prog[i].lhs < prog[j].lhs
      BY DEF MemoryInv
    <3> QED
      BY <2>1, <2>2, <3>2, <3>3, <3>4, <3>5, <3>6, <3>7 DEF MemoryInv, Var
  <2> QED
    BY <2>3, <2>4
<1>4. CASE StartLegalize \/ LegalizeCall \/ RefuseCall \/ LegalizeParfor \/ RefuseParfor
           \/ Fuse \/ Lower \/ RefuseLowering \/ Finish \/ UNCHANGED vars
  <2>1. UNCHANGED compiled /\ memory' = memory
    BY <1>4 DEF StartLegalize, LegalizeCall, RefuseCall, LegalizeParfor, RefuseParfor,
                NextStatement, Fail, Fuse, Lower, RefuseLowering, Finish, vars, executed
  <2>2. Executed' = Executed /\ (phase \in {"typing", "lower"} => pos = 1)'
    BY <1>4 DEF StartLegalize, LegalizeCall, RefuseCall, LegalizeParfor, RefuseParfor, AtCall,
                AtParfor, NextStatement, Fail, Fuse, Lower, RefuseLowering, Finish, vars,
                Executed, MemoryInv
  <2> QED
    BY <1>2, <2>1, <2>2
<1> QED
  <2>1. CASE phase = "typing"
    BY <1>0, <1>1, <1>4, <2>1, TypingWrites
  <2>2. CASE phase # "typing"
    BY <1>3, <1>4, <2>2, AfterTyping
  <2> QED
    BY <2>1, <2>2

----------------------------------------------------------------------------
(* The compute follows data pass *)

\* A loop the pass accepts has a device and a USM type.
LEMMA ConformingFacts ==
  ASSUME InputAssumption, NEW xs \in SUBSET Var, typemap \in [Var -> ArrayType],
         NEW d \in Device, DevicesOf(xs) = {d}
  PROVE  /\ xs # {} /\ ConformingDevice(xs) = d
         /\ \A x \in xs : TypedDevice(typemap, x) = d
         /\ ConformingUsm(xs) \in Usm
         /\ \E x \in xs : typemap[x].usm = ConformingUsm(xs)
         /\ \A x \in xs : typemap[x].usm <= ConformingUsm(xs)
<1>1. xs # {}
  BY DEF DevicesOf
<1>2. \A x \in xs : TypedDevice(typemap, x) = d
  BY DEF DevicesOf
<1>3. ConformingDevice(xs) = d
  BY DEF ConformingDevice
<1> DEFINE U == {typemap[x].usm : x \in xs}
<1>4. U \subseteq Usm /\ U \subseteq 1..3 /\ U # {}
  <2>1. \A x \in xs : typemap[x].usm \in Usm
    BY DEF ArrayType
  <2> QED
    BY <1>1, <2>1 DEF InputAssumption
<1>5. Largest(U) \in U /\ \A m \in U : m <= Largest(U)
  <2> HIDE DEF U
  <2> QED
    BY <1>4, LargestIsMax
<1>6. ConformingUsm(xs) = Largest(U)
  BY DEF ConformingUsm
<1> QED
  BY <1>1, <1>2, <1>3, <1>4, <1>5, <1>6

\* The arrays a loop's type is taken from are among those it uses.
LEMMA ChecklistFacts ==
  ASSUME ProgInv, pos \in DOMAIN prog, IsParfor(pos)
  PROVE  /\ Checklist(prog[pos]) \subseteq Uses(pos) /\ Uses(pos) \subseteq Var
         /\ Uses(pos) = prog[pos].ins \cup prog[pos].outs
         /\ prog[pos].lhs \in Var \cup {0}
  BY DEF ProgInv, Checklist, Uses

\* What the pass does to an accepted loop.
LEMMA LegalizeFacts ==
  ASSUME QueueAssumption, InputAssumption, TypeOK, ProgInv, LegalizeParfor
  PROVE  LET stmt == prog[pos]
             list == Checklist(stmt)
         IN  /\ pos \in DOMAIN prog /\ IsParfor(pos)
             /\ list # {} /\ ConformingDevice(list) \in Device /\ ConformingUsm(list) \in Usm
             /\ \E x \in list : typemap[x].usm = ConformingUsm(list)
             /\ \A x \in list : typemap[x].usm <= ConformingUsm(list)
             /\ \A x \in list : TypedDevice(typemap, x) = ConformingDevice(list)
             /\ \A x \in Var \ stmt.outs : typemap'[x] = typemap[x]
             /\ \A x \in stmt.outs :
                  /\ typemap'[x] = LegalType(x, ConformingDevice(list), ConformingUsm(list))
                  /\ typemap'[x].usm = ConformingUsm(list)
             /\ typemap' \in [Var -> ArrayType]
             /\ stmt.lhs # 0 => typemap'[stmt.lhs] = typemap[stmt.lhs]
<1> DEFINE stmt == prog[pos]
           list == Checklist(stmt)
           device == ConformingDevice(list)
           usm == ConformingUsm(list)
<1>1. pos \in DOMAIN prog /\ IsParfor(pos)
  BY DEF LegalizeParfor, AtParfor, TypeOK, ProgInv
<1>2. list \subseteq Var /\ stmt.outs \subseteq Var /\ typemap \in [Var -> ArrayType]
  BY <1>1, ChecklistFacts DEF TypeOK
<1>3. PICK d \in Device : DevicesOf(list) = {d}
  BY DEF LegalizeParfor, Conforms
<1>4. /\ list # {} /\ device = d /\ usm \in Usm
      /\ \A x \in list : TypedDevice(typemap, x) = d
      /\ \E x \in list : typemap[x].usm = usm
      /\ \A x \in list : typemap[x].usm <= usm
  BY <1>2, <1>3, ConformingFacts
<1>5. typemap' = [x \in Var |-> IF x \in stmt.outs THEN LegalType(x, device, usm) ELSE typemap[x]]
  BY DEF LegalizeParfor
<1>6. \A x \in stmt.outs : /\ LegalType(x, device, usm) \in ArrayType
                          /\ LegalType(x, device, usm).usm = usm
  BY <1>2, <1>4, QueueAssumption DEF LegalType, Modified, ArrayType
<1>7. ASSUME stmt.lhs # 0 PROVE typemap'[stmt.lhs] = typemap[stmt.lhs]
  <2>1. stmt.outs = {stmt.lhs} /\ stmt.lhs \in Var
    BY <1>1, <1>7, ChecklistFacts DEF ProgInv
  <2>2. stmt.lhs \notin UpdatedBy(stmt)
    BY DEF LegalizeParfor, InitBlockFails
  <2>3. ~Modified(stmt.lhs, device, usm)
    BY <2>1, <2>2 DEF UpdatedBy
  <2> QED
    BY <1>5, <2>1, <2>3 DEF LegalType
<1>8. typemap' \in [Var -> ArrayType]
  BY <1>2, <1>5, <1>6
<1> HIDE DEF device, usm
<1> QED
  BY <1>1, <1>2, <1>3, <1>4, <1>5, <1>6, <1>7, <1>8 DEF device, usm

----------------------------------------------------------------------------
(* Types *)

\* The parfors that were fused into one use the arrays that one uses.
LEMMA GroupFacts ==
  ASSUME ProgInv, fused \subseteq Fusible, NEW i \in DOMAIN prog, IsParfor(i)
  PROVE  /\ \A j \in Group(i) : j \in DOMAIN prog /\ IsParfor(j) /\ j <= i
         /\ i \in Group(i)
         /\ \A x \in Arrays(Group(i)) : \E j \in Group(i) : x \in Uses(j)
         /\ \A j \in Group(i) : Uses(j) \subseteq Arrays(Group(i))
<1>1. DOMAIN prog = 1..Len(prog) /\ Len(prog) \in Nat
  BY DEF ProgInv
<1>2. i \in Group(i)
  BY <1>1 DEF Group
<1>3. ASSUME NEW j \in Group(i) PROVE j \in DOMAIN prog /\ IsParfor(j) /\ j <= i
  <2>1. j \in 1..i /\ \A k \in j + 1..i : k \in fused
    BY DEF Group
  <2>2. CASE j = i
    BY <2>1, <2>2
  <2>3. CASE j # i
    <3>1. j + 1 \in j + 1..i
      BY <1>1, <2>1, <2>3
    <3>2. j + 1 \in Fusible /\ (j + 1) - 1 = j
      BY <1>1, <2>1, <3>1
    <3>3. IsParfor((j + 1) - 1)
      BY <3>2 DEF Fusible
    <3> QED
      BY <1>1, <2>1, <3>2, <3>3
  <2> QED
    BY <2>2, <2>3
<1>4. \A j \in Group(i) : Uses(j) = prog[j].ins \cup prog[j].outs
  BY <1>3 DEF Uses
<1>5. ASSUME NEW x \in Arrays(Group(i)) PROVE \E j \in Group(i) : x \in Uses(j)
  <2>1. x \in Inputs(Group(i)) \/ x \in Outputs(Group(i))
    BY DEF Arrays
  <2>2. \E j \in Group(i) : x \in prog[j].ins \cup prog[j].outs
    BY <2>1 DEF Inputs, Outputs
  <2> QED
    BY <1>4, <2>2
<1>6. ASSUME NEW j \in Group(i), NEW x \in Uses(j) PROVE x \in Arrays(Group(i))
  <2>1. x \in prog[j].ins \/ x \in prog[j].outs
    BY <1>4, <1>6
  <2> QED
    BY <2>1 DEF Arrays, Inputs, Outputs
<1> QED
  BY <1>2, <1>3, <1>5, <1>6

\* The arrays of a kernel that is launched exist.
LEMMA ArraysMade ==
  ASSUME QueueAssumption, TypeOK, ProgInv, MemoryInv, fused \subseteq Fusible,
         phase = "run", pos \in DOMAIN prog, IsParfor(pos), Allocate(prog[pos]),
         NEW x \in Arrays(Group(pos))
  PROVE  x \in Var /\ x \in DOMAIN memory' /\ memory' \in Seq(ArrayType)
<1>0. /\ DOMAIN prog = 1..Len(prog) /\ Len(prog) \in Nat
      /\ Var = 1..Len(typed) /\ Len(typed) \in Nat
      /\ DOMAIN memory = 1..Len(memory) /\ Len(memory) \in Nat /\ memory \in Seq(ArrayType)
  BY DEF TypeOK, ProgInv, Var
<1>1. PICK j \in Group(pos) : x \in Uses(j)
  BY GroupFacts
<1>2. j \in DOMAIN prog /\ j <= pos
  BY GroupFacts
<1>3. x \in Var
  BY <1>1, <1>2 DEF ProgInv
<1>4. memory' \in Seq(ArrayType) /\ DOMAIN memory \subseteq DOMAIN memory'
  <2>1. CASE prog[pos].lhs = 0
    BY <1>0, <2>1, AllocateFacts
  <2>2. CASE prog[pos].lhs # 0
    BY <1>0, <2>2, AllocateFacts
  <2> QED
    BY <2>1, <2>2
<1>5. ASSUME x > Len(memory) PROVE x \in DOMAIN memory'
  <2>1. PICK i \in DOMAIN prog : i >= pos /\ prog[i].lhs = x
    BY <1>3, <1>5 DEF MemoryInv, Executed
  <2>2. ~(i > j)
    <3> SUFFICES ASSUME i > j PROVE FALSE
      OBVIOUS
    <3>1. x < prog[i].lhs
      BY <1>0, <1>1, <1>2, <1>3, <2>1 DEF ProgInv
    <3> QED
      BY <1>0, <1>3, <2>1, <3>1
  <2>3. i = pos /\ prog[pos].lhs = x /\ x # 0
    BY <1>0, <1>2, <1>3, <2>1, <2>2
  <2>4. DOMAIN memory' = 1..Len(memory) + 1 /\ x = Len(memory) + 1
    BY <2>3, AllocateFacts
  <2> QED
    BY <1>0, <2>4
<1> QED
  BY <1>0, <1>3, <1>4, <1>5

\* Every variable keeps its type.
LEMMA StepType ==
  ASSUME QueueAssumption, InputAssumption, TypeOK, ProgInv, MemoryInv, PlainInv, [Next]_vars
  PROVE  TypeOK'
<1>0. /\ DOMAIN prog = 1..Len(prog) /\ Len(prog) \in Nat /\ pos \in 1..Len(prog) + 1
      /\ typed \in Seq(ArrayType) /\ prog \in Seq(Statement) /\ Len(prog) <= MaxStmts
      /\ MaxStmts \in Nat
  BY DEF TypeOK, ProgInv, InputAssumption
<1>1. ASSUME NEW s, Written(s) PROVE TypeOK'
  <2>1. /\ Len(prog') = Len(prog) + 1 /\ typed' \in Seq(ArrayType)
        /\ s.lhs = 0 => typed' = typed
        /\ s.lhs # 0 => Var' = Var \cup {s.lhs}
    BY <1>0, <1>1, WrittenFacts
  <2>2. /\ phase' \in {"typing", "error"} /\ pos' = pos /\ memory' = memory
        /\ seen' = seen /\ updated' = updated /\ lowerer' = lowerer /\ fused' = fused
        /\ launches' = launches
    BY <1>1 DEF Written, executed
  <2>3. Var \subseteq Var'
    BY <2>1 DEF Var
  <2>4. typemap' \in [Var' -> ArrayType]
    <3>1. CASE s.lhs = 0
      BY <1>1, <2>1, <3>1 DEF Written, TypeOK, Var
    <3>2. CASE s.lhs # 0
      <4>1. typemap' = typed'
        BY <1>1, <3>2 DEF Written
      <4> QED
        BY <2>1, <4>1 DEF Var
    <3> QED
      BY <3>1, <3>2
  <2>5. pos' \in 1..Len(prog') + 1 /\ fused' \subseteq 2..Len(prog')
    BY <1>0, <2>1, <2>2 DEF TypeOK
  <2> QED
    BY <2>1, <2>2, <2>3, <2>4, <2>5 DEF TypeOK
<1>2. ASSUME LegalizeCall PROVE TypeOK'
  <2>1. pos \in DOMAIN prog /\ ~IsParfor(pos)
    BY <1>0, <1>2 DEF LegalizeCall, AtCall
  <2>2. prog[pos].lhs \in Var
    BY <2>1 DEF ProgInv
  <2>3. /\ pos' = pos + 1 /\ phase' = phase /\ UNCHANGED <<prog, typed, typemap, updated, lowerer>>
        /\ UNCHANGED <<fused, memory, launches>>
        /\ seen' \subseteq seen \cup {prog[pos].lhs}
    BY <1>2 DEF LegalizeCall, NextStatement, compiled, executed
  <2> QED
    BY <1>0, <2>1, <2>2, <2>3 DEF TypeOK, Var
<1>3. ASSUME LegalizeParfor PROVE TypeOK'
  <2>1. pos \in DOMAIN prog /\ IsParfor(pos) /\ typemap' \in [Var -> ArrayType]
        /\ ConformingDevice(Checklist(prog[pos])) \in Device
    BY <1>3, LegalizeFacts
  <2>2. prog[pos].lhs \in Var \cup {0} /\ prog[pos].outs \subseteq Var
    BY <2>1, ChecklistFacts
  <2>3. /\ pos' = pos + 1 /\ phase' = phase /\ UNCHANGED <<prog, typed, fused, memory, launches>>
        /\ seen' = seen \cup ({prog[pos].lhs} \ {0})
        /\ updated' = (updated \ prog[pos].outs) \cup UpdatedBy(prog[pos])
        /\ lowerer' = [lowerer EXCEPT ![pos] = {ConformingDevice(Checklist(prog[pos]))}]
    BY <1>3 DEF LegalizeParfor, NextStatement, compiled, executed
  <2>4. UpdatedBy(prog[pos]) \subseteq prog[pos].outs
    BY DEF UpdatedBy
  <2>5. seen' \subseteq Var /\ updated' \subseteq Var /\ Var' = Var
    BY <2>2, <2>3, <2>4 DEF TypeOK, Var
  <2>6. lowerer' \in [1..MaxStmts -> SUBSET Device]
    BY <1>0, <2>1, <2>3 DEF TypeOK
  <2>7. pos' \in 1..Len(prog') + 1
    BY <1>0, <2>1, <2>3
  <2> QED
    BY <2>1, <2>3, <2>5, <2>6, <2>7 DEF TypeOK
<1>4. ASSUME Fuse PROVE TypeOK'
  <2>1. /\ fused' \in SUBSET Fusible /\ phase' = "lower" /\ pos' = 1
        /\ UNCHANGED <<prog, typed, typemap, seen, updated, lowerer, memory, launches>>
    BY <1>4 DEF Fuse, compiled, legalized, executed
  <2>2. Fusible \subseteq 2..Len(prog) /\ 1 \in 1..Len(prog) + 1
    BY <1>0 DEF Fusible
  <2> QED
    BY <2>1, <2>2 DEF TypeOK, Var
<1>5. ASSUME Execute \/ Launch PROVE TypeOK'
  <2>1. /\ phase = "run" /\ phase' = "run" /\ pos \in DOMAIN prog /\ Allocate(prog[pos])
        /\ pos' = pos + 1
        /\ UNCHANGED <<prog, typed, typemap, seen, updated, lowerer, fused>>
    BY <1>0, <1>5 DEF Execute, Launch, Running, Advance, compiled, legalized
  <2>2. memory' \in Seq(ArrayType)
    <3>1. CASE prog[pos].lhs = 0
      BY <2>1, <3>1, AllocateFacts DEF TypeOK
    <3>2. CASE prog[pos].lhs # 0
      BY <2>1, <3>2, AllocateFacts DEF TypeOK
    <3> QED
      BY <3>1, <3>2
  <2>3. \A l \in launches' : l.queue \in Queue /\ l.on \subseteq Queue
    <3>1. CASE Execute
      BY <3>1 DEF Execute, TypeOK
    <3>2. CASE Launch
      <4>1. IsParfor(pos) /\ fused \subseteq Fusible
        BY <3>2 DEF Launch, LastOfGroup, PlainInv
      <4>2. \A x \in Arrays(Group(pos)) : memory'[x].queue \in Queue
        <5> TAKE x \in Arrays(Group(pos))
        <5>1. x \in DOMAIN memory'
          BY <2>1, <4>1, ArraysMade
        <5>2. memory'[x] \in ArrayType
          BY <2>2, <5>1
        <5> QED
          BY <5>2 DEF ArrayType
      <4>3. PICK x \in Arrays(Group(pos)) :
              launches' = launches \cup
                {[queue |-> memory'[x].queue, on |-> {memory'[y].queue : y \in Arrays(Group(pos))}]}
        BY <3>2 DEF Launch, Arrays
      <4>4. {memory'[y].queue : y \in Arrays(Group(pos))} \subseteq Queue
        BY <4>2
      <4> QED
        BY <4>2, <4>3, <4>4 DEF TypeOK
    <3> QED
      BY <1>5, <3>1, <3>2
  <2> QED
    BY <1>0, <2>1, <2>2, <2>3 DEF TypeOK, Var
<1>6. CASE StartLegalize \/ RefuseCall \/ RefuseParfor \/ Lower \/ RefuseLowering \/ Finish
           \/ UNCHANGED vars
  <2>1. /\ UNCHANGED <<pos, prog, typed, typemap, seen, updated, lowerer, fused, memory, launches>>
        /\ phase' \in {phase, "cfd", "error", "run", "done"}
    BY <1>6 DEF StartLegalize, RefuseCall, RefuseParfor, Lower, RefuseLowering, Finish, Fail,
                compiled, legalized, executed, vars
  <2> QED
    BY <2>1 DEF TypeOK, Var
<1> QED
  <2>1. CASE phase = "typing"
    BY <1>0, <1>1, <1>6, <2>1, TypingWrites
  <2>2. CASE phase # "typing"
    BY <1>2, <1>3, <1>4, <1>5, <1>6, <2>2, AfterTyping
  <2> QED
    BY <2>1, <2>2

----------------------------------------------------------------------------
(* USM types *)

\* A USM type is a number.
LEMMA UsmNumbers ==
  ASSUME InputAssumption, typed \in Seq(ArrayType), typemap \in [Var -> ArrayType]
  PROVE  \A x \in Var : typed[x].usm \in Int /\ typemap[x].usm \in Int
<1> TAKE x \in Var
<1>1. typed[x] \in ArrayType /\ typemap[x] \in ArrayType
  BY DEF Var
<1>2. typed[x].usm \in Usm /\ typemap[x].usm \in Usm
  BY <1>1 DEF ArrayType
<1>3. Usm \subseteq 1..3 /\ 1..3 \subseteq Int
  BY DEF InputAssumption
<1> QED
  BY <1>2, <1>3

\* A statement that is written after them does not change what the pass knows
\* of the variables.
LEMMA PassWritten ==
  ASSUME InputAssumption, TypeOK, ProgInv, MemoryInv, PassInv, NEW s, Written(s)
  PROVE  PassInv'
<1>1. typed \in Seq(ArrayType) /\ prog \in Seq(Statement)
  BY DEF TypeOK, ProgInv
<1>2. /\ prog'[Len(prog) + 1] = s
      /\ \A i \in DOMAIN prog : prog'[i] = prog[i]
      /\ DOMAIN prog = 1..Len(prog) /\ DOMAIN prog' = 1..Len(prog) + 1 /\ Len(prog) \in Nat
      /\ Var = 1..Len(typed) /\ Len(typed) \in Nat
      /\ \A x \in Var : typed'[x] = typed[x]
      /\ s.lhs = 0 => typed' = typed
      /\ s.lhs # 0 => s.lhs = Len(typed) + 1 /\ Var' = Var \cup {s.lhs}
  BY <1>1, WrittenFacts
<1>3. /\ phase = "typing" /\ phase' \in {"typing", "error"} /\ pos' = pos /\ pos = 1 /\ seen' = seen
      /\ seen \subseteq Var
  BY DEF Written, MemoryInv, TypeOK
<1>4. \A x \in Var : s.lhs # x
  BY <1>2
<1>5. \A x \in Var : s.lhs = 0 => typemap'[x] = typemap[x]
  BY DEF Written
<1>6. s.lhs # 0 => typemap' = typed'
  BY DEF Written
<1>7. \A i \in DOMAIN prog : IsParfor(i)' = IsParfor(i)
  BY <1>2 DEF IsParfor
<1>8. ASSUME NEW x \in seen PROVE typemap'[x].usm >= typed'[x].usm
  <2>1. x \in Var /\ typemap[x].usm >= typed[x].usm
    BY <1>3 DEF PassInv
  <2>2. CASE s.lhs = 0
    BY <1>2, <1>5, <2>1, <2>2
  <2>3. CASE s.lhs # 0
    <3>1. typed[x].usm \in Int
      BY <1>1, <2>1, UsmNumbers DEF TypeOK
    <3>2. typemap'[x] = typed[x] /\ typed'[x] = typed[x]
      BY <1>2, <1>6, <2>1, <2>3
    <3> QED
      BY <3>1, <3>2
  <2> QED
    BY <2>2, <2>3
<1>9. ASSUME NEW x \in Var'
      PROVE /\ Pending(x)' => typemap'[x] = typed'[x] /\ x \notin seen
            /\ ~Pending(x)' /\ Known(x)' => x \in seen
  <2>1. CASE x \in Var
    <3>1. Pending(x)' <=> Pending(x)
      BY <1>2, <1>3, <1>4, <2>1 DEF Pending
    <3>2. Known(x)' => Known(x)
      BY <1>2, <1>7 DEF Known
    <3>3. Pending(x) => typemap[x] = typed[x] /\ x \notin seen
      BY <1>3, <2>1 DEF PassInv
    <3>4. ~Pending(x) /\ Known(x) => x \in seen
      BY <1>3, <2>1 DEF PassInv
    <3> QED
      BY <1>2, <1>5, <1>6, <2>1, <3>1, <3>2, <3>3, <3>4
  <2>2. CASE x \notin Var
    <3>1. s.lhs # 0 /\ x = s.lhs
      BY <1>2, <2>2 DEF Var
    <3>2. Len(prog) + 1 \in DOMAIN prog' /\ Len(prog) + 1 >= pos /\ prog'[Len(prog) + 1].lhs = x
      BY <1>2, <1>3, <3>1
    <3>3. Pending(x)'
      BY <1>3, <3>2 DEF Pending
    <3> QED
      BY <1>3, <1>6, <2>2, <3>1, <3>3
  <2> QED
    BY <2>1, <2>2
<1>10. Legalized' = 1 /\ \A i \in DOMAIN prog' : ~(i < 1)
  BY <1>2, <1>3 DEF Legalized
<1> QED
  BY <1>3, <1>8, <1>9, <1>10 DEF PassInv

\* An array that the next statement uses or defines is defined by none after it.
LEMMA LaterDefinition ==
  ASSUME TypeOK, ProgInv, MemoryInv, pos \in DOMAIN prog, prog' = prog, pos' = pos + 1,
         NEW x \in Var, x \in Uses(pos) \/ x = prog[pos].lhs
  PROVE  ~Pending(x)'
<1>1. DOMAIN prog = 1..Len(prog) /\ Len(prog) \in Nat /\ Var = 1..Len(typed) /\ x \in Nat /\ x # 0
  BY DEF TypeOK, ProgInv, Var
<1>2. ASSUME NEW j \in DOMAIN prog, j >= pos + 1, prog[j].lhs = x PROVE FALSE
  <2>1. j > pos /\ pos < j
    BY <1>1, <1>2
  <2>2. CASE x \in Uses(pos)
    <3>1. x < prog[j].lhs
      BY <1>1, <1>2, <2>1, <2>2 DEF ProgInv
    <3> QED
      BY <1>1, <1>2, <3>1
  <2>3. CASE x = prog[pos].lhs
    <3>1. prog[pos].lhs < prog[j].lhs
      BY <1>1, <1>2, <2>1, <2>3 DEF MemoryInv
    <3> QED
      BY <1>1, <1>2, <2>3, <3>1
  <2> QED
    BY <2>2, <2>3
<1> QED
  BY <1>2 DEF Pending

\* What the pass does at a call outside a loop (_legalize_expr).
LEMMA PassCall ==
  ASSUME InputAssumption, TypeOK, ProgInv, MemoryInv, PassInv, LegalizeCall
  PROVE  PassInv'
<1>1. /\ phase = "cfd" /\ phase' = "cfd" /\ pos \in DOMAIN prog /\ ~IsParfor(pos) /\ pos' = pos + 1
      /\ UNCHANGED <<prog, typed, typemap>>
      /\ seen' = IF prog[pos].known THEN seen \cup {prog[pos].lhs} ELSE seen
      /\ DOMAIN prog = 1..Len(prog) /\ Len(prog) \in Nat
  BY DEF LegalizeCall, AtCall, NextStatement, compiled, TypeOK, ProgInv
<1>2. prog[pos].lhs \in Var /\ Pending(prog[pos].lhs)
  BY <1>1 DEF ProgInv, Pending, TypeOK
<1>4. \A x : Known(x)' = Known(x)
  BY <1>1 DEF Known, IsParfor
<1>5. ASSUME NEW x \in seen' PROVE typemap[x].usm >= typed[x].usm
  <2>1. CASE x \in seen
    BY <2>1 DEF PassInv
  <2>2. CASE x \notin seen
    <3>1. x \in Var /\ typemap[x] = typed[x]
      BY <1>1, <1>2, <2>2 DEF PassInv
    <3>2. typed[x].usm \in Int
      BY <3>1, UsmNumbers DEF TypeOK
    <3> QED
      BY <3>1, <3>2
  <2> QED
    BY <2>1, <2>2
<1>6. ASSUME NEW x \in Var
      PROVE /\ Pending(x)' => typemap[x] = typed[x] /\ x \notin seen'
            /\ ~Pending(x)' /\ Known(x) => x \in seen'
  <2>1. CASE prog[pos].lhs = x
    <3>1. typemap[x] = typed[x]
      BY <1>1, <1>2, <2>1 DEF PassInv
    <3>2. Known(x) => prog[pos].known
      BY <1>1, <2>1 DEF Known
    <3>3. prog[pos].known => x \in seen'
      BY <1>1, <2>1
    <3>4. ~Pending(x)'
      BY <1>1, <2>1, LaterDefinition
    <3> QED
      BY <3>1, <3>2, <3>3, <3>4
  <2>2. CASE prog[pos].lhs # x
    <3>1. /\ Pending(x) => typemap[x] = typed[x] /\ x \notin seen
          /\ ~Pending(x) /\ Known(x) => x \in seen
      BY <1>1 DEF PassInv
    <3>2. Pending(x)' <=> Pending(x)
      BY <1>1, <2>2 DEF Pending, TypeOK
    <3>3. seen \subseteq seen' /\ (x \in seen' => x \in seen)
      BY <1>1, <2>2
    <3> QED
      BY <3>1, <3>2, <3>3
  <2> QED
    BY <2>1, <2>2
<1>7. ASSUME NEW i \in DOMAIN prog, i < pos + 1, IsParfor(i), prog[i].lhs # 0,
             \A x \in prog[i].ins : Known(x)
      PROVE /\ \A x \in prog[i].ins : typed[x].usm <= typed[prog[i].lhs].usm
            /\ \E x \in prog[i].ins : x \in seen' /\ typed[prog[i].lhs].usm <= typemap[x].usm
  <2>1. i < pos
    BY <1>1, <1>7
  <2>2. seen \subseteq seen'
    BY <1>1
  <2> QED
    BY <1>1, <1>7, <2>1, <2>2 DEF PassInv, Legalized
<1>8. \A i \in DOMAIN prog : IsParfor(i)' = IsParfor(i)
  BY <1>1 DEF IsParfor
<1> QED
  BY <1>1, <1>4, <1>5, <1>6, <1>7, <1>8 DEF PassInv, Legalized, Var

\* What it does at a loop: the type of an output it knows is only raised, and
\* the result of an expression already has the largest type of its operands.
LEMMA PassLoop ==
  ASSUME QueueAssumption, InputAssumption, TypeOK, ProgInv, MemoryInv, PassInv, LegalizeParfor
  PROVE  PassInv'
<1> DEFINE stmt == prog[pos]
           list == Checklist(stmt)
           usm == ConformingUsm(list)
<1>1. /\ pos \in DOMAIN prog /\ IsParfor(pos) /\ usm \in Usm
      /\ \E x \in list : typemap[x].usm = usm
      /\ \A x \in list : typemap[x].usm <= usm
      /\ \A x \in Var \ stmt.outs : typemap'[x] = typemap[x]
      /\ \A x \in stmt.outs : typemap'[x].usm = usm
      /\ stmt.lhs # 0 => typemap'[stmt.lhs] = typemap[stmt.lhs]
  BY LegalizeFacts
<1>2. /\ phase = "cfd" /\ phase' = "cfd" /\ pos' = pos + 1 /\ UNCHANGED <<prog, typed>>
      /\ seen' = seen \cup ({stmt.lhs} \ {0})
      /\ DOMAIN prog = 1..Len(prog) /\ Len(prog) \in Nat
  BY DEF LegalizeParfor, AtParfor, NextStatement, compiled, ProgInv
<1>3. /\ list \subseteq Var /\ Uses(pos) \subseteq Var /\ stmt.lhs \in Var \cup {0}
      /\ Uses(pos) = stmt.ins \cup stmt.outs /\ seen \subseteq Var
      /\ list = (stmt.ins \ stmt.outs) \cup (stmt.outs \cap seen)
  BY <1>1, ChecklistFacts DEF TypeOK, Checklist
<1>4. stmt.lhs # 0 => /\ stmt.outs = {stmt.lhs} /\ stmt.ins # {} /\ stmt.lhs \notin stmt.ins
                      /\ stmt.lhs \in Var /\ Pending(stmt.lhs)
                      /\ typemap[stmt.lhs] = typed[stmt.lhs] /\ stmt.lhs \notin seen
  <2>1. stmt.lhs # 0 => Pending(stmt.lhs) /\ stmt.lhs \in Var
    BY <1>1, <1>2, <1>3 DEF Pending
  <2> QED
    BY <1>1, <1>2, <2>1 DEF ProgInv, PassInv
<1>5. \A x \in Var : typed[x].usm \in Int /\ typemap[x].usm \in Int
  BY UsmNumbers DEF TypeOK
<1>6. usm \in Int
  BY <1>1, <1>3, <1>5
<1>7. ASSUME NEW x \in seen PROVE typemap'[x].usm >= typemap[x].usm
  <2>1. CASE x \in stmt.outs
    <3>1. x \in list
      BY <1>3, <2>1
    <3>2. typemap[x].usm <= usm /\ typemap'[x].usm = usm
      BY <1>1, <2>1, <3>1
    <3> QED
      BY <1>3, <1>5, <1>6, <3>2
  <2>2. CASE x \notin stmt.outs
    BY <1>1, <1>3, <1>5, <2>2
  <2> QED
    BY <2>1, <2>2
<1>8. ASSUME NEW x \in Var PROVE typemap'[x].usm \in Int
  BY <1>1, <1>5, <1>6
<1>9. ASSUME NEW x \in seen' PROVE typemap'[x].usm >= typed[x].usm
  <2>1. CASE x \in seen
    <3>1. typemap[x].usm >= typed[x].usm /\ x \in Var
      BY <1>3, <2>1 DEF PassInv
    <3>2. typemap'[x].usm >= typemap[x].usm
      BY <1>7, <2>1
    <3> QED
      BY <1>5, <1>8, <3>1, <3>2
  <2>2. CASE x \notin seen
    <3>1. x = stmt.lhs /\ stmt.lhs # 0
      BY <1>2, <2>2
    <3>2. typemap'[x] = typed[x] /\ x \in Var
      BY <1>1, <1>4, <3>1
    <3> QED
      BY <1>5, <3>2
  <2> QED
    BY <2>1, <2>2
<1>10. \A x : Known(x)' = Known(x)
  BY <1>2 DEF Known, IsParfor
<1>11. ASSUME NEW x \in Var
       PROVE /\ Pending(x)' => typemap'[x] = typed[x] /\ x \notin seen'
             /\ ~Pending(x)' /\ Known(x) => x \in seen'
  <2>0. /\ Pending(x) => typemap[x] = typed[x] /\ x \notin seen
        /\ ~Pending(x) /\ Known(x) => x \in seen
    BY <1>2 DEF PassInv
  <2>1. CASE Pending(x)'
    <3>1. x \notin Uses(pos) /\ x # stmt.lhs
      BY <1>1, <1>2, <2>1, LaterDefinition
    <3>2. Pending(x)
      BY <1>2, <2>1 DEF Pending, TypeOK
    <3> QED
      BY <1>1, <1>2, <1>3, <2>0, <2>1, <3>1, <3>2
  <2>2. CASE ~Pending(x)'
    <3>1. x = stmt.lhs \/ ~Pending(x)
      BY <1>2, <2>2 DEF Pending, TypeOK
    <3>2. x # 0
      BY DEF Var, TypeOK
    <3> QED
      BY <1>2, <2>0, <2>2, <3>1, <3>2
  <2> QED
    BY <2>1, <2>2
<1>12. ASSUME NEW i \in DOMAIN prog, i < pos + 1, IsParfor(i), prog[i].lhs # 0,
             \A x \in prog[i].ins : Known(x)
      PROVE /\ \A x \in prog[i].ins : typed[x].usm <= typed[prog[i].lhs].usm
            /\ \E x \in prog[i].ins : x \in seen' /\ typed[prog[i].lhs].usm <= typemap'[x].usm
  <2>1. CASE i < pos
    <3>1. /\ \A x \in prog[i].ins : typed[x].usm <= typed[prog[i].lhs].usm
          /\ \E x \in prog[i].ins : x \in seen /\ typed[prog[i].lhs].usm <= typemap[x].usm
      BY <1>2, <1>12, <2>1 DEF PassInv, Legalized
    <3>2. PICK x \in prog[i].ins : x \in seen /\ typed[prog[i].lhs].usm <= typemap[x].usm
      BY <3>1
    <3>3. prog[i].lhs \in Var /\ x \in Var
      BY <1>3, <1>12, <3>2 DEF ProgInv
    <3>4. typemap'[x].usm >= typemap[x].usm
      BY <1>7, <3>2
    <3>5. typed[prog[i].lhs].usm <= typemap'[x].usm
      BY <1>5, <1>8, <3>2, <3>3, <3>4
    <3> QED
      BY <1>2, <3>1, <3>2, <3>5
  <2>2. CASE i = pos
    <3>1. \A x \in stmt.ins : x \in Var /\ ~Pending(x)
      <4> TAKE x \in stmt.ins
      <4>1. x \in Var /\ x \in Uses(pos)
        BY <1>3
      <4>2. ~Pending(x)'
        BY <1>1, <1>2, <4>1, LaterDefinition
      <4>3. x # stmt.lhs
        BY <1>4, <1>12, <2>2
      <4> QED
        BY <1>2, <4>1, <4>2, <4>3 DEF Pending, TypeOK
    <3>2. \A x \in stmt.ins : x \in seen
      BY <1>2, <1>12, <2>2, <3>1 DEF PassInv
    <3>3. list = stmt.ins
      BY <1>3, <1>4, <1>12, <2>2
    <3>4. typed[stmt.lhs].usm = usm
      BY <1>1, <1>4, <1>12, <2>2
    <3>5. ASSUME NEW x \in stmt.ins PROVE typed[x].usm <= typed[stmt.lhs].usm
      <4>1. typed[x].usm <= typemap[x].usm
        <5>1. typemap[x].usm >= typed[x].usm
          BY <3>2 DEF PassInv
        <5> QED
          BY <1>5, <3>1, <5>1
      <4>2. typemap[x].usm <= usm
        BY <1>1, <3>3
      <4> QED
        BY <1>5, <1>6, <3>1, <3>4, <4>1, <4>2
    <3>6. PICK x \in stmt.ins : typemap[x].usm = usm
      BY <1>1, <3>3
    <3>7. typemap'[x] = typemap[x]
      BY <1>1, <1>4, <1>12, <2>2, <3>1
    <3>8. x \in seen' /\ typed[stmt.lhs].usm <= typemap'[x].usm
      BY <1>2, <1>6, <3>2, <3>4, <3>6, <3>7
    <3> QED
      BY <2>2, <3>5, <3>8
  <2>3. i < pos \/ i = pos
    BY <1>1, <1>2, <1>12
  <2> QED
    BY <2>1, <2>2, <2>3
<1>13. \A i \in DOMAIN prog : IsParfor(i)' = IsParfor(i)
  BY <1>2 DEF IsParfor
<1> QED
  BY <1>2, <1>9, <1>10, <1>11, <1>12, <1>13 DEF PassInv, Legalized, Var

\* Nothing else the pipeline does changes what the pass found.
LEMMA StepPass ==
  ASSUME QueueAssumption, InputAssumption, TypeOK, ProgInv, MemoryInv, PassInv, [Next]_vars
  PROVE  PassInv'
<1>1. ASSUME UNCHANGED <<prog, typed, typemap, seen>>, phase' \notin {"typing", "cfd"},
             Legalized' = 1 \/ Legalized' = Legalized
      PROVE  PassInv'
  <2>1. \A x : Known(x)' = Known(x)
    BY <1>1 DEF Known, IsParfor
  <2>2. \A i \in DOMAIN prog : IsParfor(i)' = IsParfor(i) /\ ~(i < 1)
    BY <1>1 DEF IsParfor, ProgInv
  <2> QED
    BY <1>1, <2>1, <2>2 DEF PassInv
<1>2. CASE UNCHANGED <<phase, pos, prog, typed, typemap, seen>>
  BY <1>2 DEF PassInv, Pending, Known, IsParfor, Legalized, Var
<1>3. CASE StartLegalize
  <2>1. /\ UNCHANGED <<pos, prog, typed, typemap, seen>> /\ phase = "typing" /\ phase' = "cfd" /\ pos = 1
    BY <1>3 DEF StartLegalize, compiled, legalized, MemoryInv
  <2>2. Legalized = 1 /\ Legalized' = 1
    BY <2>1 DEF Legalized
  <2> QED
    BY <2>1, <2>2 DEF PassInv, Pending, Known, IsParfor, Var
<1>4. CASE RefuseCall \/ RefuseParfor \/ RefuseLowering
  <2>1. UNCHANGED <<prog, typed, typemap, seen>> /\ phase' = "error"
    BY <1>4 DEF RefuseCall, RefuseParfor, RefuseLowering, Fail, compiled, legalized
  <2> QED
    BY <1>1, <2>1 DEF Legalized
<1>5. CASE Fuse
  <2>1. /\ UNCHANGED <<prog, typed, typemap, seen>> /\ phase = "cfd" /\ phase' = "lower"
        /\ pos > Len(prog) /\ pos \in 1..Len(prog) + 1 /\ Len(prog) \in Nat
    BY <1>5 DEF Fuse, compiled, legalized, TypeOK, ProgInv
  <2>2. pos = Len(prog) + 1
    BY <2>1
  <2> QED
    BY <1>1, <2>1, <2>2 DEF Legalized
<1>6. CASE Lower \/ Execute \/ Launch \/ Finish
  <2>1. /\ UNCHANGED <<prog, typed, typemap, seen>> /\ phase \in {"lower", "run"}
        /\ phase' \in {"run", "done"}
    BY <1>6 DEF Lower, Execute, Launch, Finish, Running, Advance, compiled, legalized
  <2> QED
    BY <1>1, <2>1 DEF Legalized
<1> QED
  <2>1. CASE phase = "typing"
    BY <1>2, <1>3, <2>1, PassWritten, TypingWrites DEF TypeOK, vars, compiled, legalized
  <2>2. CASE phase # "typing"
    BY <1>2, <1>4, <1>5, <1>6, <2>2, PassCall, PassLoop, AfterTyping DEF vars, compiled, legalized
  <2> QED
    BY <2>1, <2>2

----------------------------------------------------------------------------
(* Plain loops *)

\* The kernel of a loop that is not fused is over the loop's arrays.
LEMMA ArraysOfOne ==
  ASSUME NEW i, IsParfor(i)
  PROVE  Arrays({i}) = Uses(i) /\ Uses(i) = prog[i].ins \cup prog[i].outs
<1>1. Outputs({i}) = prog[i].outs /\ Inputs({i}) = prog[i].ins \ prog[i].outs
  BY DEF Outputs, Inputs
<1> QED
  BY <1>1 DEF Arrays, Uses

\* Whether a loop is plain is decided when it has been written.
LEMMA PlainStays ==
  ASSUME prog' = prog, typed' = typed, NEW i
  PROVE  Plain(i)' <=> Plain(i)
BY DEF Plain, MixesTypes, NothingKnown, Arrays, Inputs, Outputs, Known, IsParfor

\* The pass accepts a plain loop and changes no type.
LEMMA PlainLoop ==
  ASSUME QueueAssumption, InputAssumption, TypeOK, ProgInv, MemoryInv, PassInv,
         typemap = typed, AtParfor, Plain(pos)
  PROVE  /\ pos \in DOMAIN prog /\ IsParfor(pos)
         /\ Conforms(prog[pos]) /\ UpdatedBy(prog[pos]) = {} /\ ~InitBlockFails(prog[pos])
         /\ \A x \in Uses(pos) :
              /\ ConformingDevice(Checklist(prog[pos])) = TypedDevice(typed, x)
              /\ LegalType(x, ConformingDevice(Checklist(prog[pos])),
                           ConformingUsm(Checklist(prog[pos]))) = typemap[x]
<1> DEFINE stmt == prog[pos]
           list == Checklist(stmt)
<1>1. /\ pos \in DOMAIN prog /\ IsParfor(pos) /\ phase = "cfd"
      /\ DOMAIN prog = 1..Len(prog) /\ Len(prog) \in Nat
  BY DEF AtParfor, TypeOK, ProgInv
<1>2. /\ Uses(pos) \subseteq Var /\ Uses(pos) # {} /\ list \subseteq Uses(pos)
      /\ Uses(pos) = stmt.ins \cup stmt.outs
  BY <1>1, ChecklistFacts DEF ProgInv
<1>3. \A x, y \in Uses(pos) : typed[x] = typed[y]
  BY <1>1, ArraysOfOne DEF Plain, MixesTypes
<1>4. list # {}
  <2>1. PICK x \in Uses(pos) : x \notin stmt.outs \/ Known(x)
    BY <1>1, ArraysOfOne DEF Plain, NothingKnown
  <2>2. CASE x \notin stmt.outs
    BY <1>2, <2>2 DEF Checklist
  <2>3. CASE x \in stmt.outs /\ stmt.lhs # 0
    <3>1. stmt.outs = {stmt.lhs} /\ stmt.ins # {} /\ stmt.lhs \notin stmt.ins
      BY <1>1, <2>3 DEF ProgInv
    <3> QED
      BY <3>1 DEF Checklist
  <2>4. CASE x \in stmt.outs /\ stmt.lhs = 0 /\ Known(x)
    <3>1. x \in Var /\ x # 0
      BY <1>2 DEF TypeOK, Var
    <3>2. ASSUME NEW j \in DOMAIN prog, j >= pos, prog[j].lhs = x PROVE FALSE
      <4>1. j > pos
        BY <1>1, <2>4, <3>1, <3>2
      <4>2. x < prog[j].lhs
        BY <1>1, <3>1, <3>2, <4>1 DEF ProgInv
      <4>3. x \in Int
        BY <3>1 DEF TypeOK, Var
      <4> QED
        BY <3>2, <4>2, <4>3
    <3>3. ~Pending(x)
      BY <3>2 DEF Pending
    <3>4. x \in seen
      BY <1>1, <2>4, <3>1, <3>3 DEF PassInv
    <3> QED
      BY <2>4, <3>4 DEF Checklist
  <2> QED
    BY <2>1, <2>2, <2>3, <2>4
<1>5. PICK y \in list : TRUE
  BY <1>4
<1>6. typed[y] \in ArrayType /\ typed[y].queue \in Queue /\ TypedDevice(typed, y) \in Device
  <2>1. typed[y] \in ArrayType
    BY <1>2 DEF TypeOK, Var
  <2> QED
    BY <2>1, QueueAssumption DEF ArrayType, TypedDevice
<1>7. \A x \in Uses(pos) : typed[x] = typed[y] /\ TypedDevice(typed, x) = TypedDevice(typed, y)
  BY <1>2, <1>3 DEF TypedDevice
<1>8. DevicesOf(list) = {TypedDevice(typed, y)}
  BY <1>2, <1>7 DEF DevicesOf
<1>9. /\ ConformingDevice(list) = TypedDevice(typed, y)
      /\ \E x \in list : typemap[x].usm = ConformingUsm(list)
  BY <1>2, <1>6, <1>8, ConformingFacts DEF TypeOK
<1>10. ConformingUsm(list) = typed[y].usm
  BY <1>2, <1>7, <1>9
<1>11. \A x \in Uses(pos) : ~Modified(x, ConformingDevice(list), ConformingUsm(list))
  BY <1>7, <1>9, <1>10 DEF Modified
<1>12. Conforms(stmt)
  BY <1>6, <1>8 DEF Conforms
<1>13. UpdatedBy(stmt) = {}
  BY <1>2, <1>11 DEF UpdatedBy
<1> QED
  BY <1>1, <1>7, <1>9, <1>11, <1>12, <1>13 DEF LegalType, InitBlockFails

\* While the loops are plain, the pass keeps the types.
LEMMA StepPlain ==
  ASSUME QueueAssumption, InputAssumption, TypeOK, ProgInv, MemoryInv, PassInv, PlainInv,
         [Next]_vars
  PROVE  PlainInv'
<1> DEFINE Kept(n) == /\ typemap = typed /\ updated = {}
                      /\ \A i \in DOMAIN prog : i < n /\ IsParfor(i) =>
                           \A x \in Uses(i) : lowerer[i] = {TypedDevice(typed, x)}
<1>0. DOMAIN prog = 1..Len(prog) /\ Len(prog) \in Nat /\ pos \in 1..Len(prog) + 1
  BY DEF TypeOK, ProgInv
<1>n. PICK n \in Nat : n = pos
  BY <1>0
<1>1. ASSUME NEW s, Written(s) PROVE PlainInv'
  <2>1. /\ phase = "typing" /\ phase' \in {"typing", "error"} /\ UNCHANGED <<updated, fused>>
        /\ (typemap' = typed' \/ (typed' = typed /\ typemap' = typemap))
    BY <1>1 DEF Written
  <2>2. typemap' = typed' /\ updated' = {} /\ fused' = {}
    BY <2>1 DEF PlainInv
  <2>3. Legalized' = 1 /\ \A i \in DOMAIN prog' : ~(i < 1)
    BY <1>0, <1>1, <2>1, WrittenFacts DEF Legalized, TypeOK, ProgInv
  <2> QED
    BY <2>1, <2>2, <2>3 DEF PlainInv
<1>2. ASSUME UNCHANGED <<prog, typed, typemap, updated, lowerer, fused>>,
             phase # "error", phase' \notin {"typing", "cfd"}, phase' # "error" => Legalized' = Legalized
      PROVE  PlainInv'
  <2>2. Fusible' = Fusible
    BY <1>2 DEF Fusible, IsParfor
  <2>3. PICK m : m = Legalized
    OBVIOUS
  <2>4. ASSUME phase' # "error", \A i \in DOMAIN prog' : i < m => Plain(i)'
        PROVE  Kept(m)'
    <3>1. \A i \in DOMAIN prog : i < m => Plain(i)
      BY <1>2, <2>4, PlainStays
    <3>2. Kept(m)
      BY <1>2, <2>3, <3>1 DEF PlainInv
    <3> QED
      BY <1>2, <3>2 DEF TypedDevice, IsParfor, Uses
  <2>5. phase' # "error" => Legalized' = m
    BY <1>2, <2>3
  <2> QED
    BY <1>2, <2>2, <2>4, <2>5 DEF PlainInv
<1>3. CASE UNCHANGED vars
  BY <1>3 DEF vars, compiled, legalized, PlainInv, Legalized, Plain, MixesTypes, NothingKnown,
              Arrays, Inputs, Outputs, Known, IsParfor, Uses, TypedDevice, Fusible
<1>4. CASE StartLegalize
  <2>1. /\ UNCHANGED <<pos, prog, typed, typemap, updated, lowerer, fused>>
        /\ phase = "typing" /\ phase' = "cfd" /\ pos = 1
    BY <1>4 DEF StartLegalize, compiled, legalized, MemoryInv
  <2>2. typemap = typed /\ updated = {} /\ fused = {}
    BY <2>1 DEF PlainInv
  <2>3. Legalized' = 1 /\ \A i \in DOMAIN prog' : ~(i < 1)
    BY <1>0, <2>1 DEF Legalized
  <2> QED
    BY <2>1, <2>2, <2>3 DEF PlainInv
<1>5. ASSUME phase = "cfd", phase' = "cfd", pos \in DOMAIN prog, pos' = pos + 1,
             UNCHANGED <<prog, typed, fused>>,
             Kept(n) /\ Plain(pos) => Kept(n + 1)'
      PROVE  PlainInv'
  <2>1. fused' = {} /\ Legalized = n /\ Legalized' = n + 1
    BY <1>n, <1>5 DEF PlainInv, Legalized
  <2>2. ASSUME \A i \in DOMAIN prog' : i < n + 1 => Plain(i)' PROVE Kept(n + 1)'
    <3>1. \A i \in DOMAIN prog : i < n + 1 => Plain(i)
      BY <1>5, <2>2, PlainStays
    <3>2. Plain(pos) /\ \A i \in DOMAIN prog : i < n => Plain(i)
      BY <1>0, <1>n, <1>5, <3>1
    <3>3. Kept(n)
      BY <1>5, <2>1, <3>2 DEF PlainInv
    <3> QED
      BY <1>5, <3>2, <3>3
  <2> QED
    BY <1>5, <2>1, <2>2 DEF PlainInv
<1>6. CASE LegalizeCall
  <2>1. /\ phase = "cfd" /\ phase' = "cfd" /\ pos \in DOMAIN prog /\ pos' = pos + 1
        /\ UNCHANGED <<prog, typed, fused, typemap, updated, lowerer>> /\ ~IsParfor(pos)
    BY <1>0, <1>6 DEF LegalizeCall, AtCall, NextStatement, compiled
  <2>2. \A i \in DOMAIN prog : i < n + 1 /\ IsParfor(i) => i < n
    BY <1>0, <1>n, <2>1
  <2>3. Kept(n) => Kept(n + 1)'
    BY <2>1, <2>2 DEF IsParfor, Uses, TypedDevice
  <2> QED
    BY <1>5, <2>1, <2>3
<1>7. CASE LegalizeParfor
  <2>1. /\ phase = "cfd" /\ phase' = "cfd" /\ pos \in DOMAIN prog /\ pos' = pos + 1
        /\ UNCHANGED <<prog, typed, fused>> /\ IsParfor(pos)
        /\ updated' = (updated \ prog[pos].outs) \cup UpdatedBy(prog[pos])
        /\ lowerer' = [lowerer EXCEPT ![pos] = {ConformingDevice(Checklist(prog[pos]))}]
        /\ typemap' = [x \in Var |-> IF x \in prog[pos].outs
                         THEN LegalType(x, ConformingDevice(Checklist(prog[pos])),
                                        ConformingUsm(Checklist(prog[pos])))
                         ELSE typemap[x]]
    BY <1>0, <1>7 DEF LegalizeParfor, AtParfor, NextStatement, compiled
  <2>2. ASSUME Kept(n), Plain(pos) PROVE Kept(n + 1)'
    <3>1. /\ UpdatedBy(prog[pos]) = {}
          /\ \A x \in Uses(pos) :
               /\ ConformingDevice(Checklist(prog[pos])) = TypedDevice(typed, x)
               /\ LegalType(x, ConformingDevice(Checklist(prog[pos])),
                            ConformingUsm(Checklist(prog[pos]))) = typemap[x]
      BY <1>7, <2>2, PlainLoop DEF LegalizeParfor
    <3>2. typemap' = typed' /\ updated' = {}
      <4>1. prog[pos].outs \subseteq Uses(pos)
        BY <2>1, ChecklistFacts
      <4>2. \A x \in Var : typemap'[x] = typemap[x]
        BY <2>1, <3>1, <4>1
      <4>3. typemap' = typemap
        BY <2>1, <4>2 DEF TypeOK
      <4> QED
        BY <2>1, <2>2, <3>1, <4>3
    <3>3. ASSUME NEW i \in DOMAIN prog, i < n + 1, IsParfor(i), NEW x \in Uses(i)
          PROVE  lowerer'[i] = {TypedDevice(typed, x)}
      <4>0. lowerer \in [1..MaxStmts -> SUBSET Device] /\ i \in 1..MaxStmts
        BY <1>0 DEF TypeOK, ProgInv, InputAssumption
      <4>1. CASE i = pos
        BY <2>1, <3>1, <3>3, <4>0, <4>1
      <4>2. CASE i # pos
        BY <1>0, <1>n, <2>1, <2>2, <3>3, <4>0, <4>2
      <4> QED
        BY <4>1, <4>2
    <3> QED
      BY <2>1, <3>2, <3>3 DEF IsParfor, Uses, TypedDevice
  <2>3. /\ phase = "cfd" /\ phase' = "cfd" /\ pos \in DOMAIN prog /\ pos' = pos + 1
        /\ UNCHANGED <<prog, typed, fused>>
    BY <2>1
  <2> HIDE DEF Kept
  <2> QED
    BY <1>5, <2>2, <2>3
<1>8. CASE Fuse
  <2>1. /\ UNCHANGED <<prog, typed, typemap, updated, lowerer>> /\ phase = "cfd" /\ phase' = "lower"
        /\ pos > Len(prog) /\ fused' \subseteq Fusible
    BY <1>8 DEF Fuse, compiled, legalized
  <2>2. Legalized = Len(prog) + 1 /\ Legalized' = Len(prog) + 1
    BY <1>0, <2>1 DEF Legalized
  <2>4. Fusible' = Fusible
    BY <2>1 DEF Fusible, IsParfor
  <2>5. PICK m : m = Len(prog) + 1
    OBVIOUS
  <2>6. ASSUME \A i \in DOMAIN prog' : i < m => Plain(i)'
        PROVE  Kept(m)'
    <3>1. \A i \in DOMAIN prog : i < m => Plain(i)
      BY <2>1, <2>6, PlainStays
    <3>2. Kept(m)
      BY <2>1, <2>2, <2>5, <3>1 DEF PlainInv
    <3> QED
      BY <2>1, <3>2 DEF TypedDevice, IsParfor, Uses
  <2> QED
    BY <2>1, <2>2, <2>4, <2>5, <2>6 DEF PlainInv
<1>9. CASE RefuseCall \/ RefuseParfor \/ RefuseLowering
  BY <1>2, <1>9 DEF RefuseCall, RefuseParfor, RefuseLowering, AtCall, AtParfor, Fail, compiled,
                    legalized
<1>10. CASE Lower \/ Execute \/ Launch \/ Finish
  <2>1. /\ UNCHANGED <<prog, typed, typemap, updated, lowerer, fused>> /\ phase \in {"lower", "run"}
        /\ phase' \in {"run", "done"}
    BY <1>10 DEF Lower, Execute, Launch, Finish, Running, Advance, compiled, legalized
  <2>2. Legalized' = Legalized
    BY <2>1 DEF Legalized
  <2> QED
    BY <1>2, <2>1, <2>2
<1> QED
  <2>1. CASE phase = "typing"
    BY <1>1, <1>3, <1>4, <2>1, TypingWrites DEF TypeOK
  <2>2. CASE phase # "typing"
    BY <1>3, <1>6, <1>7, <1>8, <1>9, <1>10, <2>2, AfterTyping
  <2> QED
    BY <2>1, <2>2

----------------------------------------------------------------------------
(* Lowering and refusals *)

\* What is lowered is decided by the types, the loops and their fusion.
LEMMA LowersStays ==
  ASSUME UNCHANGED <<prog, typed, typemap, fused>>
  PROVE  Lowers' <=> Lowers
BY DEF Lowers, DefinitionsAccepted, LastOfGroup, KernelAccepts, Group, Arrays, Inputs, Outputs,
       IsParfor

\* What was accepted stays accepted while it runs.
LEMMA StepRun ==
  ASSUME TypeOK, RunInv, [Next]_vars
  PROVE  RunInv'
<1>1. CASE phase' \notin {"run", "done"}
  BY <1>1 DEF RunInv
<1>2. CASE Lower \/ Execute \/ Launch \/ Finish
  <2>1. /\ UNCHANGED <<prog, typed, typemap, fused>> /\ Lowers
        /\ phase' = "done" => pos' > Len(prog')
    BY <1>2 DEF Lower, Execute, Launch, Finish, Running, Advance, compiled, legalized, RunInv
  <2> QED
    BY <2>1, LowersStays DEF RunInv
<1>3. CASE UNCHANGED vars
  <2>1. UNCHANGED <<prog, typed, typemap, fused>> /\ phase' = phase /\ pos' = pos
    BY <1>3 DEF vars, compiled, legalized
  <2> QED
    BY <2>1, LowersStays DEF RunInv
<1> QED
  <2>1. CASE phase = "typing"
    <3>1. (\E s : Written(s)) \/ StartLegalize => phase' \notin {"run", "done"}
      BY DEF Written, StartLegalize
    <3> QED
      BY <1>1, <1>3, <2>1, <3>1, TypingWrites DEF TypeOK
  <2>2. CASE phase # "typing"
    <3>1. ASSUME \/ LegalizeCall \/ RefuseCall \/ LegalizeParfor \/ RefuseParfor \/ Fuse
                 \/ RefuseLowering
          PROVE  phase' \notin {"run", "done"}
      BY <3>1 DEF LegalizeCall, RefuseCall, LegalizeParfor, RefuseParfor, AtCall, AtParfor,
             NextStatement, Fail, Fuse, RefuseLowering
    <3> QED
      BY <1>1, <1>2, <1>3, <2>2, <3>1, AfterTyping
  <2> QED
    BY <2>1, <2>2

\* Parfors that were fused have the same lowerer, by induction on their distance.
LEMMA GroupLowerer ==
  ASSUME ProgInv, fused \subseteq Fusible, NEW i \in DOMAIN prog, NEW j \in Group(i)
  PROVE  lowerer[j] = lowerer[i]
<1>0. DOMAIN prog = 1..Len(prog) /\ Len(prog) \in Nat
  BY DEF ProgInv
<1> DEFINE Apart == {n \in Nat : n < i /\ i - n \in Group(i) /\ lowerer[i - n] # lowerer[i]}
<1>1. SUFFICES ASSUME lowerer[j] # lowerer[i] PROVE FALSE
  OBVIOUS
<1>2. j \in 1..i
  BY DEF Group
<1>3. i - j \in Apart
  <2>1. i - (i - j) = j /\ i - j \in Nat /\ i - j < i
    BY <1>0, <1>2
  <2> QED
    BY <1>1, <2>1
<1>4. PICK n \in Apart : \A m \in Apart : n <= m
  <2>1. Apart \subseteq Nat /\ Apart # {}
    BY <1>3
  <2> HIDE DEF Apart
  <2> QED
    BY <2>1, Least
<1>5. n \in Nat /\ n < i /\ i - n \in Group(i) /\ lowerer[i - n] # lowerer[i]
  BY <1>4
<1>6. n # 0
  BY <1>0, <1>5
<1>7. i - n + 1 \in fused /\ i - n + 1 \in 1..i /\ i - n = (i - n + 1) - 1
      /\ i - (n - 1) = i - n + 1 /\ n - 1 \in Nat /\ n - 1 < i
  <2>1. i - n \in 1..i /\ \A k \in (i - n) + 1..i : k \in fused
    BY <1>5 DEF Group
  <2>2. i - n + 1 \in (i - n) + 1..i
    BY <1>0, <1>5, <1>6
  <2> QED
    BY <1>0, <1>5, <1>6, <2>1, <2>2
<1>8. lowerer[(i - n + 1) - 1] = lowerer[i - n + 1]
  BY <1>7 DEF Fusible
<1>9. i - n + 1 \in Group(i)
  <2>1. \A k \in (i - n + 1) + 1..i : k \in (i - n) + 1..i
    BY <1>0, <1>5
  <2>2. \A k \in (i - n) + 1..i : k \in fused
    BY <1>5 DEF Group
  <2> QED
    BY <1>7, <2>1, <2>2 DEF Group
<1>10. n - 1 \in Apart
  <2>1. lowerer[i - n + 1] # lowerer[i]
    BY <1>5, <1>7, <1>8
  <2> QED
    BY <1>7, <1>9, <2>1
<1>11. n <= n - 1
  BY <1>4, <1>10
<1> QED
  BY <1>5, <1>11

\* Plain loops are refused only after two of them, over different queues of a
\* device, became one kernel.
LEMMA PlainLowering ==
  ASSUME QueueAssumption, TypeOK, ProgInv, PlainInv, phase = "lower", ~Lowers,
         \A i \in DOMAIN prog : Plain(i)
  PROVE  \E i \in DOMAIN prog : IsParfor(i) /\ FusedQueues(i)
<1>1. /\ typemap = typed
      /\ \A i \in DOMAIN prog : IsParfor(i) =>
           \A x \in Uses(i) : lowerer[i] = {TypedDevice(typed, x)}
  <2>1. \A i \in DOMAIN prog : i < Legalized
    BY DEF Legalized, ProgInv
  <2> QED
    BY <2>1 DEF PlainInv
<1>2. PICK i \in DOMAIN prog : LastOfGroup(i) /\ ~KernelAccepts(Group(i))
  BY <1>1 DEF Lowers, DefinitionsAccepted
<1>3. IsParfor(i) /\ fused \subseteq Fusible
  BY <1>2 DEF LastOfGroup, PlainInv
<1>4. /\ \A j \in Group(i) : j \in DOMAIN prog /\ IsParfor(j)
      /\ i \in Group(i)
      /\ \A x \in Arrays(Group(i)) : \E j \in Group(i) : x \in Uses(j)
      /\ \A j \in Group(i) : Uses(j) \subseteq Arrays(Group(i))
  BY <1>3, GroupFacts
<1>5. \A x \in Arrays(Group(i)) : x \in Var /\ lowerer[i] = {TypedDevice(typed, x)}
  <2> TAKE x \in Arrays(Group(i))
  <2>1. PICK j \in Group(i) : x \in Uses(j)
    BY <1>4
  <2>2. lowerer[j] = {TypedDevice(typed, x)}
    BY <1>1, <1>4, <2>1
  <2>3. lowerer[j] = lowerer[i]
    BY <1>3, GroupLowerer
  <2>4. x \in Var
    BY <1>4, <2>1 DEF ProgInv
  <2> QED
    BY <2>2, <2>3, <2>4
<1>6. PICK x \in Arrays(Group(i)) : TRUE
  <2>1. Uses(i) # {}
    BY <1>3 DEF ProgInv
  <2> QED
    BY <1>4, <2>1
<1>7. typed[x].queue \in Queue
  <2>1. typed[x] \in ArrayType
    BY <1>5 DEF TypeOK, Var
  <2> QED
    BY <2>1 DEF ArrayType
<1>8. PICK y \in Arrays(Group(i)) : typed[y].queue # typed[x].queue
  <2>1. SUFFICES ASSUME \A y \in Arrays(Group(i)) : typed[y].queue = typed[x].queue PROVE FALSE
    OBVIOUS
  <2>2. {typemap[y].queue : y \in Arrays(Group(i))} = {typed[x].queue}
    BY <1>1, <2>1
  <2> QED
    BY <1>2, <1>7, <2>2 DEF KernelAccepts
<1>9. TypedDevice(typed, x) = TypedDevice(typed, y)
  BY <1>5
<1>10. FusedQueues(i)
  BY <1>8, <1>9 DEF FusedQueues
<1> QED
  BY <1>3, <1>10

\* A refusal has its reason in the statements so far.
LEMMA StepRefusal ==
  ASSUME QueueAssumption, InputAssumption, TypeOK, ProgInv, MemoryInv, PassInv, PlainInv,
         RefusalJustified, [Next]_vars
  PROVE  RefusalJustified'
<1>0. DOMAIN prog = 1..Len(prog) /\ Len(prog) \in Nat /\ pos \in 1..Len(prog) + 1
  BY DEF TypeOK, ProgInv
<1>1. ASSUME phase' = "error", UNCHANGED <<prog, typed, fused>>,
             \E i \in DOMAIN prog :
               IsParfor(i) /\ (MixesTypes(i) \/ NothingKnown(i) \/ FusedQueues(i))
      PROVE  RefusalJustified'
  BY <1>1 DEF RefusalJustified, IsParfor, MixesTypes, NothingKnown, FusedQueues, Arrays, Inputs,
              Outputs, Known, Group, TypedDevice
<1>2. CASE phase' # "error"
  BY <1>2 DEF RefusalJustified
<1>3. CASE UNCHANGED vars
  <2>1. UNCHANGED <<phase, prog, typed, fused>>
    BY <1>3 DEF vars, compiled
  <2> QED
    BY <1>1, <2>1 DEF RefusalJustified
<1>4. ASSUME NEW s, Written(s), phase' = "error" PROVE RefusalJustified'
  <2>1. /\ prog'[Len(prog) + 1] = s /\ Len(prog) + 1 \in DOMAIN prog'
        /\ \A x \in Var : typed'[x] = typed[x]
    BY <1>0, <1>4, WrittenFacts DEF TypeOK, ProgInv
  <2>2. PICK x, y \in s.ins : s.op = "parfor" /\ typed[x] # typed[y]
    BY <1>4 DEF Written
  <2>3. x \in Var /\ y \in Var
    BY <1>4, <2>2 DEF Written, Fits
  <2>4. PICK n \in Nat : n = Len(prog) + 1
    BY <1>0
  <2>5. IsParfor(n)'
    BY <2>1, <2>2, <2>4 DEF IsParfor
  <2>6. x \in Arrays({n})' /\ y \in Arrays({n})'
    <3>1. prog'[n].ins = s.ins
      BY <2>1, <2>4
    <3>2. x \in prog'[n].ins /\ y \in prog'[n].ins
      BY <2>2, <3>1
    <3> QED
      BY <3>2 DEF Arrays, Inputs, Outputs
  <2>7. MixesTypes(n)'
    BY <2>1, <2>2, <2>3, <2>6 DEF MixesTypes
  <2> QED
    BY <2>1, <2>4, <2>5, <2>7 DEF RefusalJustified
<1>5. CASE RefuseCall
  <2>1. /\ phase = "cfd" /\ phase' = "error" /\ UNCHANGED <<prog, typed, fused>>
        /\ updated # {}
    BY <1>5 DEF RefuseCall, AtCall, Fail, compiled
  <2>2. PICK i \in DOMAIN prog : ~Plain(i)
    BY <2>1 DEF PlainInv
  <2> QED
    BY <1>1, <2>1, <2>2 DEF Plain
<1>6. CASE RefuseParfor
  <2>1. /\ phase = "cfd" /\ phase' = "error" /\ UNCHANGED <<prog, typed, fused>>
        /\ AtParfor /\ (Conforms(prog[pos]) => InitBlockFails(prog[pos]))
    <3>1. phase = "cfd"
      BY <1>6 DEF RefuseParfor, AtParfor
    <3> QED
      BY <1>6, <3>1 DEF RefuseParfor, Fail, compiled
  <2>2. \E i \in DOMAIN prog : ~Plain(i)
    <3> SUFFICES ASSUME \A i \in DOMAIN prog : Plain(i) PROVE FALSE
      OBVIOUS
    <3>1. typemap = typed
      BY <2>1 DEF PlainInv
    <3>2. Plain(pos)
      BY <1>0, <2>1 DEF AtParfor
    <3> QED
      BY <2>1, <3>1, <3>2, PlainLoop
  <2> QED
    BY <1>1, <2>1, <2>2 DEF Plain
<1>7. CASE RefuseLowering
  <2>1. /\ phase = "lower" /\ phase' = "error" /\ UNCHANGED <<prog, typed, fused>> /\ ~Lowers
    BY <1>7 DEF RefuseLowering, Fail, compiled
  <2>2. CASE \A i \in DOMAIN prog : Plain(i)
    BY <1>1, <2>1, <2>2, PlainLowering
  <2>3. CASE \E i \in DOMAIN prog : ~Plain(i)
    BY <1>1, <2>1, <2>3 DEF Plain
  <2> QED
    BY <2>2, <2>3
<1>8. ASSUME LegalizeCall \/ LegalizeParfor \/ Fuse \/ Lower \/ Execute \/ Launch \/ Finish
             \/ StartLegalize
      PROVE  phase' # "error"
  BY <1>8 DEF LegalizeCall, LegalizeParfor, AtCall, AtParfor, NextStatement, Fuse, Lower,
              Execute, Launch, Running, Advance, Finish, StartLegalize
<1> QED
  <2>1. CASE phase = "typing"
    BY <1>2, <1>3, <1>4, <1>8, <2>1, TypingWrites DEF TypeOK
  <2>2. CASE phase # "typing"
    BY <1>2, <1>3, <1>5, <1>6, <1>7, <1>8, <2>2, AfterTyping
  <2> QED
    BY <2>1, <2>2

----------------------------------------------------------------------------
(* The theorems *)

\* A function that nothing has been written of.
LEMMA InitIInv ==
  ASSUME QueueAssumption, InputAssumption, Init
  PROVE  IInv
<1>1. /\ phase = "typing" /\ pos = 1 /\ prog = <<>> /\ typed \in Seq(ArrayType)
      /\ typemap = typed /\ seen = Var /\ updated = {} /\ fused = {} /\ memory = typed
      /\ launches = {} /\ lowerer = [i \in 1..MaxStmts |-> {}] /\ MaxStmts \in Nat
  BY DEF Init, InputAssumption
<1>2. /\ DOMAIN prog = {} /\ Len(prog) = 0
      /\ Var = 1..Len(typed) /\ Len(typed) \in Nat /\ typed \in [Var -> ArrayType]
  BY <1>1 DEF Var
<1>3. lowerer \in [1..MaxStmts -> SUBSET Device]
  BY <1>1
<1>4. TypeOK
  BY <1>1, <1>2, <1>3 DEF TypeOK
<1>5. ProgInv
  <2>1. prog \in Seq(Statement)
    BY <1>1
  <2> QED
    BY <1>1, <1>2, <2>1 DEF ProgInv
<1>6. MemoryInv
  BY <1>1, <1>2 DEF MemoryInv
<1>7. PassInv
  <2>1. \A x \in seen : typemap[x].usm >= typed[x].usm
    BY <1>1, <1>4, UsmNumbers DEF TypeOK
  <2> QED
    BY <1>1, <1>2, <2>1 DEF PassInv, Pending
<1>8. PlainInv
  BY <1>1, <1>2 DEF PlainInv
<1>9. RunInv /\ RefusalJustified
  BY <1>1 DEF RunInv, RefusalJustified
<1> QED
  BY <1>4, <1>5, <1>6, <1>7, <1>8, <1>9 DEF IInv

\* One step preserves the inductive invariant.
LEMMA StepIInv ==
  ASSUME QueueAssumption, InputAssumption, IInv, [Next]_vars
  PROVE  IInv'
<1>1. TypeOK /\ ProgInv /\ MemoryInv /\ PassInv /\ PlainInv /\ RunInv /\ RefusalJustified
  BY DEF IInv
<1>2. typed \in Seq(ArrayType) /\ MaxStmts \in Nat
  BY <1>1 DEF TypeOK, InputAssumption
<1> QED
  BY <1>1, <1>2, StepType, StepProg, StepMemory, StepPass, StepPlain, StepRun, StepRefusal
     DEF IInv

\* The inductive invariant of the whole pipeline, from type inference to the
\* launches, for functions of any length.
THEOREM Invariance == Spec => []IInv
<1>1. Init => IInv
  BY InitIInv, QueueAssumption, InputAssumption
<1>2. IInv /\ [Next]_vars => IInv'
  BY StepIInv, QueueAssumption, InputAssumption
<1> QED
  BY <1>1, <1>2, PTL DEF Spec

\* Every variable holds what it should, whatever function is compiled.
THEOREM TypeCorrect == Spec => []TypeOK
<1>1. IInv => TypeOK
  BY DEF IInv
<1> QED
  BY <1>1, Invariance, PTL

\* A function is refused only for a reason in its source: the compute follows
\* data pass and the lowering of parfors accept every other.
THEOREM RefusalCorrect == Spec => []RefusalJustified
<1>1. IInv => RefusalJustified
  BY DEF IInv
<1> QED
  BY <1>1, Invariance, PTL

\* The USM type of the memory of an expression's result follows its operands:
\* the pass never lowers a USM type and refuses a result whose type it would
\* have to raise, and the lowering refuses what it raised elsewhere.
THEOREM UsmCorrect == Spec => []UsmFollowsData
<1>1. ASSUME IInv PROVE UsmFollowsData
  <2>0. TypeOK /\ ProgInv /\ MemoryInv /\ PassInv /\ RunInv
    BY <1>1 DEF IInv
  <2>1. SUFFICES ASSUME phase = "done", NEW i \in DOMAIN prog, IsParfor(i), prog[i].lhs # 0,
                        \A x \in prog[i].ins : Known(x)
                 PROVE  memory[prog[i].lhs].usm = Largest({memory[x].usm : x \in prog[i].ins})
    BY DEF UsmFollowsData
  <2>2. typemap = typed
    BY <2>0, <2>1 DEF RunInv, Lowers, DefinitionsAccepted
  <2>3. i < Legalized
    BY <2>0, <2>1 DEF Legalized, ProgInv
  <2>4. /\ \A x \in prog[i].ins : typed[x].usm <= typed[prog[i].lhs].usm
        /\ \E x \in prog[i].ins : typed[prog[i].lhs].usm <= typed[x].usm
    BY <2>0, <2>1, <2>2, <2>3 DEF PassInv
  <2>5. \A x \in Var : x \in DOMAIN memory /\ memory[x].usm = typed[x].usm
    <3> TAKE x \in Var
    <3>1. /\ DOMAIN memory = 1..Len(memory) /\ Len(memory) \in Nat
          /\ Var = 1..Len(typed) /\ DOMAIN prog = 1..Len(prog) /\ Len(prog) \in Nat
          /\ pos > Len(prog) /\ pos \in Nat /\ Executed = pos
      BY <2>0, <2>1 DEF TypeOK, ProgInv, Var, RunInv, Executed
    <3>2. ~(x > Len(memory))
      BY <2>0, <3>1 DEF MemoryInv
    <3>3. x \in DOMAIN memory
      BY <3>1, <3>2
    <3> QED
      BY <2>0, <3>3 DEF MemoryInv
  <2>6. prog[i].ins \subseteq Var /\ prog[i].lhs \in Var
    BY <2>0, <2>1 DEF ProgInv, Uses
  <2>7. \A x \in Var : typed[x].usm \in Int /\ typed[x].usm \in 1..3
    <3> TAKE x \in Var
    <3>1. typed[x] \in ArrayType
      BY <2>0 DEF TypeOK, Var
    <3>2. typed[x].usm \in Usm
      BY <3>1 DEF ArrayType
    <3>3. Usm \subseteq 1..3 /\ 1..3 \subseteq Int
      BY InputAssumption DEF InputAssumption
    <3> QED
      BY <3>2, <3>3
  <2>8. PICK y \in prog[i].ins : typed[prog[i].lhs].usm <= typed[y].usm
    BY <2>4
  <2>9. typed[prog[i].lhs].usm = typed[y].usm
    BY <2>4, <2>6, <2>7, <2>8
  <2> DEFINE U == {memory[x].usm : x \in prog[i].ins}
  <2>10. U \subseteq 1..3
    BY <2>5, <2>6, <2>7
  <2>11. memory[prog[i].lhs].usm \in U
    BY <2>5, <2>6, <2>9
  <2>12. \A m \in U : m <= memory[prog[i].lhs].usm
    BY <2>4, <2>5, <2>6
  <2> QED
    <3> HIDE DEF U
    <3>1. Largest(U) = memory[prog[i].lhs].usm
      BY <2>10, <2>11, <2>12, LargestIsUnique
    <3> QED
      BY <3>1 DEF U
<1> QED
  BY <1>1, Invariance, PTL

----------------------------------------------------------------------------
(* The queues of launches *)

\* An array is allocated on the queue of its type, if zeros_like(x, device=d)
\* is never called: it allocates on the queue of x and has the type of d.
LEMMA StepSource ==
  ASSUME QueueAssumption, InputAssumption, LikeDevice = {}, IInv, SourceInv, [Next]_vars
  PROVE  SourceInv'
<1>0. /\ TypeOK /\ ProgInv /\ MemoryInv
      /\ typed \in Seq(ArrayType) /\ Len(typed) \in Nat /\ Var = 1..Len(typed)
      /\ DOMAIN memory = 1..Len(memory) /\ Len(memory) \in Nat /\ Len(memory) <= Len(typed)
      /\ DOMAIN prog = 1..Len(prog)
  BY DEF IInv, TypeOK, ProgInv, MemoryInv, Var
<1>1. ASSUME NEW s, Written(s) PROVE SourceInv'
  <2>1. /\ prog'[Len(prog) + 1] = s /\ DOMAIN prog' = 1..Len(prog) + 1 /\ Len(prog) \in Nat
        /\ \A i \in DOMAIN prog : prog'[i] = prog[i]
        /\ \A x \in Var : typed'[x] = typed[x]
        /\ s.lhs = 0 => typed' = typed
    BY <1>0, <1>1, WrittenFacts DEF ProgInv
  <2>2. /\ memory' = memory /\ s.from \in Var \cup {0} /\ (s.from # 0 => s.lhs # 0)
        /\ s.from # 0 => typed'[s.lhs].queue = typed[s.from].queue
    BY <1>1 DEF Written, Fits, executed
  <2>3. ASSUME NEW i \in DOMAIN prog', prog'[i].from # 0
        PROVE  typed'[prog'[i].from].queue = typed'[prog'[i].lhs].queue
    <3>1. CASE i \in DOMAIN prog
      <4>1. prog[i] \in Statement /\ prog[i].lhs \in Var /\ prog[i].from < prog[i].lhs
        BY <1>0, <2>1, <2>3, <3>1 DEF ProgInv
      <4>2. prog[i].from \in Nat
        BY <4>1 DEF Statement
      <4>3. prog[i].from \in Var
        BY <1>0, <2>1, <2>3, <3>1, <4>1, <4>2
      <4> QED
        BY <2>1, <2>3, <3>1, <4>1, <4>3 DEF SourceInv
    <3>2. CASE i \notin DOMAIN prog
      <4>1. prog'[i] = s
        BY <1>0, <2>1, <3>2
      <4> QED
        BY <2>1, <2>2, <2>3, <4>1
    <3> QED
      BY <3>1, <3>2
  <2>4. \A x \in DOMAIN memory' : memory'[x].queue = typed'[x].queue
    BY <1>0, <2>1, <2>2 DEF SourceInv
  <2> QED
    BY <2>3, <2>4 DEF SourceInv
<1>2. ASSUME UNCHANGED <<prog, typed, memory>> PROVE SourceInv'
  BY <1>2 DEF SourceInv
<1>3. ASSUME Execute \/ Launch PROVE SourceInv'
  <2>1. /\ phase = "run" /\ pos \in DOMAIN prog /\ Allocate(prog[pos]) /\ UNCHANGED <<prog, typed>>
    BY <1>0, <1>3 DEF Execute, Launch, Running, Advance, compiled, TypeOK
  <2>2. CASE prog[pos].lhs = 0
    BY <1>0, <1>2, <2>1, <2>2, AllocateFacts
  <2>3. CASE prog[pos].lhs # 0
    <3>1. /\ memory' = Append(memory, Allocation(prog[pos])) /\ Allocation(prog[pos]) \in ArrayType
          /\ prog[pos].lhs = Len(memory) + 1
          /\ prog[pos].from # 0 => prog[pos].from \in DOMAIN memory
      BY <1>0, <2>1, <2>3, AllocateFacts
    <3>2. /\ DOMAIN memory' = 1..Len(memory) + 1
          /\ memory'[Len(memory) + 1] = Allocation(prog[pos])
          /\ \A x \in DOMAIN memory : memory'[x] = memory[x]
      BY <1>0, <3>1 DEF TypeOK
    <3>3. Allocation(prog[pos]).queue = typed[prog[pos].lhs].queue
      BY <2>1, <3>1 DEF Allocation, SourceInv
    <3>4. ASSUME NEW x \in DOMAIN memory' PROVE memory'[x].queue = typed[x].queue
      <4>1. CASE x \in DOMAIN memory
        BY <3>2, <4>1 DEF SourceInv
      <4>2. CASE x \notin DOMAIN memory
        BY <1>0, <3>1, <3>2, <3>3, <4>2
      <4> QED
        BY <4>1, <4>2
    <3> QED
      BY <2>1, <3>4 DEF SourceInv
  <2> QED
    BY <2>2, <2>3
<1>4. CASE StartLegalize \/ LegalizeCall \/ RefuseCall \/ LegalizeParfor \/ RefuseParfor
           \/ Fuse \/ Lower \/ RefuseLowering \/ Finish \/ UNCHANGED vars
  <2>1. UNCHANGED <<prog, typed, memory>>
    BY <1>4 DEF StartLegalize, LegalizeCall, RefuseCall, LegalizeParfor, RefuseParfor,
                NextStatement, Fail, Fuse, Lower, RefuseLowering, Finish, vars, compiled, executed
  <2> QED
    BY <1>2, <2>1
<1> QED
  <2>1. CASE phase = "typing"
    BY <1>0, <1>1, <1>4, <2>1, TypingWrites
  <2>2. CASE phase # "typing"
    BY <1>3, <1>4, <2>2, AfterTyping
  <2> QED
    BY <2>1, <2>2

\* The arrays of a kernel that is launched are on one queue, that of the launch:
\* the lowering accepts a kernel only if the types of its arrays have one
\* queue, and an array is on the queue of its type.
LEMMA StepLaunches ==
  ASSUME QueueAssumption, InputAssumption, LikeDevice = {}, IInv, SourceInv, ArraysShareQueue,
         [Next]_vars
  PROVE  ArraysShareQueue'
<1>1. TypeOK /\ ProgInv /\ MemoryInv /\ fused \subseteq Fusible /\ RunInv
  BY DEF IInv, PlainInv
<1>2. CASE launches' = launches
  BY <1>2 DEF ArraysShareQueue
<1>3. CASE Launch
  <2>1. /\ phase = "run" /\ pos \in DOMAIN prog /\ Allocate(prog[pos]) /\ LastOfGroup(pos)
        /\ UNCHANGED <<prog, typed, typemap, fused>>
    BY <1>1, <1>3 DEF Launch, Running, Advance, compiled, legalized, TypeOK, ProgInv
  <2>2. typemap = typed /\ KernelAccepts(Group(pos))
    BY <1>1, <2>1 DEF RunInv, Lowers, DefinitionsAccepted
  <2>3. PICK q \in Queue : {typemap[x].queue : x \in Arrays(Group(pos))} = {q}
    BY <2>2 DEF KernelAccepts
  <2>4. SourceInv'
    BY StepSource
  <2>5. \A x \in Arrays(Group(pos)) : memory'[x].queue = q
    <3> TAKE x \in Arrays(Group(pos))
    <3>1. x \in DOMAIN memory'
      BY <1>1, <2>1, ArraysMade DEF LastOfGroup
    <3>2. memory'[x].queue = typed[x].queue
      BY <2>1, <2>4, <3>1 DEF SourceInv
    <3> QED
      BY <2>2, <2>3, <3>2
  <2>6. PICK x \in Arrays(Group(pos)) :
          launches' = launches \cup
            {[queue |-> memory'[x].queue, on |-> {memory'[y].queue : y \in Arrays(Group(pos))}]}
    BY <1>3 DEF Launch, Arrays
  <2>7. {memory'[y].queue : y \in Arrays(Group(pos))} = {q}
    BY <2>5, <2>6
  <2> QED
    BY <2>5, <2>6, <2>7 DEF ArraysShareQueue
<1> QED
  <2>1. CASE phase = "typing"
    <3>1. ASSUME NEW s, Written(s) PROVE launches' = launches
      BY <3>1 DEF Written, executed
    <3> QED
      BY <1>1, <1>2, <2>1, <3>1, TypingWrites DEF StartLegalize, executed, vars, TypeOK
  <2>2. CASE phase # "typing"
    BY <1>2, <1>3, <2>2, AfterTyping
       DEF LegalizeCall, RefuseCall, LegalizeParfor, RefuseParfor, NextStatement, Fail, Fuse,
           Lower, RefuseLowering, Execute, Finish, vars, executed
  <2> QED
    BY <2>1, <2>2

\* Arrays are combined only if they are on one queue, and the kernel that
\* combines them runs on it, in every function that does not call zeros_like,
\* ones_like, full_like or empty_like with the device keyword.
THEOREM QueueCorrect ==
  ASSUME LikeDevice = {}
  PROVE  Spec => []ArraysShareQueue
<1>1. Init => SourceInv /\ ArraysShareQueue
  BY DEF Init, SourceInv, ArraysShareQueue
<1>2. IInv /\ SourceInv /\ ArraysShareQueue /\ [Next]_vars => (SourceInv /\ ArraysShareQueue)'
  BY StepSource, StepLaunches, QueueAssumption, InputAssumption
<1> QED
  BY <1>1, <1>2, Invariance, PTL DEF Spec

============================================================================
