-------------------------- MODULE StatementsProofs --------------------------
(***************************************************************************)
(* The interpreter follows the checker: bodies that check_statement and    *)
(* check_function accept find their variables, leave their scopes, and     *)
(* return, whatever bodies there are, however deep and however many lists  *)
(* are in execution.                                                       *)
(*                                                                         *)
(* The invariant keeps, for every statement list in execution, a state in  *)
(* which the checker has accepted what is left of it.                      *)
(***************************************************************************)
EXTENDS Statements, SequenceTheorems, WellFoundedInduction, TLAPS

-----------------------------------------------------------------------------
(* Functions defined by recursion on the size of their argument.             *)

LEMMA LeastNumber ==
  ASSUME NEW S \in SUBSET Nat, S # {}
  PROVE  \E x \in S : \A y \in S : x <= y
<1> DEFINE R == OpToRel(<, Nat)
<1>1. IsWellFoundedOn(R, Nat)
  BY NatLessThanWellFounded
<1> HIDE DEF R
<1>2. PICK x \in S : \A y \in S : ~(<<y, x>> \in R)
  BY <1>1, WFMin, Zenon
<1>3. \A y \in S : y < x => <<y, x>> \in R
  BY DEF R, OpToRel
<1>4. \A y \in S : x \in Nat /\ y \in Nat /\ ~(y < x)
  BY <1>2, <1>3
<1>5. \A y \in S : x <= y
  BY <1>4
<1> QED
  BY <1>5

\* Something that is not so of every element is not so of a smallest one.
LEMMA SmallestElement ==
  ASSUME NEW D, NEW size \in [D -> Nat], NEW Bad \in SUBSET D, Bad # {}
  PROVE  \E x \in Bad : \A y \in D : size[y] < size[x] => y \notin Bad
<1> DEFINE S == {size[x] : x \in Bad}
<1>1. S \in SUBSET Nat /\ S # {}
  OBVIOUS
<1> HIDE DEF S
<1>2. PICK m \in S : \A n \in S : m <= n
  BY <1>1, LeastNumber
<1>3. PICK x \in Bad : m = size[x]
  BY <1>2 DEF S
<1>4. ASSUME NEW y \in D, size[y] < size[x], y \in Bad
      PROVE  FALSE
  <2>1. size[y] \in S /\ size[y] \in Nat /\ size[x] \in Nat
    BY <1>4 DEF S
  <2>2. size[x] <= size[y]
    BY <1>2, <1>3, <2>1
  <2> QED BY <1>4, <2>1, <2>2
<1> QED
  BY <1>3, <1>4

\* F gives the value of a function at each element, from its values at smaller ones.
IsRecursion(D, size, R, F) ==
  /\ size \in [D -> Nat] /\ R # {} /\ F \in [D -> [[D -> R] -> R]]
  /\ \A x \in D : \A f, g \in [D -> R] :
       (\A y \in D : size[y] < size[x] => f[y] = g[y]) => F[x][f] = F[x][g]

\* Such a function is there.
LEMMA RecursionExists ==
  ASSUME NEW D, NEW size, NEW R, NEW F, IsRecursion(D, size, R, F)
  PROVE  \E f \in [D -> R] : \A x \in D : f[x] = F[x][f]
<1> USE DEF IsRecursion
<1> DEFINE Upto(n) == {f \in [D -> R] : \A x \in D : size[x] < n => f[x] = F[x][f]}
<1>1. ASSUME NEW m \in Nat, NEW n \in Nat, NEW f \in Upto(m), NEW g \in Upto(n), NEW z \in D,
             size[z] < m, size[z] < n
      PROVE  f[z] = g[z]
  <2> DEFINE Bad == {x \in D : size[x] < m /\ size[x] < n /\ f[x] # g[x]}
  <2> SUFFICES ASSUME Bad # {} PROVE FALSE
    BY <1>1
  <2>0. Bad \in SUBSET D
    OBVIOUS
  <2>1. PICK x \in Bad : \A y \in D : size[y] < size[x] => y \notin Bad
    <3> HIDE DEF Bad, Upto
    <3> QED BY <2>0, SmallestElement, Zenon
  <2>2. \A y \in D : size[y] < size[x] => f[y] = g[y]
    BY <2>1
  <2>3. F[x][f] = F[x][g]
    BY <2>2
  <2> QED
    BY <2>3
<1>2. ASSUME NEW n \in Nat, Upto(n) # {}
      PROVE  Upto(n + 1) # {}
  <2>1. PICK f : f \in Upto(n)
    BY <1>2
  <2> DEFINE g == [x \in D |-> IF size[x] < n THEN f[x] ELSE F[x][f]]
  <2>2. f \in [D -> R] /\ g \in [D -> R]
    BY <2>1
  <2>3. \A x \in D : size[x] < n + 1 => g[x] = F[x][f]
    BY <2>1
  <2>4. ASSUME NEW x \in D, size[x] < n + 1
        PROVE  g[x] = F[x][g]
    <3>1. \A y \in D : size[y] < size[x] => g[y] = f[y]
      BY <2>4
    <3>2. F[x][f] = F[x][g]
      BY <3>1, <2>2
    <3> QED BY <2>3, <2>4, <3>2
  <2>5. g \in Upto(n + 1)
    BY <2>2, <2>4
  <2> QED BY <2>5
<1>3. Upto(0) # {}
  <2>1. PICK r : r \in R
    OBVIOUS
  <2>2. [x \in D |-> r] \in Upto(0)
    BY <2>1
  <2> QED BY <2>2
<1>4. ASSUME NEW n \in Nat
      PROVE  Upto(n) # {}
  <2> HIDE DEF Upto
  <2> DEFINE None == {k \in Nat : Upto(k) = {}}
  <2> SUFFICES ASSUME None # {} PROVE FALSE
    BY <1>4
  <2>1. PICK k \in None : \A j \in None : k <= j
    BY LeastNumber
  <2>2. k # 0
    BY <1>3
  <2>3. k \in Nat /\ k - 1 \in Nat /\ (k - 1) + 1 = k /\ ~(k <= k - 1)
    BY <2>2
  <2>4. Upto((k - 1) + 1) # {}
    <3>1. k - 1 \notin None
      BY <2>1, <2>3
    <3> QED BY <1>2, <2>3, <3>1
  <2> QED BY <2>1, <2>3, <2>4
<1> DEFINE h == [x \in D |-> (CHOOSE f : f \in Upto(size[x] + 1))[x]]
<1> HIDE DEF Upto
<1>5. ASSUME NEW x \in D
      PROVE  (CHOOSE f : f \in Upto(size[x] + 1)) \in Upto(size[x] + 1)
  <2>1. size[x] + 1 \in Nat
    OBVIOUS
  <2>2. \E f : f \in Upto(size[x] + 1)
    BY <2>1, <1>4
  <2> QED BY <2>2
<1>6. h \in [D -> R]
  BY <1>5 DEF Upto
<1>7. ASSUME NEW x \in D
      PROVE  h[x] = F[x][h]
  <2> DEFINE f == CHOOSE e : e \in Upto(size[x] + 1)
  <2>1. f \in Upto(size[x] + 1) /\ h[x] = f[x]
    BY <1>5
  <2> HIDE DEF f
  <2>2. f \in [D -> R] /\ f[x] = F[x][f]
    BY <2>1 DEF Upto
  <2>3. ASSUME NEW y \in D, size[y] < size[x]
        PROVE  h[y] = f[y]
    <3> DEFINE g == CHOOSE e : e \in Upto(size[y] + 1)
    <3>1. g \in Upto(size[y] + 1) /\ h[y] = g[y]
      BY <1>5
    <3> HIDE DEF g, h
    <3>2. size[y] + 1 \in Nat /\ size[x] + 1 \in Nat /\ size[y] < size[y] + 1 /\ size[y] < size[x] + 1
      BY <2>3
    <3>3. g[y] = f[y]
      BY <1>1, <2>1, <3>1, <3>2
    <3> QED BY <3>1, <3>3
  <2> HIDE DEF h
  <2>4. F[x][h] = F[x][f]
    BY <1>6, <2>2, <2>3
  <2> QED BY <2>1, <2>2, <2>4
<1> QED
  BY <1>6, <1>7

\* The innermost scope that binds a variable is the last one that does.
LEMMA InnermostScope ==
  ASSUME NEW scs \in Seq(Scope), NEW x \in Names
  PROVE  /\ ScopeOf(scs, x) \in 0..Len(scs)
         /\ ScopeOf(scs, x) # 0 => scs[ScopeOf(scs, x)][x] # Unbound
         /\ \A i \in 1..Len(scs) : i > ScopeOf(scs, x) => scs[i][x] = Unbound
<1> DEFINE S == {0} \cup {i \in DOMAIN scs : scs[i][x] # Unbound}
           T == {Len(scs) - i : i \in S}
<1>1. Len(scs) \in Nat /\ DOMAIN scs = 1..Len(scs) /\ S \subseteq 0..Len(scs)
  OBVIOUS
<1>2. T \in SUBSET Nat /\ T # {}
  BY <1>1
<1>3. PICK m \in T : \A n \in T : m <= n
  <2> HIDE DEF T
  <2> QED BY <1>2, LeastNumber
<1>4. PICK i \in S : m = Len(scs) - i
  BY <1>3
<1>5. \A j \in S : i >= j
  <2> SUFFICES ASSUME NEW j \in S PROVE i >= j
    OBVIOUS
  <2>1. Len(scs) - j \in T
    OBVIOUS
  <2>2. Len(scs) - i <= Len(scs) - j
    BY <1>3, <1>4, <2>1
  <2>3. i \in Nat /\ j \in Nat
    BY <1>1
  <2> QED BY <1>1, <2>2, <2>3
<1>6. ScopeOf(scs, x) \in S /\ \A j \in S : ScopeOf(scs, x) >= j
  <2> HIDE DEF S
  <2>1. Max(S) \in S /\ \A j \in S : Max(S) >= j
    BY <1>4, <1>5 DEF Max
  <2> QED BY <2>1 DEF ScopeOf, S
<1> QED
  BY <1>1, <1>6

LEMMA ScopeOfIs ==
  ASSUME NEW scs \in Seq(Scope), NEW x \in Names, NEW i \in 0..Len(scs),
         i # 0 => scs[i][x] # Unbound,
         \A j \in 1..Len(scs) : j > i => scs[j][x] = Unbound
  PROVE  ScopeOf(scs, x) = i
<1>1. Len(scs) \in Nat /\ ScopeOf(scs, x) \in 0..Len(scs)
  BY InnermostScope
<1>2. ~(ScopeOf(scs, x) > i)
  BY <1>1, InnermostScope
<1>3. ~(i > ScopeOf(scs, x))
  BY <1>1, InnermostScope
<1> QED
  BY <1>1, <1>2, <1>3

\* A variable has a type if some scope binds it.
LEMMA TypeInFacts ==
  ASSUME NEW scs \in Seq(Scope), NEW x \in Names
  PROVE  /\ TypeIn(scs, x) \in Types \cup {Unbound}
         /\ TypeIn(scs, x) = Unbound => \A i \in 1..Len(scs) : scs[i][x] = Unbound
         /\ TypeIn(scs, x) # Unbound => ScopeOf(scs, x) # 0
<1>1. Len(scs) \in Nat /\ \A i \in 1..Len(scs) : scs[i] \in Scope
  OBVIOUS
<1>2. \A i \in 1..Len(scs) : scs[i][x] \in Types \cup {Unbound}
  BY <1>1 DEF Scope
<1> QED
  BY <1>1, <1>2, InnermostScope DEF TypeIn

\* Only what a variable is in each scope says what it is.
LEMMA TypeInSame ==
  ASSUME NEW scs \in Seq(Scope), NEW others \in Seq(Scope), NEW x \in Names,
         Len(others) = Len(scs), \A i \in 1..Len(scs) : others[i][x] = scs[i][x]
  PROVE  TypeIn(others, x) = TypeIn(scs, x)
<1>1. ScopeOf(others, x) = ScopeOf(scs, x)
  BY InnermostScope, ScopeOfIs
<1> QED
  BY <1>1, InnermostScope DEF TypeIn

LEMMA TypeInPushed ==
  ASSUME NEW scs \in Seq(Scope), NEW scope \in Scope, NEW x \in Names
  PROVE  /\ scope[x] # Unbound => TypeIn(Append(scs, scope), x) = scope[x]
         /\ scope[x] = Unbound => TypeIn(Append(scs, scope), x) = TypeIn(scs, x)
<1> DEFINE more == Append(scs, scope)
<1>1. /\ more \in Seq(Scope) /\ Len(more) = Len(scs) + 1 /\ Len(scs) \in Nat
      /\ more[Len(scs) + 1] = scope /\ \A i \in 1..Len(scs) : more[i] = scs[i]
  OBVIOUS
<1> HIDE DEF more
<1>2. CASE scope[x] # Unbound
  <2>1. ScopeOf(more, x) = Len(scs) + 1
    BY <1>1, <1>2, ScopeOfIs
  <2> QED BY <1>1, <1>2, <2>1 DEF TypeIn, more
<1>3. CASE scope[x] = Unbound
  <2>1. ScopeOf(scs, x) \in 0..Len(more)
    BY <1>1, InnermostScope
  <2>2. ScopeOf(scs, x) # 0 => more[ScopeOf(scs, x)][x] # Unbound
    BY <1>1, InnermostScope
  <2>3. ASSUME NEW j \in 1..Len(more), j > ScopeOf(scs, x)
        PROVE  more[j][x] = Unbound
    BY <1>1, <1>3, <2>3, InnermostScope
  <2>4. ScopeOf(more, x) = ScopeOf(scs, x)
    BY <1>1, <2>1, <2>2, <2>3, ScopeOfIs
  <2> QED BY <1>1, <1>3, <2>4, InnermostScope DEF TypeIn, more
<1> QED
  BY <1>2, <1>3

\* An assignment that is allowed changes no type that is there: it makes a
\* variable in the innermost scope, or changes nothing.
LEMMA AssignedFacts ==
  ASSUME NEW scs \in Seq(Scope), scs # <<>>, NEW x \in Names, NEW t \in Types,
         CanAssign(TypeIn(scs, x), t)
  PROVE  /\ Assigned(scs, x, t) \in Seq(Scope) /\ Len(Assigned(scs, x, t)) = Len(scs)
         /\ TypeIn(scs, x) # Unbound => Assigned(scs, x, t) = scs
         /\ TypeIn(scs, x) = Unbound => Assigned(scs, x, t) = [scs EXCEPT ![Len(scs)][x] = t]
         /\ \A i \in 1..(Len(scs) - 1) : Assigned(scs, x, t)[i] = scs[i]
         /\ TypeIn(Assigned(scs, x, t), x) = t
         /\ \A y \in Names \ {x} : TypeIn(Assigned(scs, x, t), y) = TypeIn(scs, y)
<1> DEFINE n == Len(scs)
           new == [scs EXCEPT ![n][x] = t]
           s == ScopeOf(scs, x)
<1>1. n \in Nat /\ n # 0 /\ DOMAIN scs = 1..n /\ \A i \in 1..n : scs[i] \in Scope
  OBVIOUS
<1>2. s \in 0..n
  BY InnermostScope
<1>3. CASE TypeIn(scs, x) # Unbound
  <2>1. s # 0 /\ scs[s][x] = t
    BY <1>3 DEF TypeIn, CanAssign
  <2>2. [scs[s] EXCEPT ![x] = t] = scs[s]
    BY <1>1, <1>2, <2>1 DEF Scope
  <2>3. Assigned(scs, x, t) = scs
    BY <1>1, <2>1, <2>2 DEF Assigned
  <2> QED BY <1>3, <2>1, <2>3 DEF TypeIn
<1>4. CASE TypeIn(scs, x) = Unbound
  <2>1. s = 0
    BY <1>2, <1>4, InnermostScope DEF TypeIn
  <2>2. Assigned(scs, x, t) = new
    BY <2>1 DEF Assigned
  <2>3. /\ new \in Seq(Scope) /\ Len(new) = n /\ \A i \in 1..(n - 1) : new[i] = scs[i]
        /\ new[n][x] = t /\ \A i \in 1..n : \A y \in Names \ {x} : new[i][y] = scs[i][y]
    BY <1>1 DEF Scope
  <2> HIDE DEF new
  <2>4. ScopeOf(new, x) = n
    BY <1>1, <2>3, ScopeOfIs, UnboundIsNone
  <2>5. TypeIn(new, x) = t
    BY <1>1, <2>3, <2>4 DEF TypeIn
  <2>6. \A y \in Names \ {x} : TypeIn(new, y) = TypeIn(scs, y)
    BY <2>3, TypeInSame
  <2> QED BY <1>4, <2>2, <2>3, <2>5, <2>6 DEF new
<1> QED
  BY <1>3, <1>4

\* What is not so of every list is not so of a smallest one.
LEMMA SmallestList ==
  ASSUME NEW Bad \in SUBSET Bodies, Bad # {}
  PROVE  \E b \in Bad : \A c \in Bodies : Size(c) < Size(b) => c \notin Bad
<1> DEFINE size == [b \in Bodies |-> Size(b)]
<1>1. size \in [Bodies -> Nat]
  BY BodiesAreFinite
<1>2. \A b \in Bodies : size[b] = Size(b)
  OBVIOUS
<1> HIDE DEF size
<1>3. PICK b \in Bad : \A c \in Bodies : size[c] < size[b] => c \notin Bad
  BY <1>1, SmallestElement, Zenon
<1> QED
  BY <1>2, <1>3

LEMMA BodyFacts ==
  ASSUME NEW b \in Bodies
  PROVE  /\ b \in Seq(Statements) /\ \A i \in DOMAIN b : b[i] \in Statements
         /\ b # <<>> => Head(b) \in Statements /\ Tail(b) \in Bodies /\ Head(b) = b[1] /\ 1 \in DOMAIN b
         /\ b # <<>> /\ HasElse(Head(b)) => Head(b).bodies[2] \o Tail(b) \in Bodies
<1>1. b \in Seq(Statements) /\ Len(b) \in Nat /\ DOMAIN b = 1..Len(b)
  BY BodiesAreLists
<1>2. b # <<>> => Tail(b) \in Bodies
  BY BodiesAreLists
<1>3. b # <<>> /\ HasElse(Head(b)) => Head(b).bodies[2] \o Tail(b) \in Bodies
  <2> HAVE b # <<>> /\ HasElse(Head(b))
  <2>1. b \in {c \in Bodies \ {<<>>} : HasElse(Head(c))}
    OBVIOUS
  <2> QED BY <2>1, BodiesAreLists
<1> QED
  BY <1>1, <1>2, <1>3

LEMMA StatementFacts ==
  ASSUME NEW s \in Statements
  PROVE  /\ s.kind \in Kinds /\ s.bodies \in Seq(Bodies) /\ DOMAIN s.bodies = 1..Len(s.bodies)
         /\ \A j \in DOMAIN s.bodies : s.bodies[j] \in Bodies
         /\ s.kind \in {"assign", "read", "throw", "try"} => s.name \in Names
         /\ s.kind = "assign" => s.type \in Types
         /\ s.kind \in {"block", "if", "while", "try"} => 1 \in DOMAIN s.bodies
         /\ s.kind = "try" => 2 \in DOMAIN s.bodies
         /\ HasElse(s) => /\ 2 \in DOMAIN s.bodies
                          /\ Len(s.bodies[2]) = 1 /\ s.bodies[2][1].kind \in {"block", "if"}
<1>1. s.bodies \in Seq(Bodies) /\ Len(s.bodies) \in Nat /\ DOMAIN s.bodies = 1..Len(s.bodies)
  BY DEF Statements
<1>2. s.kind \in {"block", "if", "while", "try"} => Len(s.bodies) >= 1
  BY <1>1 DEF Statements
<1> QED
  BY <1>1, <1>2 DEF Statements, HasElse

ScopeFacts == NoNames \in Scope /\ \A x \in Names : Only(x, "exception") \in Scope

LEMMA ScopesOfNames ==
  ScopeFacts
BY DEF ScopeFacts, NoNames, Only, Scope, Types

-----------------------------------------------------------------------------
(* Checking a list is a function of it.                                      *)
Checks == [CheckerStates -> CheckerStates]

LEMMA PushedFacts ==
  ASSUME NEW st \in CheckerStates, NEW scope \in Scope
  PROVE  /\ Pushed(st, scope) \in CheckerStates
         /\ Pushed(st, scope).ok = st.ok /\ Pushed(st, scope).loops = st.loops
         /\ Pushed(st, scope).in = st.in
         /\ Pushed(st, scope).scopes = Append(st.scopes, scope) /\ Pushed(st, scope).scopes # <<>>
         /\ Len(Pushed(st, scope).scopes) = Len(st.scopes) + 1
         /\ Front(Pushed(st, scope).scopes) = st.scopes
<1>1. Pushed(st, scope) \in CheckerStates
  BY DEF Pushed, CheckerStates
<1>2. /\ Pushed(st, scope).ok = st.ok /\ Pushed(st, scope).loops = st.loops
      /\ Pushed(st, scope).in = st.in /\ Pushed(st, scope).scopes = Append(st.scopes, scope)
  BY DEF Pushed, CheckerStates
<1>3. st.scopes \in Seq(Scope)
  BY DEF CheckerStates
<1>4. Front(Append(st.scopes, scope)) = st.scopes
  BY <1>3 DEF Front
<1> QED
  BY <1>1, <1>2, <1>3, <1>4

LEMMA ScopedIsTyped ==
  ASSUME NEW f, NEW b, f[b] \in Checks, NEW st \in CheckerStates, NEW scope \in Scope
  PROVE  CheckScoped(f, st, scope, b) \in CheckerStates
<1>1. Pushed(st, scope) \in CheckerStates
  BY PushedFacts
<1>2. f[b][Pushed(st, scope)] \in CheckerStates
  BY <1>1 DEF Checks
<1>3. \A r \in CheckerStates : Front(r.scopes) \in Seq(Scope)
  BY DEF CheckerStates, Front
<1> QED
  BY <1>2, <1>3 DEF CheckScoped, CheckerStates

LEMMA AssignedIsTyped ==
  ASSUME NEW scs \in Seq(Scope), NEW x \in Names, NEW t \in Types
  PROVE  Assigned(scs, x, t) \in Seq(Scope)
<1> DEFINE i == IF ScopeOf(scs, x) = 0 THEN Len(scs) ELSE ScopeOf(scs, x)
<1>1. Assigned(scs, x, t) = [scs EXCEPT ![i][x] = t]
  BY DEF Assigned
<1>2. \A j \in 1..Len(scs) : scs[j] \in Scope /\ [scs[j] EXCEPT ![x] = t] \in Scope
  BY DEF Scope
<1>3. DOMAIN scs = 1..Len(scs) /\ DOMAIN Assigned(scs, x, t) = DOMAIN scs /\ Len(scs) \in Nat
  BY <1>1
<1> HIDE DEF i
<1>4. \A j \in DOMAIN scs : Assigned(scs, x, t)[j] = IF j = i THEN [scs[j] EXCEPT ![x] = t] ELSE scs[j]
  BY <1>1
<1>5. Assigned(scs, x, t) = [j \in 1..Len(scs) |-> Assigned(scs, x, t)[j]]
  BY <1>1, <1>3
<1> QED
  BY <1>2, <1>3, <1>4, <1>5

LEMMA StatementIsTyped ==
  ASSUME NEW f, NEW s \in Statements, \A j \in DOMAIN s.bodies : f[s.bodies[j]] \in Checks,
         NEW st \in CheckerStates
  PROVE  CheckStatement(f, st, s) \in CheckerStates
<1>1. /\ [st EXCEPT !.ok = FALSE] \in CheckerStates
      /\ [st EXCEPT !.loops = @ + 1] \in CheckerStates
  <2>1. [st EXCEPT !.ok = FALSE] \in CheckerStates
    BY DEF CheckerStates
  <2>2. [st EXCEPT !.loops = @ + 1] \in CheckerStates
    BY DEF CheckerStates
  <2> QED BY <2>1, <2>2
<1>7. CheckArms(f, st, s.bodies) \in CheckerStates
  <2>1. (\A i \in DOMAIN s.bodies : CheckScoped(f, st, NoNames, s.bodies[i]).ok) \in BOOLEAN
    OBVIOUS
  <2> QED BY <2>1 DEF CheckArms, CheckerStates
<1>2. s.kind = "assign" => [st EXCEPT !.scopes = Assigned(@, s.name, s.type)] \in CheckerStates
  BY StatementFacts, AssignedIsTyped DEF CheckerStates
<1>3. s.kind \in {"block", "if", "while", "try"} => CheckScoped(f, st, NoNames, s.bodies[1]) \in CheckerStates
  BY StatementFacts, ScopedIsTyped, ScopesOfNames DEF ScopeFacts
<1>4. s.kind = "if" => CheckIf(f, st, s) \in CheckerStates
  BY <1>3, StatementFacts DEF CheckIf, Checks
<1>5. s.kind = "try" => CheckTry(f, st, s) \in CheckerStates
  BY <1>3, StatementFacts, ScopedIsTyped, ScopesOfNames DEF ScopeFacts, CheckTry
<1>6. s.kind = "while" => CheckWhile(f, st, s) \in CheckerStates
  <2>1. s.kind = "while" => CheckScoped(f, [st EXCEPT !.loops = @ + 1], NoNames, s.bodies[1]) \in CheckerStates
    BY <1>1, StatementFacts, ScopedIsTyped, ScopesOfNames DEF ScopeFacts
  <2> QED BY <2>1 DEF CheckWhile, CheckerStates
<1> QED
  BY <1>1, <1>2, <1>3, <1>4, <1>5, <1>6, <1>7 DEF CheckStatement

LEMMA StatementIsLocal ==
  ASSUME NEW f, NEW g, NEW s \in Statements, \A j \in DOMAIN s.bodies : f[s.bodies[j]] = g[s.bodies[j]],
         NEW st
  PROVE  CheckStatement(f, st, s) = CheckStatement(g, st, s)
<1>1. \A j \in DOMAIN s.bodies : \A u, scope : CheckScoped(f, u, scope, s.bodies[j]) = CheckScoped(g, u, scope, s.bodies[j])
  BY DEF CheckScoped
<1>2. CheckArms(f, st, s.bodies) = CheckArms(g, st, s.bodies)
  BY <1>1 DEF CheckArms
<1>3. s.kind = "block" => CheckScoped(f, st, NoNames, s.bodies[1]) = CheckScoped(g, st, NoNames, s.bodies[1])
  BY <1>1, StatementFacts
<1>4. s.kind = "if" => CheckIf(f, st, s) = CheckIf(g, st, s)
  BY <1>1, StatementFacts DEF CheckIf
<1>5. s.kind = "try" => CheckTry(f, st, s) = CheckTry(g, st, s)
  <2> HAVE s.kind = "try"
  <2>1. 1 \in DOMAIN s.bodies /\ 2 \in DOMAIN s.bodies
    BY StatementFacts
  <2>2. CheckScoped(f, st, NoNames, s.bodies[1]) = CheckScoped(g, st, NoNames, s.bodies[1])
    BY <1>1, <2>1
  <2>3. \A u : CheckScoped(f, u, Only(s.name, "exception"), s.bodies[2])
                = CheckScoped(g, u, Only(s.name, "exception"), s.bodies[2])
    BY <1>1, <2>1
  <2> QED BY <2>2, <2>3, Zenon DEF CheckTry
<1>6. s.kind = "while" => CheckWhile(f, st, s) = CheckWhile(g, st, s)
  BY <1>1, StatementFacts DEF CheckWhile
<1> QED
  BY <1>2, <1>3, <1>4, <1>5, <1>6 DEF CheckStatement

\* The recursive definition says what it seems to say.
LEMMA CheckBodyIs ==
  /\ CheckBody \in [Bodies -> Checks]
  /\ \A b \in Bodies : \A st \in CheckerStates :
       CheckBody[b][st] =
         IF b = <<>> THEN st ELSE CheckBody[Tail(b)][CheckStatement(CheckBody, st, Head(b))]
<1> DEFINE Step(f, b, st) == IF b = <<>> THEN st ELSE f[Tail(b)][CheckStatement(f, st, Head(b))]
           Rule(f) == [b \in Bodies |-> [st \in CheckerStates |-> Step(f, b, st)]]
           size == [b \in Bodies |-> Size(b)]
           Smaller(b) == {c \in Bodies : size[c] < size[b]}
<1>1. size \in [Bodies -> Nat]
  BY BodiesAreFinite
<1>2. ASSUME NEW b \in Bodies, b # <<>>
      PROVE  /\ Tail(b) \in Smaller(b) /\ Head(b) \in Statements
             /\ \A j \in DOMAIN Head(b).bodies : Head(b).bodies[j] \in Smaller(b)
  <2>1. Tail(b) \in Bodies /\ Head(b) \in Statements /\ Head(b) = b[1] /\ 1 \in DOMAIN b
    BY <1>2, BodyFacts
  <2>2. \A j \in DOMAIN Head(b).bodies : Head(b).bodies[j] \in Bodies
    BY <2>1, StatementFacts
  <2> QED BY <1>2, <2>1, <2>2, BodiesAreFinite
<1> HIDE DEF Smaller
<1>3. ASSUME NEW f, NEW b \in Bodies, \A c \in Smaller(b) : f[c] \in Checks, NEW st \in CheckerStates
      PROVE  Step(f, b, st) \in CheckerStates
  <2>1. CASE b # <<>>
    <3>1. CheckStatement(f, st, Head(b)) \in CheckerStates
      BY <1>2, <1>3, <2>1, StatementIsTyped
    <3> QED BY <1>2, <1>3, <2>1, <3>1 DEF Checks
  <2> QED BY <1>3, <2>1
<1>4. ASSUME NEW f, NEW g, NEW b \in Bodies, \A c \in Smaller(b) : f[c] = g[c], NEW st
      PROVE  Step(f, b, st) = Step(g, b, st)
  <2>1. CASE b # <<>>
    <3>1. CheckStatement(f, st, Head(b)) = CheckStatement(g, st, Head(b))
      BY <1>2, <1>4, <2>1, StatementIsLocal
    <3> QED BY <1>2, <1>4, <2>1, <3>1
  <2> QED BY <2>1
<1> HIDE DEF Step
<1>5. \E f : f = Rule(f)
  <2> DEFINE F == [b \in Bodies |-> [f \in [Bodies -> Checks] |-> [st \in CheckerStates |-> Step(f, b, st)]]]
  <2>1. \A b \in Bodies : \A f \in [Bodies -> Checks] : [st \in CheckerStates |-> Step(f, b, st)] \in Checks
    <3>1. \A b \in Bodies : \A f \in [Bodies -> Checks] : \A c \in Smaller(b) : f[c] \in Checks
      BY DEF Smaller
    <3> QED BY <1>3, <3>1 DEF Checks
  <2>2. F \in [Bodies -> [[Bodies -> Checks] -> Checks]]
    BY <2>1
  <2>3. \A b \in Bodies : \A f, g \in [Bodies -> Checks] :
          (\A c \in Bodies : size[c] < size[b] => f[c] = g[c]) => F[b][f] = F[b][g]
    BY <1>4 DEF Smaller
  <2>4. Checks # {}
    <3>1. [st \in CheckerStates |-> st] \in Checks
      BY DEF Checks
    <3> QED BY <3>1
  <2>5. \A b \in Bodies : \A f \in [Bodies -> Checks] : F[b][f] = [st \in CheckerStates |-> Step(f, b, st)]
    OBVIOUS
  <2> HIDE DEF F, size
  <2>6. \E f \in [Bodies -> Checks] : \A b \in Bodies : f[b] = F[b][f]
    <3>1. IsRecursion(Bodies, size, Checks, F)
      BY <1>1, <2>2, <2>3, <2>4 DEF IsRecursion
    <3> QED BY <3>1, RecursionExists
  <2>7. PICK f \in [Bodies -> Checks] : \A b \in Bodies : f[b] = F[b][f]
    BY <2>6
  <2>8. \A b \in Bodies : f[b] = [st \in CheckerStates |-> Step(f, b, st)]
    BY <2>5, <2>7
  <2> QED BY <2>8
<1>6. CheckBody = Rule(CheckBody)
  BY <1>5 DEF CheckBody, Step
<1>7. \A b \in Bodies : CheckBody[b] = [st \in CheckerStates |-> Step(CheckBody, b, st)]
  BY <1>6
<1> DEFINE Bad == {b \in Bodies : CheckBody[b] \notin Checks}
<1>8. Bad = {}
  <2> SUFFICES ASSUME Bad # {} PROVE FALSE
    OBVIOUS
  <2>1. Bad \in SUBSET Bodies
    OBVIOUS
  <2>2. PICK b \in Bad : \A c \in Bodies : Size(c) < Size(b) => c \notin Bad
    BY <2>1, SmallestList, Zenon
  <2>3. b \in Bodies /\ \A c \in Smaller(b) : CheckBody[c] \in Checks
    BY <2>2 DEF Smaller
  <2>4. \A st \in CheckerStates : Step(CheckBody, b, st) \in CheckerStates
    BY <1>3, <2>3
  <2>5. [st \in CheckerStates |-> Step(CheckBody, b, st)] \in Checks
    BY <2>4, Zenon DEF Checks
  <2>6. CheckBody[b] \in Checks
    BY <1>7, <2>3, <2>5
  <2> QED BY <2>2, <2>6
<1>9. CheckBody \in [Bodies -> Checks]
  BY <1>6, <1>8
<1> QED
  BY <1>7, <1>9 DEF Step

\* What the checker has accepted leaves its state as it was, but for the names
\* that assignments in the list itself have made.
Keeps(b) ==
  \A st \in CheckerStates :
    CheckBody[b][st].ok =>
      /\ st.ok
      /\ st.scopes # <<>> =>
           /\ CheckBody[b][st].loops = st.loops /\ CheckBody[b][st].in = st.in
           /\ Len(CheckBody[b][st].scopes) = Len(st.scopes)
           /\ Front(CheckBody[b][st].scopes) = Front(st.scopes)
           /\ Len(b) = 1 /\ b[1].kind # "assign" => CheckBody[b][st] = st

LEMMA SameStates ==
  ASSUME NEW st \in CheckerStates, NEW r \in CheckerStates,
         r.ok = st.ok, r.loops = st.loops, r.in = st.in, r.scopes = st.scopes
  PROVE  r = st
BY DEF CheckerStates

LEMMA ScopedKeeps ==
  ASSUME NEW b \in Bodies, Keeps(b), NEW st \in CheckerStates, NEW scope \in Scope,
         CheckScoped(CheckBody, st, scope, b).ok
  PROVE  CheckBody[b][Pushed(st, scope)].ok /\ CheckScoped(CheckBody, st, scope, b) = st
<1> DEFINE pushed == Pushed(st, scope)
           r == CheckBody[b][pushed]
<1>1. pushed \in CheckerStates /\ r \in CheckerStates
  BY PushedFacts, CheckBodyIs DEF Checks
<1>2. CheckScoped(CheckBody, st, scope, b) = [r EXCEPT !.scopes = Front(@)]
  BY DEF CheckScoped
<1> HIDE DEF pushed, r
<1>3. /\ CheckScoped(CheckBody, st, scope, b).ok = r.ok /\ CheckScoped(CheckBody, st, scope, b).in = r.in
      /\ CheckScoped(CheckBody, st, scope, b).loops = r.loops
      /\ CheckScoped(CheckBody, st, scope, b).scopes = Front(r.scopes)
  BY <1>1, <1>2 DEF CheckerStates
<1>4. /\ r.ok /\ r.ok = st.ok /\ r.loops = st.loops /\ r.in = st.in /\ Front(r.scopes) = st.scopes
  <2>1. r.ok
    BY <1>3
  <2>2. pushed.ok /\ r.loops = pushed.loops /\ r.in = pushed.in /\ Front(r.scopes) = Front(pushed.scopes)
    BY <1>1, <2>1, PushedFacts DEF Keeps, r, pushed
  <2>3. r.ok \in BOOLEAN /\ st.ok \in BOOLEAN
    BY <1>1 DEF CheckerStates
  <2> QED BY <2>1, <2>2, <2>3, PushedFacts DEF pushed
<1>5. CheckScoped(CheckBody, st, scope, b) \in CheckerStates
  BY CheckBodyIs, ScopedIsTyped
<1>6. CheckScoped(CheckBody, st, scope, b) = st
  BY <1>3, <1>4, <1>5, SameStates
<1> QED
  BY <1>4, <1>6 DEF r, pushed

\* What the checker has accepted of a statement.
PartsAccepted(st, s) ==
  /\ s.kind \in {"block", "if", "try"} => CheckBody[s.bodies[1]][Pushed(st, NoNames)].ok
  /\ s.kind = "while" => CheckBody[s.bodies[1]][Pushed([st EXCEPT !.loops = @ + 1], NoNames)].ok
  /\ s.kind \in {"switch", "switch default"} =>
       \A i \in DOMAIN s.bodies : CheckBody[s.bodies[i]][Pushed(st, NoNames)].ok
  /\ s.kind = "try" => CheckBody[s.bodies[2]][Pushed(st, Only(s.name, "exception"))].ok
  /\ HasElse(s) => CheckBody[s.bodies[2]][st].ok /\ CheckBody[s.bodies[2]][st] = st

LEMMA StatementKeeps ==
  ASSUME NEW s \in Statements, \A j \in DOMAIN s.bodies : Keeps(s.bodies[j]),
         NEW st \in CheckerStates, st.scopes # <<>>, CheckStatement(CheckBody, st, s).ok
  PROVE  /\ st.ok /\ StatementOK(st, s) /\ PartsAccepted(st, s)
         /\ s.kind # "assign" => CheckStatement(CheckBody, st, s) = st
         /\ s.kind = "assign" =>
              CheckStatement(CheckBody, st, s) = [st EXCEPT !.scopes = Assigned(@, s.name, s.type)]
<1> DEFINE new == CheckStatement(CheckBody, st, s)
<1>1. st.ok /\ StatementOK(st, s)
  <2>1. [st EXCEPT !.ok = FALSE].ok = FALSE
    BY DEF CheckerStates
  <2> QED BY <2>1 DEF CheckStatement
<1>2. \A j \in DOMAIN s.bodies : \A u \in CheckerStates : \A scope \in Scope :
        CheckScoped(CheckBody, u, scope, s.bodies[j]).ok =>
          /\ CheckBody[s.bodies[j]][Pushed(u, scope)].ok
          /\ CheckScoped(CheckBody, u, scope, s.bodies[j]) = u
  BY StatementFacts, ScopedKeeps
<1>3. NoNames \in Scope /\ (s.kind = "try" => Only(s.name, "exception") \in Scope)
  BY StatementFacts, ScopesOfNames DEF ScopeFacts
<1>4. CASE s.kind = "assign"
  BY <1>1, <1>4 DEF CheckStatement, PartsAccepted, HasElse
<1>5. CASE s.kind = "block"
  <2>1. new = CheckScoped(CheckBody, st, NoNames, s.bodies[1])
    BY <1>1, <1>5 DEF CheckStatement
  <2> QED BY <1>1, <1>2, <1>3, <1>5, <2>1, StatementFacts DEF PartsAccepted, HasElse
<1>6. CASE s.kind = "if"
  <2> DEFINE r == CheckScoped(CheckBody, st, NoNames, s.bodies[1])
  <2>1. new = IF HasElse(s) THEN CheckBody[s.bodies[2]][r] ELSE r
    BY <1>1, <1>6 DEF CheckStatement, CheckIf
  <2>2. 1 \in DOMAIN s.bodies
    BY <1>6, StatementFacts
  <2>3. CASE ~HasElse(s)
    BY <1>1, <1>2, <1>3, <1>6, <2>1, <2>2, <2>3 DEF PartsAccepted
  <2>4. CASE HasElse(s)
    <3> DEFINE c == s.bodies[2]
    <3>1. r \in CheckerStates /\ c \in Bodies /\ Keeps(c) /\ Len(c) = 1 /\ c[1].kind # "assign"
      BY <1>3, <2>2, <2>4, StatementFacts, ScopedIsTyped, CheckBodyIs
    <3>2. new = CheckBody[c][r] /\ new.ok
      BY <2>1, <2>4
    <3>3. r.ok
      BY <3>1, <3>2 DEF Keeps
    <3>4. r = st /\ CheckBody[s.bodies[1]][Pushed(st, NoNames)].ok
      BY <1>2, <1>3, <2>2, <3>3
    <3>5. CheckBody[c][st] = st
      BY <3>1, <3>2, <3>4 DEF Keeps
    <3> QED BY <1>1, <1>6, <3>2, <3>4, <3>5 DEF PartsAccepted
  <2> QED BY <2>3, <2>4
<1>7. CASE s.kind = "try"
  <2> DEFINE r == CheckScoped(CheckBody, st, NoNames, s.bodies[1])
  <2>1. new = CheckScoped(CheckBody, r, Only(s.name, "exception"), s.bodies[2])
    BY <1>1, <1>7 DEF CheckStatement, CheckTry
  <2>2. 1 \in DOMAIN s.bodies /\ 2 \in DOMAIN s.bodies
    BY <1>7, StatementFacts
  <2>3. r \in CheckerStates
    BY <1>3, <2>2, StatementFacts, ScopedIsTyped, CheckBodyIs
  <2>4. new = r /\ CheckBody[s.bodies[2]][Pushed(r, Only(s.name, "exception"))].ok
    BY <1>2, <1>3, <1>7, <2>1, <2>2, <2>3
  <2>5. r = st /\ CheckBody[s.bodies[1]][Pushed(st, NoNames)].ok
    BY <1>2, <1>3, <2>2, <2>4
  <2> QED BY <1>1, <1>7, <2>4, <2>5 DEF PartsAccepted, HasElse
<1>8. CASE s.kind = "while"
  <2> DEFINE within == [st EXCEPT !.loops = @ + 1]
             r == CheckScoped(CheckBody, within, NoNames, s.bodies[1])
  <2>1. new = [r EXCEPT !.loops = st.loops]
    BY <1>1, <1>8 DEF CheckStatement, CheckWhile
  <2>2. within \in CheckerStates /\ [within EXCEPT !.loops = st.loops] = st
    <3>1. within \in CheckerStates
      BY DEF CheckerStates
    <3>2. [within EXCEPT !.loops = st.loops] = st
      BY DEF CheckerStates
    <3> QED BY <3>1, <3>2
  <2>3. 1 \in DOMAIN s.bodies
    BY <1>8, StatementFacts
  <2>4. r \in CheckerStates
    BY <1>3, <2>2, <2>3, StatementFacts, ScopedIsTyped, CheckBodyIs
  <2>5. r.ok
    BY <2>1, <2>4 DEF CheckerStates
  <2> HIDE DEF within
  <2>6. r = within /\ CheckBody[s.bodies[1]][Pushed(within, NoNames)].ok
    BY <1>2, <1>3, <2>2, <2>3, <2>5
  <2> QED BY <1>1, <1>8, <2>1, <2>2, <2>6 DEF PartsAccepted, HasElse, within
<1>9. CASE s.kind \in {"switch", "switch default"}
  <2>1. new = [st EXCEPT !.ok = \A i \in DOMAIN s.bodies : CheckScoped(CheckBody, st, NoNames, s.bodies[i]).ok]
    BY <1>1, <1>9 DEF CheckStatement, CheckArms
  <2>2. \A i \in DOMAIN s.bodies : CheckScoped(CheckBody, st, NoNames, s.bodies[i]).ok
    BY <2>1 DEF CheckerStates
  <2>3. st.ok = TRUE
    BY <1>1 DEF CheckerStates
  <2>4. new = st
    BY <2>1, <2>2, <2>3 DEF CheckerStates
  <2>5. \A i \in DOMAIN s.bodies : CheckBody[s.bodies[i]][Pushed(st, NoNames)].ok
    BY <1>2, <1>3, <2>2
  <2> QED BY <1>1, <1>9, <2>4, <2>5 DEF PartsAccepted, HasElse
<1>10. CASE s.kind \in {"read", "throw", "break", "continue", "return", "assert"}
  BY <1>1, <1>10 DEF CheckStatement, PartsAccepted, HasElse
<1> QED
  BY <1>4, <1>5, <1>6, <1>7, <1>8, <1>9, <1>10, StatementFacts DEF Kinds

LEMMA AllKeep ==
  \A b \in Bodies : Keeps(b)
<1> DEFINE Bad == {b \in Bodies : ~Keeps(b)}
<1> SUFFICES ASSUME Bad # {} PROVE FALSE
  OBVIOUS
<1>1. Bad \in SUBSET Bodies
  OBVIOUS
<1>2. PICK b \in Bad : \A c \in Bodies : Size(c) < Size(b) => c \notin Bad
  BY <1>1, SmallestList, Zenon
<1>3. b \in Bodies /\ \A c \in Bodies : Size(c) < Size(b) => Keeps(c)
  BY <1>2
<1> HIDE DEF Bad
<1>4. ASSUME NEW st \in CheckerStates, CheckBody[b][st].ok
      PROVE  /\ st.ok
             /\ st.scopes # <<>> =>
                  /\ CheckBody[b][st].loops = st.loops /\ CheckBody[b][st].in = st.in
                  /\ Len(CheckBody[b][st].scopes) = Len(st.scopes)
                  /\ Front(CheckBody[b][st].scopes) = Front(st.scopes)
                  /\ Len(b) = 1 /\ b[1].kind # "assign" => CheckBody[b][st] = st
  <2>1. CASE b = <<>>
    <3>1. CheckBody[b][st] = st
      BY <1>3, <2>1, CheckBodyIs
    <3> QED BY <1>4, <3>1
  <2>2. CASE b # <<>>
    <3> DEFINE s == Head(b)
               next == CheckStatement(CheckBody, st, s)
    <3>1. s \in Statements /\ Tail(b) \in Bodies /\ s = b[1] /\ 1 \in DOMAIN b
      BY <1>3, <2>2, BodyFacts
    <3>2. Keeps(Tail(b)) /\ \A j \in DOMAIN s.bodies : s.bodies[j] \in Bodies /\ Keeps(s.bodies[j])
      BY <1>3, <2>2, <3>1, StatementFacts, BodiesAreFinite
    <3>3. CheckBody[b][st] = CheckBody[Tail(b)][next]
      BY <1>3, <2>2, CheckBodyIs
    <3>4. next \in CheckerStates
      BY <3>1, <3>2, StatementIsTyped, CheckBodyIs
    <3>5. next.ok
      BY <1>4, <3>2, <3>3, <3>4 DEF Keeps
    <3>6. st.ok
      BY <3>5 DEF CheckStatement, CheckerStates
    <3>7. ASSUME st.scopes # <<>>
          PROVE  /\ CheckBody[b][st].loops = st.loops /\ CheckBody[b][st].in = st.in
                 /\ Len(CheckBody[b][st].scopes) = Len(st.scopes)
                 /\ Front(CheckBody[b][st].scopes) = Front(st.scopes)
                 /\ Len(b) = 1 /\ b[1].kind # "assign" => CheckBody[b][st] = st
      <4>1. /\ StatementOK(st, s)
            /\ s.kind # "assign" => next = st
            /\ s.kind = "assign" => next = [st EXCEPT !.scopes = Assigned(@, s.name, s.type)]
        BY <3>1, <3>2, <3>5, <3>7, StatementKeeps
      <4>2. /\ next.loops = st.loops /\ next.in = st.in /\ next.scopes # <<>>
            /\ Len(next.scopes) = Len(st.scopes) /\ Front(next.scopes) = Front(st.scopes)
        <5>1. CASE s.kind # "assign"
          BY <3>7, <4>1, <5>1
        <5>2. CASE s.kind = "assign"
          <6>1. s.name \in Names /\ s.type \in Types /\ CanAssign(TypeIn(st.scopes, s.name), s.type)
            BY <3>1, <4>1, <5>2, StatementFacts DEF StatementOK
          <6>2. next.loops = st.loops /\ next.in = st.in /\ next.scopes = Assigned(st.scopes, s.name, s.type)
            BY <4>1, <5>2 DEF CheckerStates
          <6>3. st.scopes \in Seq(Scope)
            BY DEF CheckerStates
          <6> DEFINE scs == st.scopes  new == Assigned(scs, s.name, s.type)
          <6> HIDE DEF scs, new
          <6>4. new \in Seq(Scope) /\ Len(new) = Len(scs) /\ \A i \in 1..(Len(scs) - 1) : new[i] = scs[i]
            BY <3>7, <6>1, <6>3, AssignedFacts DEF scs, new
          <6>5. scs \in Seq(Scope) /\ scs # <<>>
            BY <3>7, <6>3 DEF scs
          <6>6. Front(new) = Front(scs)
            BY <6>4, <6>5 DEF Front
          <6> QED BY <6>2, <6>4, <6>5, <6>6 DEF scs, new
        <5> QED BY <5>1, <5>2
      <4>3. Len(b) = 1 => Tail(b) = <<>>
        <5>1. b \in Seq(Statements)
          BY <1>3, BodyFacts
        <5>2. Len(b) = 1 => Tail(b) \in Seq(Statements) /\ Len(Tail(b)) = 0
          BY <2>2, <5>1
        <5> QED BY <5>2, EmptySeq
      <4>4. Len(b) = 1 => CheckBody[b][st] = next
        BY <3>1, <3>3, <3>4, <4>3, CheckBodyIs
      <4> HIDE DEF next
      <4>5. /\ CheckBody[b][st].loops = next.loops /\ CheckBody[b][st].in = next.in
            /\ Len(CheckBody[b][st].scopes) = Len(next.scopes)
            /\ Front(CheckBody[b][st].scopes) = Front(next.scopes)
        BY <1>4, <3>2, <3>3, <3>4, <4>2 DEF Keeps
      <4> QED BY <3>1, <4>1, <4>2, <4>4, <4>5
    <3> QED BY <3>6, <3>7
  <2> QED BY <2>1, <2>2
<1>5. Keeps(b)
  BY <1>4 DEF Keeps
<1> QED
  BY <1>2, <1>5 DEF Bad

LEMMA OneAhead ==
  ASSUME NEW S, NEW c \in Seq(S), Len(c) = 1, NEW d \in Seq(S)
  PROVE  /\ c # <<>> /\ Head(c) = c[1] /\ Tail(c) = <<>>
         /\ c \o d # <<>> /\ Head(c \o d) = c[1] /\ Tail(c \o d) = d
<1>1. c # <<>> /\ Head(c) = c[1] /\ Tail(c) \in Seq(S) /\ Len(Tail(c)) = 0
  OBVIOUS
<1>2. Tail(c) = <<>>
  BY <1>1, EmptySeq
<1> DEFINE e == c \o d
<1>3. /\ e \in Seq(S) /\ Len(e) = 1 + Len(d) /\ Len(d) \in Nat /\ e[1] = c[1]
      /\ \A i \in 1..Len(d) : e[i + 1] = d[i]
  <2>1. Len(d) \in Nat
    OBVIOUS
  <2>2. /\ e \in Seq(S) /\ Len(e) = Len(c) + Len(d)
        /\ \A i \in 1..(Len(c) + Len(d)) : e[i] = IF i <= Len(c) THEN c[i] ELSE d[i - Len(c)]
    BY ConcatProperties
  <2> HIDE DEF e
  <2>3. \A i \in 1..Len(d) : e[i + 1] = d[i]
    <3> TAKE i \in 1..Len(d)
    <3>1. i + 1 \in 1..(Len(c) + Len(d)) /\ ~(i + 1 <= Len(c)) /\ (i + 1) - Len(c) = i
      BY <2>1
    <3> QED BY <2>2, <3>1
  <2>4. e[1] = c[1]
    BY <2>1, <2>2
  <2> QED BY <2>1, <2>2, <2>3, <2>4
<1> HIDE DEF e
<1>4. e # <<>> /\ Head(e) = c[1] /\ Tail(e) \in Seq(S) /\ Len(Tail(e)) = Len(d)
  BY <1>3
<1>5. \A i \in 1..Len(Tail(e)) : Tail(e)[i] = d[i]
  BY <1>3, <1>4
<1>6. Tail(e) = d
  BY <1>4, <1>5, SeqEqual
<1> QED
  BY <1>1, <1>2, <1>4, <1>6 DEF e

\* Of a list that is accepted, the first statement is, and what is left of the
\* list is accepted in the state behind it; an else branch in place of its if.
LEMMA AcceptedList ==
  ASSUME NEW b \in Bodies, b # <<>>, NEW st \in CheckerStates, st.scopes # <<>>, CheckBody[b][st].ok
  PROVE  LET s == Head(b)
         IN /\ s \in Statements /\ Tail(b) \in Bodies /\ StatementOK(st, s) /\ PartsAccepted(st, s)
            /\ s.kind # "assign" => CheckBody[Tail(b)][st].ok
            /\ s.kind = "assign" => CheckBody[Tail(b)][[st EXCEPT !.scopes = Assigned(@, s.name, s.type)]].ok
            /\ HasElse(s) => /\ s.bodies[2] \o Tail(b) \in Bodies
                             /\ CheckBody[s.bodies[2] \o Tail(b)][st].ok
<1> DEFINE s == Head(b)
           next == CheckStatement(CheckBody, st, s)
<1>1. s \in Statements /\ Tail(b) \in Bodies /\ \A j \in DOMAIN s.bodies : s.bodies[j] \in Bodies
  BY BodyFacts, StatementFacts
<1>2. next \in CheckerStates /\ CheckBody[b][st] = CheckBody[Tail(b)][next]
  BY <1>1, StatementIsTyped, CheckBodyIs
<1>3. next.ok
  BY <1>1, <1>2, AllKeep DEF Keeps
<1>4. /\ StatementOK(st, s) /\ PartsAccepted(st, s)
      /\ s.kind # "assign" => next = st
      /\ s.kind = "assign" => next = [st EXCEPT !.scopes = Assigned(@, s.name, s.type)]
  BY <1>1, <1>3, AllKeep, StatementKeeps
<1>5. ASSUME HasElse(s)
      PROVE  /\ s.bodies[2] \o Tail(b) \in Bodies
             /\ CheckBody[s.bodies[2] \o Tail(b)][st].ok
  <2> DEFINE c == s.bodies[2]
             d == c \o Tail(b)
             first == CheckStatement(CheckBody, st, c[1])
  <2>1. c \in Bodies /\ Len(c) = 1 /\ d \in Bodies
    BY <1>1, <1>5, BodyFacts, StatementFacts
  <2>2. c \in Seq(Statements) /\ Tail(b) \in Seq(Statements)
    BY <1>1, <2>1, BodyFacts
  <2>3. Head(c) = c[1] /\ Tail(c) = <<>> /\ c # <<>>
    BY <2>1, <2>2, OneAhead
  <2>4. Head(d) = c[1] /\ Tail(d) = Tail(b) /\ d # <<>>
    <3>1. /\ c \o Tail(b) # <<>> /\ Head(c \o Tail(b)) = c[1]
          /\ Tail(c \o Tail(b)) = Tail(b)
      <4> HIDE DEF c
      <4> QED BY <2>1, <2>2, OneAhead, SMTT(30)
    <3> QED BY <3>1
  <2>5. CheckBody[c][st] = CheckBody[<<>>][first] /\ CheckBody[d][st] = CheckBody[Tail(b)][first]
    <3>1. CheckBody[c][st] = CheckBody[Tail(c)][CheckStatement(CheckBody, st, Head(c))]
      <4> HIDE DEF c, d, first
      <4> QED BY <2>1, <2>3, CheckBodyIs
    <3>2. CheckBody[d][st] = CheckBody[Tail(d)][CheckStatement(CheckBody, st, Head(d))]
      <4> HIDE DEF c, d, first
      <4> QED BY <2>1, <2>4, CheckBodyIs
    <3> QED BY <2>3, <2>4, <3>1, <3>2
  <2>6. c[1] \in Statements /\ \A j \in DOMAIN c[1].bodies : c[1].bodies[j] \in Bodies
    BY <2>1, <2>2, StatementFacts
  <2>7. first \in CheckerStates
    BY <2>6, StatementIsTyped, CheckBodyIs
  <2>8. CheckBody[c][st] = first
    BY <2>5, <2>7, CheckBodyIs, BodiesAreLists
  <2>9. CheckBody[c][st] = st
    BY <1>4, <1>5 DEF PartsAccepted
  <2>10. next = st
    BY <1>4, <1>5 DEF HasElse
  <2> QED BY <1>2, <2>1, <2>5, <2>8, <2>9, <2>10
<1> QED
  BY <1>1, <1>2, <1>4, <1>5

-----------------------------------------------------------------------------
(* What definitely returns.                                                  *)
LEMMA ReturnsIs ==
  \A b \in Bodies :
    BodyDefinitelyReturns[b] <=> \E i \in DOMAIN b : DefinitelyReturns(BodyDefinitelyReturns, b[i])
<1> DEFINE Step(f, b) == \E i \in DOMAIN b : DefinitelyReturns(f, b[i])
           Rule(f) == [b \in Bodies |-> Step(f, b)]
           size == [b \in Bodies |-> Size(b)]
<1>1. size \in [Bodies -> Nat]
  BY BodiesAreFinite
<1>2. ASSUME NEW b \in Bodies, NEW i \in DOMAIN b, NEW j \in DOMAIN b[i].bodies
      PROVE  b[i].bodies[j] \in Bodies /\ size[b[i].bodies[j]] < size[b]
  <2>1. b[i] \in Statements
    BY BodyFacts
  <2> QED BY <2>1, StatementFacts, BodiesAreFinite
<1> HIDE DEF size
<1>3. ASSUME NEW f, NEW g, NEW b \in Bodies, \A c \in Bodies : size[c] < size[b] => f[c] = g[c]
      PROVE  Step(f, b) = Step(g, b)
  <2>1. \A i \in DOMAIN b : \A j \in DOMAIN b[i].bodies : f[b[i].bodies[j]] = g[b[i].bodies[j]]
    BY <1>2, <1>3
  <2>2. \A i \in DOMAIN b : DefinitelyReturns(f, b[i]) <=> DefinitelyReturns(g, b[i])
    BY <2>1 DEF DefinitelyReturns
  <2> QED BY <2>2
<1>4. \A f, b : Step(f, b) \in BOOLEAN
  OBVIOUS
<1> HIDE DEF Step
<1>5. \E f : f = Rule(f)
  <2> DEFINE F == [b \in Bodies |-> [f \in [Bodies -> BOOLEAN] |-> Step(f, b)]]
  <2>1. F \in [Bodies -> [[Bodies -> BOOLEAN] -> BOOLEAN]]
    BY <1>4
  <2>2. \A b \in Bodies : \A f, g \in [Bodies -> BOOLEAN] :
          (\A c \in Bodies : size[c] < size[b] => f[c] = g[c]) => F[b][f] = F[b][g]
    BY <1>3
  <2>3. \A b \in Bodies : \A f \in [Bodies -> BOOLEAN] : F[b][f] = Step(f, b)
    OBVIOUS
  <2> HIDE DEF F
  <2>4. IsRecursion(Bodies, size, BOOLEAN, F)
    BY <1>1, <2>1, <2>2 DEF IsRecursion
  <2>5. PICK f \in [Bodies -> BOOLEAN] : \A b \in Bodies : f[b] = F[b][f]
    BY <2>4, RecursionExists
  <2>6. \A b \in Bodies : f[b] = Step(f, b)
    BY <2>3, <2>5
  <2> QED BY <2>6
<1>6. BodyDefinitelyReturns = Rule(BodyDefinitelyReturns)
  BY <1>5 DEF BodyDefinitelyReturns, Step
<1>7. \A b \in Bodies : BodyDefinitelyReturns[b] = Step(BodyDefinitelyReturns, b)
  BY <1>6
<1> QED
  BY <1>7 DEF Step

\* A list that returns does so in its first statement, or in the rest.
LEMMA ReturningList ==
  ASSUME NEW b \in Bodies, BodyDefinitelyReturns[b]
  PROVE  /\ b # <<>>
         /\ \/ BodyDefinitelyReturns[Tail(b)]
            \/ DefinitelyReturns(BodyDefinitelyReturns, Head(b))
<1>1. b \in Seq(Statements)
  BY BodyFacts
<1>2. PICK i \in DOMAIN b : DefinitelyReturns(BodyDefinitelyReturns, b[i])
  BY ReturnsIs
<1>3. b # <<>> /\ Tail(b) \in Bodies /\ Head(b) = b[1]
  BY <1>1, BodyFacts
<1>4. CASE i = 1
  BY <1>2, <1>3, <1>4
<1>5. CASE i # 1
  <2>1. i - 1 \in DOMAIN Tail(b) /\ Tail(b)[i - 1] = b[i]
    BY <1>1, <1>3, <1>5
  <2> QED BY <1>2, <1>3, <2>1, ReturnsIs
<1> QED
  BY <1>4, <1>5

LEMMA ReturningElse ==
  ASSUME NEW c \in Bodies, NEW d \in Bodies, c \o d \in Bodies,
         BodyDefinitelyReturns[c] \/ BodyDefinitelyReturns[d]
  PROVE  BodyDefinitelyReturns[c \o d]
<1>1. c \in Seq(Statements) /\ d \in Seq(Statements)
  BY BodyFacts
<1>2. CASE BodyDefinitelyReturns[c]
  <2>1. PICK i \in DOMAIN c : DefinitelyReturns(BodyDefinitelyReturns, c[i])
    BY <1>2, ReturnsIs
  <2>2. i \in DOMAIN (c \o d) /\ (c \o d)[i] = c[i]
    BY <1>1
  <2> QED BY <2>1, <2>2, ReturnsIs
<1>3. CASE BodyDefinitelyReturns[d]
  <2>1. PICK i \in DOMAIN d : DefinitelyReturns(BodyDefinitelyReturns, d[i])
    BY <1>3, ReturnsIs
  <2>2. i + Len(c) \in DOMAIN (c \o d) /\ (c \o d)[i + Len(c)] = d[i]
    BY <1>1
  <2> QED BY <2>1, <2>2, ReturnsIs
<1> QED
  BY <1>2, <1>3

-----------------------------------------------------------------------------
(* The invariant.                                                            *)
Frames ==
  [does : {"body", "block", "while", "try", "catch"}, rest : Bodies, try : Statements \cup {NoTry}]

TypesOK ==
  /\ program \in Programs /\ globals \in Scope /\ flow \in Flows
  /\ scopes \in Seq(Scope) /\ frames \in Seq(Frames) /\ Len(scopes) = Len(frames)

\* What a variable is at run time, for the i-th list in execution.
TypeAt(i, x) ==
  IF TypeIn(SubSeq(scopes, 1, i), x) # Unbound THEN TypeIn(SubSeq(scopes, 1, i), x) ELSE globals[x]

\* The checker has accepted what is left of the i-th list in a state in which each
\* variable that it sees is what it is at run time.  Behind a try statement it has
\* accepted the catch body in the state of the list around it.
FrameChecked(run, i) ==
  /\ CheckBody[frames[i].rest][run[i]].ok
  /\ run[i].in = program.of /\ run[i].scopes # <<>>
  /\ \A x \in Names : TypeIn(run[i].scopes, x) # Unbound => TypeAt(i, x) = TypeIn(run[i].scopes, x)
  /\ run[i].loops > 0 => \E j \in 1..i : frames[j].does = "while"
  /\ frames[i].does = "body" <=> i = 1
  /\ frames[i].does = "while" =>
       frames[i - 1].rest # <<>> /\ Head(frames[i - 1].rest).kind = "while"
  /\ frames[i].does = "try" =>
       /\ frames[i].try \in Statements /\ frames[i].try.kind = "try"
       /\ CheckBody[frames[i].try.bodies[2]][Pushed(run[i - 1], Only(frames[i].try.name, "exception"))].ok

Follows(run) ==
  /\ run \in Seq(CheckerStates) /\ Len(run) = Len(frames)
  /\ \A i \in 1..Len(frames) : FrameChecked(run, i)

RunFollows == \E run : Follows(run)

FlowOK ==
  frames # <<>> =>
    /\ flow \in {"break", "continue"} => \E i \in 1..Len(frames) : frames[i].does = "while"
    /\ flow = "return" => IsFunction(program)

\* The i-th list returns, and nothing leads around it: no list up to it is the
\* body of a loop, and each catch body returns as well.
Covered(i) ==
  /\ \A k \in 2..Len(frames) : k <= i =>
       /\ frames[k].does # "while"
       /\ frames[k].does = "try" => BodyDefinitelyReturns[frames[k].try.bodies[2]]
  /\ i <= Len(frames) => BodyDefinitelyReturns[frames[i].rest]
  /\ flow \in {"normal", "break", "continue"} => i <= Len(frames)

IsCovered == frames # <<>> /\ program.of = "value" => \E i \in Nat \ {0} : Covered(i)

StatementsInv == TypesOK /\ RunFollows /\ FlowOK /\ IsCovered

-----------------------------------------------------------------------------
(* Sequences of frames, scopes and states.                                   *)
LEMMA FrontFacts ==
  ASSUME NEW S, NEW s \in Seq(S), s # <<>>
  PROVE  /\ Front(s) \in Seq(S) /\ Len(Front(s)) = Len(s) - 1 /\ Len(s) - 1 \in Nat
         /\ \A i \in 1..(Len(s) - 1) : Front(s)[i] = s[i]
<1>1. Len(s) \in Nat /\ Len(s) # 0 /\ DOMAIN s = 1..Len(s)
  OBVIOUS
<1>2. \A i \in 1..(Len(s) - 1) : i \in 1..Len(s) /\ s[i] \in S
  BY <1>1
<1>3. Front(s) = [i \in 1..(Len(s) - 1) |-> s[i]]
  BY <1>1 DEF Front
<1> QED
  BY <1>1, <1>2, <1>3

LEMMA WithRestFacts ==
  ASSUME NEW fs \in Seq(Frames), fs # <<>>, NEW r \in Bodies
  PROVE  LET gs == [fs EXCEPT ![Len(fs)].rest = r]
         IN /\ gs \in Seq(Frames) /\ Len(gs) = Len(fs) /\ gs[Len(fs)].rest = r
            /\ \A i \in 1..Len(fs) : /\ gs[i].does = fs[i].does /\ gs[i].try = fs[i].try
                                     /\ i # Len(fs) => gs[i].rest = fs[i].rest
<1> DEFINE n == Len(fs)
           gs == [fs EXCEPT ![Len(fs)].rest = r]
<1>1. n \in Nat /\ n # 0 /\ DOMAIN fs = 1..n /\ \A i \in 1..n : fs[i] \in Frames
  OBVIOUS
<1>2. [fs[n] EXCEPT !.rest = r] \in Frames
  BY <1>1 DEF Frames
<1>3. gs = [fs EXCEPT ![n] = [fs[n] EXCEPT !.rest = r]]
  OBVIOUS
<1>4. gs \in Seq(Frames) /\ Len(gs) = n /\ \A i \in 1..n : gs[i] = IF i = n THEN [fs[n] EXCEPT !.rest = r] ELSE fs[i]
  BY <1>1, <1>2, <1>3, ExceptSeq
<1>5. [fs[n] EXCEPT !.rest = r].rest = r /\ [fs[n] EXCEPT !.rest = r].does = fs[n].does /\ [fs[n] EXCEPT !.rest = r].try = fs[n].try
  BY <1>1 DEF Frames
<1> QED
  BY <1>1, <1>4, <1>5

LEMMA TypeAtLast ==
  ASSUME scopes \in Seq(Scope), NEW x \in Names
  PROVE  TypeAt(Len(scopes), x) = TypeOf(x)
BY SubSeqFull DEF TypeAt, TypeOf

\* A step leaves the lists below m, their scopes, and what the m-th list is for.
Kept(m) ==
  \A i \in 1..m : /\ frames'[i].does = frames[i].does /\ frames'[i].try = frames[i].try
                  /\ scopes'[i] = scopes[i]
                  /\ i # m => frames'[i].rest = frames[i].rest

\* It adds a list that the checker has accepted in the state st.
Added(run, m, st) ==
  /\ frames'[m + 1].does # "body"
  /\ CheckBody[frames'[m + 1].rest][st].ok /\ st.in = run[m].in
  /\ st.scopes = Append(run[m].scopes, scopes'[m + 1])
  /\ frames'[m + 1].does = "while" =>
       frames'[m].rest # <<>> /\ Head(frames'[m].rest).kind = "while"
  /\ frames'[m + 1].does # "while" => st.loops = run[m].loops
  /\ frames'[m + 1].does = "try" =>
       /\ frames'[m + 1].try \in Statements /\ frames'[m + 1].try.kind = "try"
       /\ CheckBody[frames'[m + 1].try.bodies[2]][Pushed(run[m], Only(frames'[m + 1].try.name, "exception"))].ok

\* The lists below a step, and the one it may add, follow the checker.
LEMMA FramesKeep ==
  ASSUME TypesOK, TypesOK', UNCHANGED <<program, globals>>, NEW run, Follows(run),
         NEW m \in 1..Len(frames), NEW st \in CheckerStates,
         Len(frames') = m \/ Len(frames') = m + 1, Kept(m),
         CheckBody[frames'[m].rest][run[m]].ok,
         Len(frames') = m + 1 => Added(run, m, st)
  PROVE  RunFollows'
<1>1. m \in Nat /\ m # 0 /\ Len(run) = Len(frames) /\ Len(frames) \in Nat /\ run \in Seq(CheckerStates)
  BY DEF TypesOK, Follows
<1>2. PICK low \in Seq(CheckerStates) : Len(low) = m /\ \A i \in 1..m : low[i] = run[i]
  <2>1. SubSeq(run, 1, m) \in Seq(CheckerStates) /\ Len(SubSeq(run, 1, m)) = m /\ \A i \in 1..m : SubSeq(run, 1, m)[i] = run[i]
    BY <1>1
  <2> QED BY <2>1
<1>3. PICK new \in Seq(CheckerStates) :
        /\ Len(new) = Len(frames')
        /\ \A i \in 1..m : new[i] = run[i]
        /\ Len(frames') = m + 1 => new[m + 1] = st
  <2>1. CASE Len(frames') = m
    BY <1>1, <1>2, <2>1
  <2>2. CASE Len(frames') = m + 1
    <3>1. /\ Append(low, st) \in Seq(CheckerStates) /\ Len(Append(low, st)) = m + 1
          /\ \A i \in 1..m : Append(low, st)[i] = run[i]
          /\ Append(low, st)[m + 1] = st
      BY <1>1, <1>2
    <3> QED BY <2>2, <3>1
  <2> QED BY <2>1, <2>2
<1>4. Len(scopes) = Len(frames) /\ Len(scopes') = Len(frames') /\ scopes \in Seq(Scope) /\ scopes' \in Seq(Scope)
  BY DEF TypesOK
<1>5. ASSUME NEW i \in 1..m
      PROVE  SubSeq(scopes', 1, i) = SubSeq(scopes, 1, i)
  <2>1. i \in Nat /\ i <= Len(scopes) /\ i <= Len(scopes') /\ \A j \in 1..i : j \in 1..m /\ scopes'[j] = scopes[j]
    BY <1>1, <1>4 DEF Kept
  <2>2. /\ SubSeq(scopes', 1, i) \in Seq(Scope) /\ Len(SubSeq(scopes', 1, i)) = i
        /\ \A j \in 1..i : SubSeq(scopes', 1, i)[j] = scopes'[j]
    BY <1>4, <2>1
  <2>3. /\ SubSeq(scopes, 1, i) \in Seq(Scope) /\ Len(SubSeq(scopes, 1, i)) = i
        /\ \A j \in 1..i : SubSeq(scopes, 1, i)[j] = scopes[j]
    BY <1>4, <2>1
  <2> QED BY <2>1, <2>2, <2>3, SeqEqual
<1>6. ASSUME NEW i \in 1..m, NEW x \in Names
      PROVE  TypeAt(i, x)' = TypeAt(i, x)
  BY <1>5 DEF TypeAt
<1>7. ASSUME NEW i \in 1..m
      PROVE  FrameChecked(new, i)'
  <2>1. FrameChecked(run, i)
    BY <1>1, <1>7 DEF Follows
  <2>9. /\ frames'[i].does = frames[i].does /\ frames'[i].try = frames[i].try
        /\ i # m => frames'[i].rest = frames[i].rest
    BY DEF Kept
  <2>2. new[i] = run[i] /\ (i # 1 => new[i - 1] = run[i - 1])
    BY <1>1, <1>3
  <2>3. /\ CheckBody[frames'[i].rest][new[i]].ok /\ new[i].in = program'.of /\ new[i].scopes # <<>>
    BY <2>1, <2>2, <2>9 DEF FrameChecked
  <2>4. \A x \in Names : TypeIn(new[i].scopes, x) # Unbound => TypeAt(i, x)' = TypeIn(new[i].scopes, x)
    BY <1>6, <2>1, <2>2 DEF FrameChecked
  <2>5. new[i].loops > 0 => \E j \in 1..i : frames'[j].does = "while"
    <3>1. \A j \in 1..i : j \in 1..m
      BY <1>1
    <3>2. \A j \in 1..i : frames'[j].does = frames[j].does
      BY <3>1 DEF Kept
    <3> QED BY <2>1, <2>2, <3>2 DEF FrameChecked
  <2>6. frames'[i].does = "body" <=> i = 1
    BY <2>1, <2>9 DEF FrameChecked
  <2>7. frames'[i].does = "while" => frames'[i - 1].rest # <<>> /\ Head(frames'[i - 1].rest).kind = "while"
    <3> HAVE frames'[i].does = "while"
    <3>1. i # 1 /\ frames[i].does = "while"
      BY <2>6, <2>9
    <3>2. i - 1 \in 1..m /\ i - 1 # m
      BY <1>1, <3>1
    <3>3. frames'[i - 1].rest = frames[i - 1].rest
      BY <3>2 DEF Kept
    <3> QED BY <2>1, <3>1, <3>3 DEF FrameChecked
  <2>8. frames'[i].does = "try" =>
          /\ frames'[i].try \in Statements /\ frames'[i].try.kind = "try"
          /\ CheckBody[frames'[i].try.bodies[2]][Pushed(new[i - 1], Only(frames'[i].try.name, "exception"))].ok
    <3> HAVE frames'[i].does = "try"
    <3>1. i # 1 /\ frames[i].does = "try" /\ frames'[i].try = frames[i].try
      BY <2>6, <2>9, SMTT(30)
    <3> QED BY <2>1, <2>2, <3>1 DEF FrameChecked
  <2> QED BY <2>3, <2>4, <2>5, <2>6, <2>7, <2>8 DEF FrameChecked
<1>8. ASSUME Len(frames') = m + 1
      PROVE  FrameChecked(new, m + 1)'
  <2>10. Added(run, m, st)
    BY <1>8
  <2>1. FrameChecked(run, m)
    BY <1>1 DEF Follows
  <2>2. new[m + 1] = st /\ new[m] = run[m] /\ m + 1 \in 1..Len(scopes') /\ m + 1 # 1 /\ (m + 1) - 1 = m
    BY <1>1, <1>3, <1>4, <1>8
  <2>3. PICK scope \in Scope : scope = scopes'[m + 1]
    <3>1. scopes'[m + 1] \in Scope
      BY <1>4, <2>2
    <3> QED BY <3>1
  <2>9. st.scopes \in Seq(Scope) /\ run[m].scopes \in Seq(Scope) /\ st.scopes = Append(run[m].scopes, scope)
    <3>1. run[m] \in CheckerStates
      BY <1>1
    <3>2. st.scopes \in Seq(Scope) /\ run[m].scopes \in Seq(Scope)
      BY <3>1 DEF CheckerStates
    <3>3. st.scopes = Append(run[m].scopes, scopes'[m + 1])
      BY <2>10 DEF Added
    <3> QED BY <2>3, <3>2, <3>3
  <2>4. st.scopes # <<>>
    <3>1. Len(run[m].scopes) \in Nat /\ Len(st.scopes) = Len(run[m].scopes) + 1
      BY <2>9, AppendProperties
    <3> QED BY <3>1
  <2>5. scopes' = Append(SubSeq(scopes, 1, m), scope) /\ SubSeq(scopes, 1, m) \in Seq(Scope)
    <3> DEFINE below == SubSeq(scopes, 1, m)
    <3>1. below \in Seq(Scope) /\ Len(below) = m /\ \A j \in 1..m : below[j] = scopes[j]
      BY <1>1, <1>4
    <3>5. \A j \in 1..m : scopes'[j] = scopes[j]
      BY DEF Kept
    <3> HIDE DEF below
    <3>2. /\ Append(below, scope) \in Seq(Scope) /\ Len(Append(below, scope)) = m + 1
          /\ Append(below, scope)[m + 1] = scope /\ \A j \in 1..m : Append(below, scope)[j] = below[j]
      BY <1>1, <3>1
    <3>4. \A j \in 1..(m + 1) : Append(below, scope)[j] = scopes'[j]
      <4>1. \A j \in 1..(m + 1) : j \in 1..m \/ j = m + 1
        BY <1>1
      <4> QED BY <2>3, <3>1, <3>2, <3>5, <4>1, ZenonT(60)
    <3>3. scopes' = Append(below, scope)
      BY <1>4, <1>8, <3>2, <3>4, SeqEqual
    <3> QED BY <3>1, <3>3 DEF below
  <2>6. ASSUME NEW x \in Names, TypeIn(st.scopes, x) # Unbound
        PROVE  TypeAt(m + 1, x)' = TypeIn(st.scopes, x)
    <3>1. SubSeq(scopes', 1, m + 1) = scopes'
      BY <1>4, <1>8, SubSeqFull
    <3>2. TypeAt(m + 1, x)' = IF TypeIn(scopes', x) # Unbound THEN TypeIn(scopes', x) ELSE globals[x]
      BY <3>1 DEF TypeAt
    <3>3. TypeIn(scopes', x) = IF scope[x] # Unbound THEN scope[x] ELSE TypeIn(SubSeq(scopes, 1, m), x)
      BY <2>5, TypeInPushed
    <3>4. TypeIn(st.scopes, x) = IF scope[x] # Unbound THEN scope[x] ELSE TypeIn(run[m].scopes, x)
      BY <2>9, TypeInPushed
    <3>5. CASE scope[x] # Unbound
      BY <3>2, <3>3, <3>4, <3>5
    <3>6. CASE scope[x] = Unbound
      <4>1. TypeAt(m, x) = TypeIn(run[m].scopes, x)
        BY <2>1, <2>6, <3>4, <3>6 DEF FrameChecked
      <4>2. TypeAt(m, x) = TypeAt(m + 1, x)'
        BY <3>2, <3>3, <3>6 DEF TypeAt
      <4> QED BY <3>4, <3>6, <4>1, <4>2
    <3> QED BY <3>5, <3>6
  <2>7. st.loops > 0 => \E j \in 1..(m + 1) : frames'[j].does = "while"
    <3>1. CASE frames'[m + 1].does = "while"
      BY <1>1, <3>1
    <3>2. CASE frames'[m + 1].does # "while"
      <4>1. st.loops > 0 => \E j \in 1..m : frames[j].does = "while"
        BY <2>1, <2>10, <3>2 DEF FrameChecked, Added
      <4>2. \A j \in 1..m : j \in 1..(m + 1) /\ frames'[j].does = frames[j].does
        BY <1>1, SMTT(30) DEF Kept
      <4> QED BY <4>1, <4>2, SMTT(30)
    <3> QED BY <3>1, <3>2
  <2>8. st.in = program'.of
    BY <2>1, <2>10 DEF FrameChecked, Added
  <2> QED BY <2>10, <2>2, <2>4, <2>6, <2>7, <2>8 DEF FrameChecked, Added
<1>9. \A i \in 1..Len(frames') : i \in 1..m \/ (i = m + 1 /\ Len(frames') = m + 1)
  BY <1>1
<1>10. Follows(new)'
  BY <1>3, <1>7, <1>8, <1>9 DEF Follows
<1> QED
  BY <1>10 DEF RunFollows

-----------------------------------------------------------------------------
(* What returns.                                                             *)

\* A list that returns still does when a list around the step is what it was.
LEMMA CoveredBelow ==
  ASSUME TypesOK, TypesOK', NEW i \in Nat \ {0}, Covered(i),
         NEW m \in 1..Len(frames), Len(frames') \in {m, m + 1},
         \A k \in 1..m : /\ frames'[k].does = frames[k].does /\ frames'[k].try = frames[k].try
                         /\ k # m => frames'[k].rest = frames[k].rest,
         i < m \/ (i = m /\ BodyDefinitelyReturns[frames'[m].rest])
  PROVE  Covered(i)'
<1>1. m \in Nat /\ Len(frames) \in Nat /\ m <= Len(frames) /\ i <= m /\ i \in 1..m /\ i <= Len(frames') /\ i <= Len(frames)
  BY DEF TypesOK
<1>2. \A k \in 2..Len(frames') : k <= i => k \in 1..m /\ k \in 2..Len(frames)
  BY <1>1
<1>3. BodyDefinitelyReturns[frames'[i].rest]
  <2>1. CASE i = m
    BY <2>1
  <2>2. CASE i # m
    BY <1>1, <2>2 DEF Covered
  <2> QED BY <2>1, <2>2
<1>4. \A k \in 2..Len(frames') : k <= i =>
        /\ frames'[k].does # "while"
        /\ frames'[k].does = "try" => BodyDefinitelyReturns[frames'[k].try.bodies[2]]
  BY <1>2 DEF Covered
<1> QED
  BY <1>1, <1>3, <1>4 DEF Covered

\* A list that returns in a nested list does so there.
LEMMA CoveredAbove ==
  ASSUME TypesOK, TypesOK', NEW i \in Nat \ {0}, Covered(i),
         NEW m \in 1..Len(frames), i >= m, Len(frames') = m + 1,
         \A k \in 1..m : frames'[k].does = frames[k].does /\ frames'[k].try = frames[k].try,
         frames'[m + 1].does # "while",
         frames'[m + 1].does = "try" => BodyDefinitelyReturns[frames'[m + 1].try.bodies[2]],
         BodyDefinitelyReturns[frames'[m + 1].rest]
  PROVE  Covered(m + 1)'
<1>1. m \in Nat /\ Len(frames) \in Nat /\ m <= Len(frames)
  BY DEF TypesOK
<1>2. \A k \in 2..Len(frames') : k = m + 1 \/ (k \in 1..m /\ k \in 2..Len(frames) /\ k <= i)
  BY <1>1
<1>3. \A k \in 2..Len(frames') :
        /\ frames'[k].does # "while"
        /\ frames'[k].does = "try" => BodyDefinitelyReturns[frames'[k].try.bodies[2]]
  BY <1>2 DEF Covered
<1>4. m + 1 <= Len(frames')
  BY <1>1
<1> QED
  BY <1>3, <1>4 DEF Covered

-----------------------------------------------------------------------------
(* The statement that is executed next.                                      *)
LEMMA CurrentFacts ==
  ASSUME TypesOK, Running
  PROVE  /\ Len(frames) \in Nat /\ Len(frames) # 0 /\ Len(frames) \in 1..Len(frames) /\ frames # <<>>
         /\ Len(scopes) = Len(frames) /\ scopes \in Seq(Scope) /\ frames \in Seq(Frames)
         /\ Last(frames) = frames[Len(frames)] /\ frames[Len(frames)] \in Frames
         /\ frames[Len(frames)].rest \in Bodies /\ frames[Len(frames)].rest # <<>>
         /\ Current = Head(frames[Len(frames)].rest) /\ Current \in Statements
         /\ Tail(frames[Len(frames)].rest) \in Bodies
         /\ HasElse(Current) => Current.bodies[2] \o Tail(frames[Len(frames)].rest) \in Bodies
         /\ flow = "normal"
<1>1. frames \in Seq(Frames) /\ frames # <<>> /\ Len(scopes) = Len(frames) /\ scopes \in Seq(Scope)
  BY DEF TypesOK, Running
<1>2. Len(frames) \in Nat /\ Len(frames) # 0 /\ Len(frames) \in 1..Len(frames) /\ frames[Len(frames)] \in Frames
  BY <1>1
<1>3. Last(frames) = frames[Len(frames)]
  BY DEF Last
<1>4. frames[Len(frames)].rest \in Bodies /\ frames[Len(frames)].rest # <<>> /\ flow = "normal"
  BY <1>2, <1>3 DEF Frames, Running
<1>5. Current = Head(frames[Len(frames)].rest)
  BY <1>3 DEF Current
<1> QED
  BY <1>1, <1>2, <1>3, <1>4, <1>5, BodyFacts

LEMMA CurrentChecked ==
  ASSUME TypesOK, Running, NEW run, Follows(run)
  PROVE  LET n == Len(frames)
             st == run[n]
             rest == frames[n].rest
             s == Current
         IN /\ FrameChecked(run, n) /\ st \in CheckerStates /\ st.scopes # <<>> /\ CheckBody[rest][st].ok
            /\ StatementOK(st, s) /\ PartsAccepted(st, s)
            /\ s.kind # "assign" => CheckBody[Tail(rest)][st].ok
            /\ s.kind = "assign" => CheckBody[Tail(rest)][[st EXCEPT !.scopes = Assigned(@, s.name, s.type)]].ok
            /\ HasElse(s) => CheckBody[s.bodies[2] \o Tail(rest)][st].ok
            /\ st.in = program.of
            /\ \A x \in Names : TypeIn(st.scopes, x) # Unbound => TypeOf(x) = TypeIn(st.scopes, x)
<1> DEFINE n == Len(frames)
           st == run[n]
           rest == frames[n].rest
<1>1. n \in 1..Len(frames) /\ rest \in Bodies /\ rest # <<>> /\ Current = Head(rest) /\ Len(scopes) = n /\ scopes \in Seq(Scope)
  BY CurrentFacts
<1>2. FrameChecked(run, n) /\ st \in CheckerStates
  BY <1>1 DEF Follows
<1>3. st.scopes # <<>> /\ CheckBody[rest][st].ok /\ st.in = program.of
  BY <1>2 DEF FrameChecked
<1>4. \A x \in Names : TypeIn(st.scopes, x) # Unbound => TypeOf(x) = TypeIn(st.scopes, x)
  BY <1>1, <1>2, TypeAtLast DEF FrameChecked
<1> HIDE DEF n, st, rest
<1>5. /\ StatementOK(st, Current) /\ PartsAccepted(st, Current)
      /\ Current.kind # "assign" => CheckBody[Tail(rest)][st].ok
      /\ Current.kind = "assign" => CheckBody[Tail(rest)][[st EXCEPT !.scopes = Assigned(@, Current.name, Current.type)]].ok
      /\ HasElse(Current) => CheckBody[Current.bodies[2] \o Tail(rest)][st].ok
  BY <1>1, <1>2, <1>3, AcceptedList
<1> QED
  BY <1>2, <1>3, <1>4, <1>5 DEF n, st, rest

\* The innermost list goes on behind a statement that does not return, or with
\* an else branch.
GoesOnWith(r) ==
  \/ /\ r = Tail(frames[Len(frames)].rest)
     /\ Current.kind # "assign" /\ ~DefinitelyReturns(BodyDefinitelyReturns, Current)
  \/ HasElse(Current) /\ r = Current.bodies[2] \o Tail(frames[Len(frames)].rest)

LEMMA AdvanceKeeps ==
  ASSUME StatementsInv, Running, NEW r, GoesOnWith(r),
         frames' = [frames EXCEPT ![Len(frames)].rest = r],
         UNCHANGED <<program, globals, scopes, flow>>
  PROVE  StatementsInv'
<1> DEFINE n == Len(frames)
           rest == frames[n].rest
<1>1. TypesOK /\ RunFollows /\ FlowOK /\ IsCovered
  BY DEF StatementsInv
<1>2. /\ n \in 1..Len(frames) /\ rest \in Bodies /\ rest # <<>> /\ Current = Head(rest) /\ Current \in Statements
      /\ frames \in Seq(Frames) /\ frames # <<>> /\ r \in Bodies /\ n \in Nat /\ Tail(rest) \in Bodies
  BY <1>1, CurrentFacts DEF GoesOnWith
<1>3. /\ frames' \in Seq(Frames) /\ Len(frames') = n /\ frames'[n].rest = r
      /\ \A i \in 1..n : /\ frames'[i].does = frames[i].does /\ frames'[i].try = frames[i].try
                         /\ i # n => frames'[i].rest = frames[i].rest
  <2> DEFINE gs == [frames EXCEPT ![Len(frames)].rest = r]
  <2>1. /\ gs \in Seq(Frames) /\ Len(gs) = Len(frames) /\ gs[Len(frames)].rest = r
        /\ \A i \in 1..Len(frames) : /\ gs[i].does = frames[i].does /\ gs[i].try = frames[i].try
                                     /\ i # Len(frames) => gs[i].rest = frames[i].rest
    BY <1>2, WithRestFacts
  <2>2. frames' = gs
    OBVIOUS
  <2> HIDE DEF gs
  <2> QED BY <2>1, <2>2
<1>4. TypesOK'
  BY <1>1, <1>3 DEF TypesOK
<1>5. RunFollows'
  <2>1. PICK run : Follows(run)
    BY <1>1, SMTT(30) DEF RunFollows
  <2>2. CheckBody[r][run[n]].ok /\ run[n] \in CheckerStates
    BY <1>1, <2>1, CurrentChecked DEF GoesOnWith
  <2>3. Kept(n)
    BY <1>3 DEF Kept
  <2> HIDE DEF n
  <2>4. Len(frames') = n /\ CheckBody[frames'[n].rest][run[n]].ok
    BY <1>3, <2>2 DEF n
  <2>5. Len(frames') # n + 1
    <3>1. n \in Nat
      BY <1>2
    <3> QED BY <2>4, <3>1
  <2> QED BY <1>1, <1>2, <1>4, <2>1, <2>2, <2>3, <2>4, <2>5, FramesKeep
<1>6. FlowOK'
  <2>1. flow' = "normal"
    BY <1>1, CurrentFacts
  <2> QED BY <2>1 DEF FlowOK
<1>7. IsCovered'
  <2> SUFFICES ASSUME program.of = "value" PROVE \E i \in Nat \ {0} : Covered(i)'
    BY DEF IsCovered
  <2>1. PICK i \in Nat \ {0} : Covered(i)
    BY <1>1, <1>2 DEF IsCovered
  <2>2. i <= n
    BY <1>1, <2>1, CurrentFacts DEF Covered
  <2>3. i = n => BodyDefinitelyReturns[rest]
    BY <2>1, <2>2 DEF Covered
  <2>4. BodyDefinitelyReturns[rest] => BodyDefinitelyReturns[r]
    <3> HAVE BodyDefinitelyReturns[rest]
    <3>1. BodyDefinitelyReturns[Tail(rest)] \/ DefinitelyReturns(BodyDefinitelyReturns, Current)
      BY <1>2, ReturningList
    <3>2. CASE r = Tail(rest) /\ ~DefinitelyReturns(BodyDefinitelyReturns, Current)
      BY <3>1, <3>2
    <3>3. CASE HasElse(Current) /\ r = Current.bodies[2] \o Tail(rest)
      <4>1. Current.bodies[2] \in Bodies /\ 2 \in DOMAIN Current.bodies
        BY <1>2, <3>3, StatementFacts
      <4>2. DefinitelyReturns(BodyDefinitelyReturns, Current) => BodyDefinitelyReturns[Current.bodies[2]]
        BY <3>3, <4>1 DEF DefinitelyReturns, HasElse
      <4> QED BY <1>2, <3>1, <3>3, <4>1, <4>2, ReturningElse, ZenonT(60)
    <3> QED BY <3>2, <3>3 DEF GoesOnWith
  <2>5. i < n \/ (i = n /\ BodyDefinitelyReturns[frames'[n].rest])
    <3>1. n \in Nat /\ i \in Nat
      BY <1>2, <2>1
    <3>2. i < n \/ i = n
      BY <2>2, <3>1
    <3>3. i = n => BodyDefinitelyReturns[frames'[n].rest]
      BY <1>3, <2>3, <2>4
    <3> QED BY <3>2, <3>3 DEF GoesOnWith
  <2> HIDE DEF n, rest
  <2>6. Len(frames') \in {n, n + 1}
    BY <1>3
  <2> QED BY <1>1, <1>2, <1>3, <1>4, <2>1, <2>5, <2>6, CoveredBelow
<1> QED
  BY <1>4, <1>5, <1>6, <1>7 DEF StatementsInv

-----------------------------------------------------------------------------
(* Entering a nested list.                                                   *)
LEMMA EnteringKeeps ==
  ASSUME StatementsInv, Running, NEW does \in {"block", "while", "try"}, NEW b \in Bodies,
         NEW try \in Statements \cup {NoTry},
         Current.kind # "assign", does = "while" <=> Current.kind = "while",
         does = "try" => Current.kind = "try" /\ try = Current,
         Entering(IF does = "while" THEN frames ELSE Advanced, does, b, try, NoNames),
         \A st \in CheckerStates : PartsAccepted(st, Current) =>
           CheckBody[b][Pushed(IF does = "while" THEN [st EXCEPT !.loops = @ + 1] ELSE st, NoNames)].ok,
         DefinitelyReturns(BodyDefinitelyReturns, Current) => BodyDefinitelyReturns[b]
  PROVE  StatementsInv'
<1> DEFINE n == Len(frames)
           rest == frames[n].rest
           left == IF does = "while" THEN rest ELSE Tail(rest)
           fs == IF does = "while" THEN frames ELSE Advanced
           frame == Frame(does, b, try)
<1>1. TypesOK /\ RunFollows /\ FlowOK /\ IsCovered
  BY DEF StatementsInv
<1>2. /\ n \in Nat /\ n \in 1..Len(frames) /\ rest \in Bodies /\ rest # <<>> /\ Current = Head(rest) /\ Current \in Statements
      /\ frames \in Seq(Frames) /\ frames # <<>> /\ Tail(rest) \in Bodies /\ left \in Bodies
      /\ scopes \in Seq(Scope) /\ Len(scopes) = n /\ flow = "normal"
  BY <1>1, CurrentFacts
<1>3. /\ fs \in Seq(Frames) /\ Len(fs) = n /\ fs[n].rest = left
      /\ \A i \in 1..n : /\ fs[i].does = frames[i].does /\ fs[i].try = frames[i].try
                         /\ i # n => fs[i].rest = frames[i].rest
  <2>1. CASE does = "while"
    BY <1>2, <2>1
  <2>2. CASE does # "while"
    <3> DEFINE gs == [frames EXCEPT ![Len(frames)].rest = Tail(rest)]
    <3>1. /\ gs \in Seq(Frames) /\ Len(gs) = Len(frames) /\ gs[Len(frames)].rest = Tail(rest)
          /\ \A i \in 1..Len(frames) : /\ gs[i].does = frames[i].does /\ gs[i].try = frames[i].try
                                       /\ i # Len(frames) => gs[i].rest = frames[i].rest
      BY <1>2, WithRestFacts
    <3>2. Advanced = gs
      BY DEF Advanced
    <3>3. fs = gs /\ left = Tail(rest)
      BY <2>2, <3>2
    <3> HIDE DEF gs, fs, left
    <3> QED BY <3>1, <3>3
  <2> QED BY <2>1, <2>2
<1>4. frames' = Append(fs, frame) /\ scopes' = Append(scopes, NoNames) /\ UNCHANGED <<program, globals, flow>>
  BY DEF Entering
<1>5. frame \in Frames /\ frame.does = does /\ frame.rest = b /\ frame.try = try
  BY DEF Frame, Frames
<1>6. NoNames \in Scope
  BY ScopesOfNames DEF ScopeFacts
<1> HIDE DEF fs, left, frame
<1>7. /\ frames' \in Seq(Frames) /\ Len(frames') = n + 1 /\ frames'[n + 1] = frame
      /\ \A i \in 1..n : frames'[i] = fs[i]
  <2>1. /\ Append(fs, frame) \in Seq(Frames) /\ Len(Append(fs, frame)) = Len(fs) + 1
        /\ Append(fs, frame)[Len(fs) + 1] = frame
        /\ \A i \in 1..Len(fs) : Append(fs, frame)[i] = fs[i]
    BY <1>3, <1>5, AppendProperties
  <2> QED BY <1>3, <1>4, <2>1
<1>8. /\ scopes' \in Seq(Scope) /\ Len(scopes') = n + 1 /\ scopes'[n + 1] = NoNames
      /\ \A i \in 1..n : scopes'[i] = scopes[i]
  <2>1. /\ Append(scopes, NoNames) \in Seq(Scope) /\ Len(Append(scopes, NoNames)) = Len(scopes) + 1
        /\ Append(scopes, NoNames)[Len(scopes) + 1] = NoNames
        /\ \A i \in 1..Len(scopes) : Append(scopes, NoNames)[i] = scopes[i]
    BY <1>2, <1>6, AppendProperties
  <2> QED BY <1>2, <1>4, <2>1
<1>9. \A i \in 1..n : /\ frames'[i].does = frames[i].does /\ frames'[i].try = frames[i].try
                      /\ i # n => frames'[i].rest = frames[i].rest
  BY <1>3, <1>7
<1>10. frames'[n].rest = left /\ frames'[n + 1].does = does /\ frames'[n + 1].rest = b /\ frames'[n + 1].try = try
  BY <1>2, <1>3, <1>5, <1>7
<1>11. TypesOK'
  BY <1>1, <1>4, <1>7, <1>8 DEF TypesOK
<1>12. RunFollows'
  <2>1. PICK run : Follows(run)
    BY <1>1 DEF RunFollows
  <2> DEFINE st == run[n]
             within == IF does = "while" THEN [st EXCEPT !.loops = @ + 1] ELSE st
             new == Pushed(within, NoNames)
  <2>2. /\ st \in CheckerStates /\ PartsAccepted(st, Current) /\ CheckBody[rest][st].ok
        /\ CheckBody[Tail(rest)][st].ok
    BY <1>1, <2>1, CurrentChecked
  <2>3. within \in CheckerStates /\ within.in = st.in /\ within.scopes = st.scopes /\ (does # "while" => within.loops = st.loops)
    BY <2>2 DEF CheckerStates
  <2>4. /\ new \in CheckerStates /\ new.in = st.in /\ new.scopes = Append(st.scopes, NoNames)
        /\ does # "while" => new.loops = st.loops
    <3> HIDE DEF within, st
    <3> QED BY <1>6, <2>3, PushedFacts
  <2>5. CheckBody[b][new].ok
    BY <2>2
  <2>6. CheckBody[left][st].ok
    BY <2>2 DEF left
  <2>7. does = "while" => left # <<>> /\ Head(left).kind = "while"
    BY <1>2, SMTT(30) DEF left
  <2>8. does = "try" => /\ try \in Statements /\ try.kind = "try"
                        /\ CheckBody[try.bodies[2]][Pushed(st, Only(try.name, "exception"))].ok
    BY <1>2, <2>2 DEF PartsAccepted
  <2> HIDE DEF n, within, new
  <2>9. Len(frames') = n + 1 /\ n \in 1..Len(frames) /\ n = Len(frames)
    BY <1>2, <1>7 DEF n
  <2>10. Kept(n)
    BY <1>8, <1>9 DEF Kept
  <2>11. CheckBody[frames'[n].rest][run[n]].ok
    BY <1>10, <2>6
  <2>12. Added(run, n, new)
    BY <1>8, <1>10, <2>4, <2>5, <2>7, <2>8 DEF Added
  <2> HIDE DEF st
  <2> QED BY <1>1, <1>4, <1>11, <2>1, <2>4, <2>9, <2>10, <2>11, <2>12, FramesKeep
<1>13. FlowOK'
  <2>1. flow' = "normal"
    BY <1>2, <1>4
  <2> QED BY <2>1 DEF FlowOK
<1>14. IsCovered'
  <2> SUFFICES ASSUME program.of = "value" PROVE \E i \in Nat \ {0} : Covered(i)'
    BY <1>4 DEF IsCovered
  <2>1. PICK i \in Nat \ {0} : Covered(i)
    BY <1>1, <1>2 DEF IsCovered
  <2>2. i <= n
    BY <1>2, <2>1 DEF Covered
  <2>3. i = n => BodyDefinitelyReturns[rest]
    BY <2>1, <2>2 DEF Covered
  <2>4. i < n \/ i = n
    BY <1>2, <2>2
  <2>5. BodyDefinitelyReturns[rest] => BodyDefinitelyReturns[left] \/ DefinitelyReturns(BodyDefinitelyReturns, Current)
    BY <1>2, ReturningList DEF left
  <2> HIDE DEF rest
  <2>6. CASE i < n \/ (i = n /\ BodyDefinitelyReturns[frames'[n].rest])
    <3> HIDE DEF n
    <3>1. Len(frames') \in {n, n + 1} /\ n \in 1..Len(frames)
      BY <1>2, <1>7 DEF n
    <3> QED BY <1>1, <1>9, <1>11, <2>1, <2>6, <3>1, CoveredBelow
  <2>7. CASE i = n /\ DefinitelyReturns(BodyDefinitelyReturns, Current)
    <3>1. BodyDefinitelyReturns[b] /\ Current.kind # "while"
      BY <2>7 DEF DefinitelyReturns
    <3>2. does = "try" => BodyDefinitelyReturns[try.bodies[2]]
      <4> HAVE does = "try"
      <4>1. Current.kind = "try" /\ try = Current /\ 2 \in DOMAIN Current.bodies
        BY <1>2, StatementFacts
      <4> QED BY <2>7, <4>1 DEF DefinitelyReturns
    <3>3. /\ frames'[n + 1].does # "while" /\ BodyDefinitelyReturns[frames'[n + 1].rest]
          /\ frames'[n + 1].does = "try" => BodyDefinitelyReturns[frames'[n + 1].try.bodies[2]]
      BY <1>10, <3>1, <3>2
    <3>4. i >= n
      BY <1>2, <2>7
    <3>5. PICK m \in Nat : m = n
      BY <1>2
    <3> HIDE DEF n
    <3>6. Len(frames') = m + 1 /\ m \in 1..Len(frames) /\ m + 1 \in Nat \ {0} /\ i >= m
      BY <1>2, <1>7, <3>4, <3>5 DEF n
    <3>7. \A k \in 1..m : frames'[k].does = frames[k].does /\ frames'[k].try = frames[k].try
      BY <1>9, <3>5
    <3>8. /\ frames'[m + 1].does # "while" /\ BodyDefinitelyReturns[frames'[m + 1].rest]
          /\ frames'[m + 1].does = "try" => BodyDefinitelyReturns[frames'[m + 1].try.bodies[2]]
      BY <3>3, <3>5
    <3>9. Covered(m + 1)'
      BY <1>1, <1>11, <2>1, <3>6, <3>7, <3>8, CoveredAbove
    <3> QED BY <3>6, <3>9
  <2> QED BY <1>10, <2>3, <2>4, <2>5, <2>6, <2>7
<1> QED
  BY <1>11, <1>12, <1>13, <1>14 DEF StatementsInv

-----------------------------------------------------------------------------
(* Leaving a nested list.                                                    *)
LEMMA NestedFacts ==
  ASSUME TypesOK, Nested
  PROVE  LET n == Len(frames)
         IN /\ n \in Nat /\ n > 1 /\ n - 1 \in Nat \ {0} /\ n - 1 \in 1..n /\ n \in 1..n /\ (n - 1) + 1 = n
            /\ frames # <<>> /\ Last(frames) = frames[n] /\ frames[n] \in Frames
            /\ frames \in Seq(Frames) /\ scopes \in Seq(Scope) /\ Len(scopes) = n
            /\ Front(frames) \in Seq(Frames) /\ Len(Front(frames)) = n - 1 /\ Front(frames) # <<>>
            /\ \A i \in 1..(n - 1) : Front(frames)[i] = frames[i] /\ frames[i] \in Frames
            /\ Front(scopes) \in Seq(Scope) /\ Len(Front(scopes)) = n - 1
            /\ \A i \in 1..(n - 1) : Front(scopes)[i] = scopes[i]
<1>1. frames \in Seq(Frames) /\ Len(scopes) = Len(frames) /\ scopes \in Seq(Scope) /\ Len(frames) \in Nat /\ Len(frames) > 1
  BY DEF TypesOK, Nested
<1>2. frames # <<>> /\ scopes # <<>> /\ frames[Len(frames)] \in Frames /\ \A i \in 1..(Len(frames) - 1) : frames[i] \in Frames
  BY <1>1
<1>3. Last(frames) = frames[Len(frames)]
  BY DEF Last
<1>4. /\ Front(frames) \in Seq(Frames) /\ Len(Front(frames)) = Len(frames) - 1
      /\ \A i \in 1..(Len(frames) - 1) : Front(frames)[i] = frames[i]
  BY <1>1, <1>2, FrontFacts
<1>5. /\ Front(scopes) \in Seq(Scope) /\ Len(Front(scopes)) = Len(frames) - 1
      /\ \A i \in 1..(Len(frames) - 1) : Front(scopes)[i] = scopes[i]
  BY <1>1, <1>2, FrontFacts
<1>6. /\ Len(frames) - 1 \in Nat \ {0} /\ Len(frames) - 1 \in 1..Len(frames) /\ Len(frames) \in 1..Len(frames)
      /\ (Len(frames) - 1) + 1 = Len(frames)
  BY <1>1
<1>7. Front(frames) # <<>>
  BY <1>4, <1>6
<1> QED
  BY <1>1, <1>2, <1>3, <1>4, <1>5, <1>6, <1>7

\* Back in the list around the innermost one, which goes on as it was, or
\* behind its loop.
LEMMA LeavingKeeps ==
  ASSUME TypesOK, RunFollows, TypesOK', Nested, UNCHANGED <<program, globals>>,
         NEW m \in Nat, m + 1 = Len(frames), Len(frames') = m, scopes' = Front(scopes),
         \A i \in 1..m : /\ frames'[i].does = frames[i].does /\ frames'[i].try = frames[i].try
                         /\ i # m => frames'[i].rest = frames[i].rest,
         \/ frames'[m].rest = frames[m].rest
         \/ /\ frames[m].rest # <<>> /\ Head(frames[m].rest).kind = "while"
            /\ frames'[m].rest = Tail(frames[m].rest)
  PROVE  RunFollows'
<1>1. PICK run : Follows(run)
  BY SMTT(30) DEF RunFollows
<1>2. m \in 1..Len(frames) /\ Len(frames') # m + 1 /\ frames[m] \in Frames /\ Len(frames) - 1 = m
  <2>1. Len(frames) \in Nat /\ Len(frames) > 1 /\ frames \in Seq(Frames)
    BY NestedFacts
  <2>2. m = Len(frames) - 1 /\ m \in 1..Len(frames) /\ m # m + 1
    BY <2>1, SMTT(30)
  <2>3. frames[m] \in Frames
    BY <2>1, <2>2, ElementOfSeq
  <2> QED BY <2>2, <2>3
<1>3. FrameChecked(run, m) /\ run[m] \in CheckerStates
  BY <1>1, <1>2 DEF Follows
<1>4. CheckBody[frames[m].rest][run[m]].ok /\ run[m].scopes # <<>> /\ frames[m].rest \in Bodies
  BY <1>2, <1>3 DEF FrameChecked, Frames
<1>5. CheckBody[frames'[m].rest][run[m]].ok
  <2>1. CASE frames'[m].rest = frames[m].rest
    BY <1>4, <2>1
  <2>2. CASE /\ frames[m].rest # <<>> /\ Head(frames[m].rest).kind = "while"
             /\ frames'[m].rest = Tail(frames[m].rest)
    BY <1>3, <1>4, <2>2, AcceptedList
  <2> QED BY <2>1, <2>2
<1>6. Kept(m)
  <2>1. \A i \in 1..m : scopes'[i] = scopes[i]
    BY <1>2, NestedFacts
  <2> QED BY <2>1 DEF Kept
<1> QED
  BY <1>1, <1>2, <1>3, <1>5, <1>6, FramesKeep

\* The list around the body of a loop is at the loop.
LEMMA AroundLoop ==
  ASSUME TypesOK, RunFollows, NEW m \in 1..Len(frames), frames[m].does = "while"
  PROVE  m # 1 /\ frames[m - 1].rest # <<>> /\ Head(frames[m - 1].rest).kind = "while"
<1>1. PICK run : Follows(run)
  BY DEF RunFollows
<1>2. FrameChecked(run, m)
  BY <1>1 DEF Follows
<1> QED
  BY <1>2 DEF FrameChecked

LEMMA LeaveListKeeps ==
  StatementsInv /\ LeaveList => StatementsInv'
<1> SUFFICES ASSUME StatementsInv, LeaveList PROVE StatementsInv'
  OBVIOUS
<1>1. TypesOK /\ RunFollows /\ FlowOK /\ IsCovered /\ Nested
  BY DEF StatementsInv, LeaveList
<1>2. PICK m \in Nat \ {0} : m = Len(frames) - 1
  BY <1>1, NestedFacts
<1>3. /\ m + 1 = Len(frames) /\ m \in 1..Len(frames) /\ Len(frames) \in Nat /\ Last(frames) = frames[m + 1]
      /\ frames # <<>>
  BY <1>1, <1>2, NestedFacts
<1>4. /\ frames' = Front(frames) /\ scopes' = Front(scopes) /\ UNCHANGED <<program, globals, flow>>
      /\ flow = "normal" /\ frames[m + 1].rest = <<>>
  BY <1>3 DEF LeaveList
<1>5. /\ frames' \in Seq(Frames) /\ Len(frames') = m /\ \A i \in 1..m : frames'[i] = frames[i]
      /\ scopes' \in Seq(Scope) /\ Len(scopes') = m
  BY <1>1, <1>2, <1>4, NestedFacts
<1>6. TypesOK'
  BY <1>1, <1>4, <1>5 DEF TypesOK
<1>7. RunFollows'
  <2>1. m \in 1..m /\ \A i \in 1..m : /\ frames'[i].does = frames[i].does /\ frames'[i].try = frames[i].try
                                      /\ frames'[i].rest = frames[i].rest
    BY <1>2, <1>5
  <2> QED BY <1>1, <1>2, <1>3, <1>4, <1>5, <1>6, <2>1, LeavingKeeps
<1>8. FlowOK'
  BY <1>4 DEF FlowOK
<1>9. IsCovered'
  <2> SUFFICES ASSUME program.of = "value" PROVE \E i \in Nat \ {0} : Covered(i)'
    BY <1>4 DEF IsCovered
  <2>1. PICK i \in Nat \ {0} : Covered(i)
    BY <1>1, <1>3 DEF IsCovered
  <2>2. i <= Len(frames) /\ BodyDefinitelyReturns[frames[i].rest]
    BY <1>4, <2>1 DEF Covered
  <2>3. i # m + 1
    BY <1>4, <2>2, ReturningList, BodiesAreLists
  <2>4. i <= m /\ i \in 1..m
    BY <1>2, <1>3, <2>2, <2>3
  <2>5. i < m \/ (i = m /\ BodyDefinitelyReturns[frames'[m].rest])
    BY <1>2, <1>5, <2>2, <2>4
  <2> QED BY <1>1, <1>3, <1>5, <1>6, <2>1, <2>5, CoveredBelow
<1> QED
  BY <1>6, <1>7, <1>8, <1>9 DEF StatementsInv

LEMMA EndIterationKeeps ==
  StatementsInv /\ EndIteration => StatementsInv'
<1> SUFFICES ASSUME StatementsInv, EndIteration PROVE StatementsInv'
  OBVIOUS
<1>1. TypesOK /\ RunFollows /\ FlowOK /\ IsCovered /\ Nested
  BY DEF StatementsInv, EndIteration
<1>2. PICK m \in Nat \ {0} : m = Len(frames) - 1
  BY <1>1, NestedFacts
<1>3. /\ m + 1 = Len(frames) /\ m \in 1..Len(frames) /\ m + 1 \in 1..Len(frames) /\ m + 1 # 1 /\ m + 1 \in 2..Len(frames)
      /\ Len(frames) \in Nat /\ Last(frames) = frames[m + 1] /\ frames # <<>> /\ (m + 1) - 1 = m /\ frames[m] \in Frames
  BY <1>1, <1>2, NestedFacts
<1>4. /\ scopes' = Front(scopes) /\ flow' = "normal" /\ UNCHANGED <<program, globals>>
      /\ flow \in {"break", "continue"} /\ frames[m + 1].does = "while"
      /\ frames' = IF flow = "continue" THEN Front(frames)
                   ELSE [Front(frames) EXCEPT ![m].rest = Tail(@)]
  BY <1>2, <1>3 DEF EndIteration
<1>5. frames[m].rest \in Bodies /\ frames[m].rest # <<>> /\ Head(frames[m].rest).kind = "while"
  BY <1>1, <1>3, <1>4, AroundLoop DEF Frames
<1>6. /\ scopes' \in Seq(Scope) /\ Len(scopes') = m
      /\ Front(frames) \in Seq(Frames) /\ Len(Front(frames)) = m /\ Front(frames) # <<>>
      /\ \A i \in 1..m : Front(frames)[i] = frames[i]
  BY <1>1, <1>2, <1>4, NestedFacts
<1>7. m \in 1..m /\ Tail(frames[m].rest) \in Bodies
  BY <1>2, <1>5, BodyFacts
<1>8. /\ frames' \in Seq(Frames) /\ Len(frames') = m
      /\ \A i \in 1..m : /\ frames'[i].does = frames[i].does /\ frames'[i].try = frames[i].try
                         /\ i # m => frames'[i].rest = frames[i].rest
      /\ frames'[m].rest \in {frames[m].rest, Tail(frames[m].rest)}
  <2>1. CASE flow = "continue"
    BY <1>4, <1>6, <1>7, <2>1
  <2>2. CASE flow # "continue"
    <3> DEFINE fs == Front(frames)
               gs == [fs EXCEPT ![Len(fs)].rest = Tail(frames[m].rest)]
    <3>1. fs \in Seq(Frames) /\ fs # <<>> /\ Len(fs) = m /\ fs[m] = frames[m]
      BY <1>6, <1>7
    <3> HIDE DEF fs
    <3>2. frames' = gs
      BY <1>4, <2>2, <3>1 DEF fs
    <3>3. /\ gs \in Seq(Frames) /\ Len(gs) = Len(fs) /\ gs[Len(fs)].rest = Tail(frames[m].rest)
          /\ \A i \in 1..Len(fs) : /\ gs[i].does = fs[i].does /\ gs[i].try = fs[i].try
                                   /\ i # Len(fs) => gs[i].rest = fs[i].rest
      BY <1>7, <3>1, WithRestFacts
    <3> HIDE DEF gs
    <3> QED BY <1>6, <3>1, <3>2, <3>3 DEF fs
  <2> QED BY <2>1, <2>2
<1>9. TypesOK'
  <2>1. flow' \in Flows
    BY <1>4 DEF Flows
  <2> QED BY <1>1, <1>4, <1>6, <1>8, <2>1 DEF TypesOK
<1>10. RunFollows'
  BY <1>1, <1>2, <1>3, <1>4, <1>5, <1>8, <1>9, LeavingKeeps
<1>11. FlowOK'
  BY <1>4 DEF FlowOK
<1>12. IsCovered'
  <2> SUFFICES ASSUME program.of = "value" PROVE \E i \in Nat \ {0} : Covered(i)'
    BY <1>4 DEF IsCovered
  <2>1. PICK i \in Nat \ {0} : Covered(i)
    BY <1>1, <1>3 DEF IsCovered
  <2>2. i <= Len(frames) /\ BodyDefinitelyReturns[frames[i].rest] /\ ~(m + 1 <= i)
    BY <1>3, <1>4, <2>1 DEF Covered
  <2>3. i < m \/ i = m
    BY <1>2, <2>2
  <2>4. i = m => BodyDefinitelyReturns[Tail(frames[m].rest)]
    <3> HAVE i = m
    <3>1. ~DefinitelyReturns(BodyDefinitelyReturns, Head(frames[m].rest))
      BY <1>5 DEF DefinitelyReturns
    <3> QED BY <1>5, <2>2, <3>1, ReturningList
  <2>5. i < m \/ (i = m /\ BodyDefinitelyReturns[frames'[m].rest])
    BY <1>8, <2>2, <2>3, <2>4
  <2> QED BY <1>1, <1>3, <1>8, <1>9, <2>1, <2>5, CoveredBelow
<1> QED
  BY <1>9, <1>10, <1>11, <1>12 DEF StatementsInv

LEMMA CatchKeeps ==
  StatementsInv /\ Catch => StatementsInv'
<1> SUFFICES ASSUME StatementsInv, Catch PROVE StatementsInv'
  OBVIOUS
<1>1. TypesOK /\ RunFollows /\ FlowOK /\ IsCovered /\ Nested
  BY DEF StatementsInv, Catch
<1>2. PICK m \in Nat \ {0} : m = Len(frames) - 1
  BY <1>1, NestedFacts
<1>3. /\ m + 1 = Len(frames) /\ m \in 1..Len(frames) /\ m + 1 \in 1..Len(frames) /\ m + 1 # 1 /\ m + 1 \in 2..Len(frames)
      /\ Len(frames) \in Nat /\ Last(frames) = frames[m + 1] /\ frames # <<>> /\ (m + 1) - 1 = m
  BY <1>1, <1>2, NestedFacts
<1> DEFINE s == frames[m + 1].try
           scope == Only(s.name, "exception")
           frame == Frame("catch", s.bodies[2], s)
<1>4. /\ frames' = Append(Front(frames), frame) /\ scopes' = Append(Front(scopes), scope)
      /\ flow' = "normal" /\ UNCHANGED <<program, globals>> /\ frames[m + 1].does = "try"
  BY <1>3 DEF Catch
<1>5. PICK run : Follows(run)
  BY <1>1 DEF RunFollows
<1>6. /\ s \in Statements /\ s.kind = "try"
      /\ CheckBody[s.bodies[2]][Pushed(run[m], scope)].ok
  <2>1. FrameChecked(run, m + 1)
    BY <1>3, <1>5 DEF Follows
  <2> QED BY <1>3, <1>4, <2>1 DEF FrameChecked
<1>7. s.bodies[2] \in Bodies /\ s.name \in Names /\ scope \in Scope
  BY <1>6, StatementFacts, ScopesOfNames DEF ScopeFacts
<1>8. frame \in Frames /\ frame.does = "catch" /\ frame.rest = s.bodies[2]
  BY <1>6, <1>7 DEF Frame, Frames
<1> HIDE DEF frame, s
<1>9. /\ frames' \in Seq(Frames) /\ Len(frames') = m + 1 /\ frames'[m + 1] = frame
      /\ \A i \in 1..m : frames'[i] = frames[i]
  <2> DEFINE fs == Front(frames)
  <2>1. fs \in Seq(Frames) /\ Len(fs) = m /\ \A i \in 1..m : fs[i] = frames[i]
    BY <1>1, <1>2, NestedFacts
  <2> HIDE DEF fs
  <2>2. /\ Append(fs, frame) \in Seq(Frames) /\ Len(Append(fs, frame)) = m + 1 /\ Append(fs, frame)[m + 1] = frame
        /\ \A i \in 1..m : Append(fs, frame)[i] = fs[i]
    BY <1>8, <2>1, AppendProperties
  <2>3. frames' = Append(fs, frame)
    BY <1>4 DEF fs
  <2> QED BY <2>1, <2>2, <2>3
<1>10. /\ scopes' \in Seq(Scope) /\ Len(scopes') = m + 1 /\ scopes'[m + 1] = scope
       /\ \A i \in 1..m : scopes'[i] = scopes[i]
  <2> DEFINE scs == Front(scopes)
  <2>1. scs \in Seq(Scope) /\ Len(scs) = m /\ \A i \in 1..m : scs[i] = scopes[i]
    BY <1>1, <1>2, NestedFacts
  <2> HIDE DEF scs, scope
  <2>2. /\ Append(scs, scope) \in Seq(Scope) /\ Len(Append(scs, scope)) = m + 1 /\ Append(scs, scope)[m + 1] = scope
        /\ \A i \in 1..m : Append(scs, scope)[i] = scs[i]
    BY <1>7, <2>1, AppendProperties
  <2>3. scopes' = Append(scs, scope)
    BY <1>4 DEF scs
  <2> QED BY <2>1, <2>2, <2>3
<1>11. TypesOK'
  <2>1. flow' \in Flows
    BY <1>4 DEF Flows
  <2> QED BY <1>1, <1>4, <1>9, <1>10, <2>1 DEF TypesOK
<1>12. RunFollows'
  <2> DEFINE st == run[m]
             new == Pushed(st, scope)
  <2>1. FrameChecked(run, m) /\ st \in CheckerStates
    BY <1>3, <1>5 DEF Follows
  <2>2. CheckBody[frames'[m].rest][st].ok
    <3>1. m \in 1..m
      BY <1>2
    <3> QED BY <1>9, <2>1, <3>1 DEF FrameChecked
  <2> HIDE DEF st, scope
  <2>3. new \in CheckerStates /\ new.in = st.in /\ new.loops = st.loops /\ new.scopes = Append(st.scopes, scopes'[m + 1])
    BY <1>7, <1>10, <2>1, PushedFacts
  <2>4. CheckBody[frames'[m + 1].rest][new].ok
    BY <1>6, <1>8, <1>9 DEF st
  <2>5. frames'[m + 1].does = "catch"
    BY <1>8, <1>9
  <2> HIDE DEF new
  <2>6. Len(frames') = m + 1 /\ m \in 1..Len(frames) /\ Kept(m)
    BY <1>3, <1>9, <1>10 DEF Kept
  <2>7. CheckBody[frames'[m].rest][run[m]].ok /\ new.in = run[m].in /\ new.scopes = Append(run[m].scopes, scopes'[m + 1])
        /\ new.loops = run[m].loops
    BY <2>2, <2>3 DEF st
  <2>8. Added(run, m, new)
    BY <2>4, <2>5, <2>7 DEF Added
  <2> QED BY <1>1, <1>4, <1>5, <1>11, <2>3, <2>6, <2>7, <2>8, FramesKeep
<1>13. FlowOK'
  BY <1>4 DEF FlowOK
<1>14. IsCovered'
  <2> SUFFICES ASSUME program.of = "value" PROVE \E i \in Nat \ {0} : Covered(i)'
    BY <1>4 DEF IsCovered
  <2>1. PICK i \in Nat \ {0} : Covered(i)
    BY <1>1, <1>3 DEF IsCovered
  <2>2. CASE i <= m
    <3>1. i <= Len(frames) /\ i \in 1..m
      BY <1>2, <1>3, <2>2
    <3>2. BodyDefinitelyReturns[frames'[i].rest]
      BY <1>9, <2>1, <3>1 DEF Covered
    <3>3. i < m \/ (i = m /\ BodyDefinitelyReturns[frames'[m].rest])
      BY <1>2, <3>1, <3>2
    <3> QED BY <1>1, <1>3, <1>9, <1>11, <2>1, <3>3, CoveredBelow
  <2>3. CASE ~(i <= m)
    <3>1. m + 1 <= i /\ i >= m
      BY <1>2, <2>3
    <3>2. BodyDefinitelyReturns[s.bodies[2]]
      BY <1>3, <1>4, <2>1, <3>1 DEF Covered, s
    <3>3. BodyDefinitelyReturns[frames'[m + 1].rest] /\ frames'[m + 1].does = "catch"
      BY <1>8, <1>9, <3>2
    <3>4. Covered(m + 1)'
      BY <1>1, <1>3, <1>9, <1>11, <2>1, <3>1, <3>3, CoveredAbove
    <3> QED BY <1>2, <3>4
  <2> QED BY <2>2, <2>3
<1> QED
  BY <1>11, <1>12, <1>13, <1>14 DEF StatementsInv

LEMMA UnwindKeeps ==
  StatementsInv /\ Unwind => StatementsInv'
<1> SUFFICES ASSUME StatementsInv, Unwind PROVE StatementsInv'
  OBVIOUS
<1>1. TypesOK /\ RunFollows /\ FlowOK /\ IsCovered /\ Nested
  BY DEF StatementsInv, Unwind
<1>2. PICK m \in Nat \ {0} : m = Len(frames) - 1
  BY <1>1, NestedFacts
<1>3. /\ m + 1 = Len(frames) /\ m \in 1..Len(frames) /\ Len(frames) \in Nat /\ Last(frames) = frames[m + 1]
      /\ frames # <<>>
  BY <1>1, <1>2, NestedFacts
<1>4. /\ frames' = Front(frames) /\ scopes' = Front(scopes) /\ UNCHANGED <<program, globals, flow>>
      /\ flow # "normal"
      /\ flow \in {"break", "continue"} => frames[m + 1].does # "while"
  BY <1>3 DEF Unwind
<1>5. /\ frames' \in Seq(Frames) /\ Len(frames') = m /\ \A i \in 1..m : frames'[i] = frames[i]
      /\ scopes' \in Seq(Scope) /\ Len(scopes') = m /\ m \in 1..m
  BY <1>1, <1>2, <1>4, NestedFacts
<1>6. TypesOK'
  BY <1>1, <1>4, <1>5 DEF TypesOK
<1>7. RunFollows'
  <2>1. m \in 1..m /\ \A i \in 1..m : /\ frames'[i].does = frames[i].does /\ frames'[i].try = frames[i].try
                                      /\ frames'[i].rest = frames[i].rest
    BY <1>2, <1>5
  <2> QED BY <1>1, <1>2, <1>3, <1>4, <1>5, <1>6, <2>1, LeavingKeeps
<1>8. ASSUME flow \in {"break", "continue"}
      PROVE  \E j \in 1..m : frames[j].does = "while" /\ j # 1
  <2>1. PICK j \in 1..Len(frames) : frames[j].does = "while"
    BY <1>1, <1>3, <1>8 DEF FlowOK
  <2>2. j # m + 1 /\ j # 1
    BY <1>1, <1>4, <1>8, <2>1, AroundLoop
  <2>3. j \in 1..m
    BY <1>2, <1>3, <2>2
  <2> QED BY <2>1, <2>2, <2>3
<1>9. FlowOK'
  <2>1. flow' \in {"break", "continue"} => \E j \in 1..Len(frames') : frames'[j].does = "while"
    BY <1>4, <1>5, <1>8
  <2>2. flow' = "return" => IsFunction(program')
    BY <1>1, <1>3, <1>4 DEF FlowOK
  <2> QED BY <2>1, <2>2 DEF FlowOK
<1>10. IsCovered'
  <2> SUFFICES ASSUME program.of = "value" PROVE \E i \in Nat \ {0} : Covered(i)'
    BY <1>4 DEF IsCovered
  <2>1. PICK i \in Nat \ {0} : Covered(i)
    BY <1>1, <1>3 DEF IsCovered
  <2>2. \A k \in 2..m : k \in 2..Len(frames) /\ frames'[k] = frames[k]
    BY <1>2, <1>3, <1>5
  <2>3. \A k \in 2..m : k <= i =>
          /\ frames'[k].does # "while"
          /\ frames'[k].does = "try" => BodyDefinitelyReturns[frames'[k].try.bodies[2]]
    BY <2>1, <2>2 DEF Covered
  <2>4. i <= m => BodyDefinitelyReturns[frames'[i].rest]
    <3> HAVE i <= m
    <3>1. i <= Len(frames) /\ i \in 1..m
      BY <1>2, <1>3
    <3> QED BY <1>5, <2>1, <3>1 DEF Covered
  <2>5. flow' \in {"normal", "break", "continue"} => i <= m
    <3> HAVE flow' \in {"normal", "break", "continue"}
    <3>1. flow \in {"break", "continue"}
      BY <1>4
    <3>2. PICK j \in 1..m : frames[j].does = "while" /\ j # 1
      BY <1>8, <3>1
    <3>3. j \in 2..Len(frames) /\ j \in Nat
      BY <1>2, <1>3, <3>2
    <3>4. ~(j <= i)
      BY <2>1, <3>2, <3>3 DEF Covered
    <3> QED BY <1>2, <3>2, <3>3, <3>4
  <2>6. Covered(i)'
    BY <1>5, <2>3, <2>4, <2>5 DEF Covered
  <2> QED BY <2>6
<1> QED
  BY <1>6, <1>7, <1>9, <1>10 DEF StatementsInv

LEMMA EndBodyKeeps ==
  StatementsInv /\ EndBody => StatementsInv'
<1> SUFFICES ASSUME StatementsInv, EndBody PROVE StatementsInv'
  OBVIOUS
<1>1. TypesOK /\ frames' = <<>> /\ scopes' = <<>> /\ UNCHANGED <<program, globals, flow>>
  BY DEF StatementsInv, EndBody
<1>2. TypesOK'
  BY <1>1 DEF TypesOK
<1>3. RunFollows'
  <2>1. <<>> \in Seq(CheckerStates) /\ Len(<<>>) = 0 /\ Len(frames') = 0 /\ 1..0 = {}
    BY <1>1
  <2>2. Follows(<<>>)'
    BY <2>1 DEF Follows
  <2> QED BY <2>2 DEF RunFollows
<1> QED
  BY <1>1, <1>2, <1>3 DEF StatementsInv, FlowOK, IsCovered

\* A step that leaves the lists as they are, and what the variables are.
LEMMA RunStays ==
  ASSUME RunFollows, UNCHANGED <<program, frames>>,
         \A i \in 1..Len(frames) : \A x \in Names : TypeAt(i, x) # Unbound => TypeAt(i, x)' = TypeAt(i, x)
  PROVE  RunFollows'
<1>1. PICK run : Follows(run)
  BY DEF RunFollows
<1>2. ASSUME NEW i \in 1..Len(frames) PROVE FrameChecked(run, i)'
  <2>1. FrameChecked(run, i)
    BY <1>1 DEF Follows
  <2>2. \A x \in Names : TypeIn(run[i].scopes, x) # Unbound => TypeAt(i, x)' = TypeIn(run[i].scopes, x)
    BY <2>1 DEF FrameChecked
  <2> QED BY <2>1, <2>2 DEF FrameChecked
<1>3. Follows(run)'
  BY <1>1, <1>2 DEF Follows
<1> QED
  BY <1>3 DEF RunFollows

LEMMA RaiseKeeps ==
  StatementsInv /\ (Fault \/ Fail \/ JumpAway) => StatementsInv'
<1> SUFFICES ASSUME StatementsInv, Fault \/ Fail \/ JumpAway PROVE StatementsInv'
  OBVIOUS
<1>1. TypesOK /\ RunFollows /\ FlowOK /\ IsCovered /\ Running
  BY DEF StatementsInv, Fault, Fail, JumpAway
<1>2. PICK f : /\ f \in {"fault", "error", "break", "continue", "return"} /\ Raise(f)
               /\ f \in {"break", "continue", "return"} => f = Current.kind
  BY DEF Fault, Fail, JumpAway
<1>3. flow' = f /\ UNCHANGED <<program, globals, scopes, frames>>
  BY <1>2 DEF Raise
<1>4. TypesOK'
  BY <1>1, <1>2, <1>3 DEF TypesOK, Flows
<1>5. RunFollows'
  <2>1. ASSUME NEW i \in 1..Len(frames), NEW x \in Names PROVE TypeAt(i, x)' = TypeAt(i, x)
    BY <1>3 DEF TypeAt
  <2> QED BY <1>1, <1>3, <2>1, RunStays
<1>6. FlowOK'
  <2>1. PICK run : Follows(run)
    BY <1>1 DEF RunFollows
  <2> DEFINE st == run[Len(frames)]
  <2>2. StatementOK(st, Current) /\ FrameChecked(run, Len(frames)) /\ st \in CheckerStates /\ st.in = program.of
    BY <1>1, <2>1, CurrentChecked
  <2>3. Current.kind \in {"break", "continue"} => \E j \in 1..Len(frames) : frames[j].does = "while"
    BY <2>2 DEF StatementOK, JumpOK, FrameChecked
  <2>4. Current.kind = "return" => IsFunction(program)
    BY <2>2 DEF StatementOK, ReturnOK, IsFunction
  <2> QED BY <1>2, <1>3, <2>3, <2>4 DEF FlowOK
<1>7. IsCovered'
  <2> SUFFICES ASSUME program.of = "value" PROVE \E i \in Nat \ {0} : Covered(i)'
    BY <1>3 DEF IsCovered
  <2>1. PICK i \in Nat \ {0} : Covered(i)
    BY <1>1 DEF IsCovered, Running
  <2>2. flow = "normal"
    BY <1>1 DEF Running
  <2>3. Covered(i)'
    BY <1>3, <2>1, <2>2 DEF Covered
  <2> QED BY <2>3
<1> QED
  BY <1>4, <1>5, <1>6, <1>7 DEF StatementsInv

-----------------------------------------------------------------------------
(* Variables appear.                                                         *)

\* An assignment that is allowed makes a variable where it is not seen, or
\* changes nothing.
LEMMA StoreFacts ==
  ASSUME TypesOK, frames # <<>>, NEW x \in Names, NEW t \in Types,
         CanAssign(TypeOf(x), t), Store(x, t)
  PROVE  /\ globals' \in Scope /\ scopes' \in Seq(Scope) /\ Len(scopes') = Len(scopes)
         /\ TypeAt(Len(scopes), x)' = t
         /\ \A i \in 1..Len(scopes) : \A y \in Names : TypeAt(i, y) # Unbound => TypeAt(i, y)' = TypeAt(i, y)
<1> DEFINE n == Len(scopes)
<1>1. /\ scopes \in Seq(Scope) /\ globals \in Scope /\ n \in Nat /\ n # 0 /\ scopes # <<>> /\ n \in 1..n
      /\ Unbound \notin Types /\ n = Len(frames)
  BY UnboundIsNone DEF TypesOK
<1>2. \A y \in Names : TypeAt(n, y) = TypeOf(y)
  BY <1>1, TypeAtLast
<1>3. ASSUME scopes' = scopes, globals' = globals, TypeOf(x) = t
      PROVE  /\ globals' \in Scope /\ scopes' \in Seq(Scope) /\ Len(scopes') = Len(scopes)
             /\ TypeAt(Len(scopes), x)' = t
             /\ \A i \in 1..Len(scopes) : \A y \in Names : TypeAt(i, y) # Unbound => TypeAt(i, y)' = TypeAt(i, y)
  <2>1. ASSUME NEW i \in 1..n, NEW y \in Names PROVE TypeAt(i, y)' = TypeAt(i, y)
    BY <1>3 DEF TypeAt
  <2>2. TypeAt(Len(scopes), x)' = TypeAt(Len(scopes), x)
    BY <1>3 DEF TypeAt
  <2> QED BY <1>1, <1>2, <1>3, <2>1, <2>2
<1>4. CASE TypeIn(scopes, x) = Unbound /\ globals[x] # Unbound
  <2>1. TypeOf(x) = globals[x] /\ globals[x] = t
    BY <1>4 DEF TypeOf, CanAssign
  <2>2. globals' = [globals EXCEPT ![x] = t] /\ scopes' = scopes
    BY <1>4 DEF Store
  <2>3. globals' = globals
    BY <1>1, <2>1, <2>2 DEF Scope
  <2> QED BY <1>3, <2>1, <2>2, <2>3
<1>5. CASE TypeOf(x) = Unbound /\ ~IsFunction(program) /\ Len(scopes) = 1
  <2>1. globals' = [globals EXCEPT ![x] = t] /\ scopes' = scopes
    BY <1>5 DEF Store
  <2>2. TypeIn(scopes, x) = Unbound
    BY <1>5 DEF TypeOf
  <2>3. globals' \in Scope /\ globals'[x] = t /\ \A y \in Names \ {x} : globals'[y] = globals[y]
    BY <1>1, <2>1 DEF Scope
  <2>4. SubSeq(scopes, 1, 1) = scopes
    BY <1>1, <1>5, SubSeqFull
  <2>5. ASSUME NEW y \in Names
        PROVE  TypeAt(1, y)' = IF TypeIn(scopes, y) # Unbound THEN TypeIn(scopes, y) ELSE globals'[y]
    <3>1. SubSeq(scopes', 1, 1) = scopes
      BY <2>1, <2>4
    <3> QED BY <3>1 DEF TypeAt
  <2>6. TypeAt(Len(scopes), x)' = TypeAt(1, x)'
    BY <1>5, <2>1
  <2>7. TypeAt(1, x)' = t
    BY <2>2, <2>3, <2>5
  <2>8. ASSUME NEW y \in Names \ {x} PROVE TypeAt(1, y)' = TypeAt(1, y)
    BY <2>3, <2>4, <2>5 DEF TypeAt
  <2>9. TypeAt(1, x) = Unbound
    BY <1>2, <1>5
  <2>10. \A i \in 1..Len(scopes) : i = 1
    BY <1>5
  <2> QED BY <1>1, <2>1, <2>3, <2>6, <2>7, <2>8, <2>9, <2>10
<1>6. CASE ~(TypeIn(scopes, x) = Unbound /\ globals[x] # Unbound) /\ ~(TypeOf(x) = Unbound /\ ~IsFunction(program) /\ Len(scopes) = 1)
  <2>1. scopes' = Assigned(scopes, x, t) /\ globals' = globals
    BY <1>6 DEF Store
  <2>2. CanAssign(TypeIn(scopes, x), t)
    BY <1>1 DEF CanAssign, TypeOf
  <2>3. /\ scopes' \in Seq(Scope) /\ Len(scopes') = n
        /\ TypeIn(scopes, x) # Unbound => scopes' = scopes
        /\ \A i \in 1..(n - 1) : scopes'[i] = scopes[i]
        /\ TypeIn(scopes', x) = t
        /\ \A y \in Names \ {x} : TypeIn(scopes', y) = TypeIn(scopes, y)
    BY <1>1, <2>1, <2>2, AssignedFacts
  <2>4. CASE TypeIn(scopes, x) # Unbound
    <3>1. TypeOf(x) = t
      BY <2>2, <2>4 DEF TypeOf, CanAssign
    <3> QED BY <1>3, <2>1, <2>3, <2>4, <3>1
  <2>5. CASE TypeIn(scopes, x) = Unbound
    <3>1. TypeOf(x) = Unbound
      BY <1>6, <2>5 DEF TypeOf
    <3>2. ASSUME NEW y \in Names
          PROVE  TypeAt(n, y)' = IF TypeIn(scopes', y) # Unbound THEN TypeIn(scopes', y) ELSE globals[y]
      <4>1. SubSeq(scopes', 1, Len(scopes')) = scopes'
        BY <2>3, SubSeqFull
      <4> QED BY <2>1, <4>1 DEF TypeAt
    <3>3. TypeAt(n, x)' = t
      BY <1>1, <2>3, <3>2
    <3>4. ASSUME NEW y \in Names \ {x} PROVE TypeAt(n, y)' = TypeAt(n, y)
      BY <1>2, <2>3, <3>2 DEF TypeOf
    <3>5. ASSUME NEW i \in 1..n, i # n, NEW y \in Names PROVE TypeAt(i, y)' = TypeAt(i, y)
      <4>1. i \in Nat /\ i <= n /\ \A j \in 1..i : j \in 1..(n - 1)
        BY <1>1, <3>5
      <4>2. /\ SubSeq(scopes', 1, i) \in Seq(Scope) /\ Len(SubSeq(scopes', 1, i)) = i
            /\ \A j \in 1..i : SubSeq(scopes', 1, i)[j] = scopes'[j]
        BY <2>3, <4>1
      <4>3. /\ SubSeq(scopes, 1, i) \in Seq(Scope) /\ Len(SubSeq(scopes, 1, i)) = i
            /\ \A j \in 1..i : SubSeq(scopes, 1, i)[j] = scopes[j]
        BY <1>1, <4>1
      <4>4. SubSeq(scopes', 1, i) = SubSeq(scopes, 1, i)
        BY <2>3, <4>1, <4>2, <4>3, SeqEqual
      <4> QED BY <2>1, <4>4 DEF TypeAt
    <3>6. TypeAt(n, x) = Unbound
      BY <1>2, <3>1
    <3> QED BY <1>1, <2>1, <2>3, <3>3, <3>4, <3>5, <3>6
  <2> QED BY <2>4, <2>5
<1> QED
  BY <1>4, <1>5, <1>6

LEMMA AssignKeeps ==
  StatementsInv /\ AssignVariable => StatementsInv'
<1> SUFFICES ASSUME StatementsInv, AssignVariable PROVE StatementsInv'
  OBVIOUS
<1>1. TypesOK /\ RunFollows /\ FlowOK /\ IsCovered /\ Running /\ Current.kind = "assign"
  BY DEF StatementsInv, AssignVariable, Does
<1>2. PICK n \in Nat \ {0} : n = Len(frames)
  BY <1>1, CurrentFacts
<1> DEFINE rest == frames[n].rest
           gs == [frames EXCEPT ![Len(frames)].rest = Tail(rest)]
<1>3. /\ n \in 1..Len(frames) /\ rest \in Bodies /\ rest # <<>> /\ Current = Head(rest) /\ Current \in Statements
      /\ frames \in Seq(Frames) /\ frames # <<>> /\ Tail(rest) \in Bodies /\ Len(scopes) = n /\ scopes \in Seq(Scope)
      /\ flow = "normal"
  BY <1>1, <1>2, CurrentFacts
<1>4. PICK x \in Names, t \in Types : x = Current.name /\ t = Current.type
  BY <1>1, <1>3, StatementFacts
<1>5. CanAssign(TypeOf(x), t) /\ Store(x, t) /\ frames' = gs /\ program' = program /\ flow' = flow
  BY <1>2, <1>4 DEF AssignVariable, Advanced
<1>6. /\ gs \in Seq(Frames) /\ Len(gs) = Len(frames) /\ gs[Len(frames)].rest = Tail(rest)
      /\ \A i \in 1..Len(frames) : /\ gs[i].does = frames[i].does /\ gs[i].try = frames[i].try
                                   /\ i # Len(frames) => gs[i].rest = frames[i].rest
  BY <1>3, WithRestFacts, ZenonT(60)
<1> HIDE DEF gs, rest
<1>7. /\ frames' \in Seq(Frames) /\ Len(frames') = n /\ frames'[n].rest = Tail(rest)
      /\ \A i \in 1..n : /\ frames'[i].does = frames[i].does /\ frames'[i].try = frames[i].try
                         /\ i # n => frames'[i].rest = frames[i].rest
  BY <1>2, <1>5, <1>6
<1>8. /\ globals' \in Scope /\ scopes' \in Seq(Scope) /\ Len(scopes') = n
      /\ \A i \in 1..n : \A y \in Names : TypeAt(i, y) # Unbound => TypeAt(i, y)' = TypeAt(i, y)
  BY <1>1, <1>3, <1>4, <1>5, StoreFacts
<1>9. TypeAt(n, x)' = t
  <2>1. TypeAt(Len(scopes), x)' = t
    BY <1>1, <1>3, <1>4, <1>5, StoreFacts
  <2>2. TypeAt(n, x)' = TypeAt(Len(scopes), x)'
    BY <1>8 DEF TypeAt
  <2> QED BY <2>1, <2>2
<1>10. TypesOK'
  BY <1>1, <1>5, <1>7, <1>8 DEF TypesOK
<1>11. RunFollows'
  <2>1. PICK run : Follows(run)
    BY <1>1 DEF RunFollows
  <2> DEFINE st == run[n]
             after == [st EXCEPT !.scopes = Assigned(@, x, t)]
  <2>2. /\ FrameChecked(run, n) /\ st \in CheckerStates /\ st.scopes # <<>> /\ StatementOK(st, Current)
        /\ CheckBody[Tail(rest)][after].ok /\ st.in = program.of
    BY <1>1, <1>2, <1>4, <2>1, CurrentChecked DEF rest
  <2>3. CanAssign(TypeIn(st.scopes, x), t)
    BY <1>1, <1>4, <2>2 DEF StatementOK
  <2>4. st.scopes \in Seq(Scope)
    BY <2>2 DEF CheckerStates
  <2>5. /\ Assigned(st.scopes, x, t) \in Seq(Scope) /\ Assigned(st.scopes, x, t) # <<>>
        /\ TypeIn(Assigned(st.scopes, x, t), x) = t
        /\ \A y \in Names \ {x} : TypeIn(Assigned(st.scopes, x, t), y) = TypeIn(st.scopes, y)
    <3> DEFINE scs == st.scopes
               new == Assigned(scs, x, t)
    <3>1. scs \in Seq(Scope) /\ scs # <<>> /\ CanAssign(TypeIn(scs, x), t)
      BY <2>2, <2>3, <2>4
    <3> HIDE DEF scs
    <3>2. /\ new \in Seq(Scope) /\ Len(new) = Len(scs) /\ TypeIn(new, x) = t
          /\ \A y \in Names \ {x} : TypeIn(new, y) = TypeIn(scs, y)
      BY <1>4, <3>1, AssignedFacts
    <3> HIDE DEF new
    <3>3. new # <<>>
      BY <3>1, <3>2
    <3> QED BY <3>2, <3>3 DEF new, scs
  <2>6. /\ after \in CheckerStates /\ after.in = st.in /\ after.loops = st.loops
        /\ after.scopes = Assigned(st.scopes, x, t)
    BY <2>2, <2>5 DEF CheckerStates
  <2> HIDE DEF after, st
  <2>7. run \in Seq(CheckerStates) /\ Len(run) = n
    BY <1>2, <2>1 DEF Follows
  <2>8. PICK new \in Seq(CheckerStates) : Len(new) = n /\ \A i \in 1..n : new[i] = IF i = n THEN after ELSE run[i]
    <3> DEFINE changed == [run EXCEPT ![n] = after]
    <3>1. changed \in Seq(CheckerStates) /\ Len(changed) = n /\ \A i \in 1..n : changed[i] = IF i = n THEN after ELSE run[i]
      BY <1>2, <1>3, <2>6, <2>7, ExceptSeq
    <3> QED BY <3>1
  <2>9. ASSUME NEW i \in 1..n
        PROVE  FrameChecked(new, i)'
    <3>1. FrameChecked(run, i) /\ i \in 1..Len(frames)
      BY <1>2, <2>1, <2>9 DEF Follows
    <3>2. CheckBody[frames'[i].rest][new[i]].ok
      BY <1>7, <2>2, <2>8, <3>1, ZenonT(60) DEF FrameChecked
    <3>3. new[i].in = program.of /\ new[i].scopes # <<>>
      BY <2>2, <2>5, <2>6, <2>8, <3>1 DEF FrameChecked
    <3>4. \A y \in Names : TypeIn(new[i].scopes, y) # Unbound => TypeAt(i, y)' = TypeIn(new[i].scopes, y)
      <4>1. CASE i = n
        <5>1. \A y \in Names : TypeIn(st.scopes, y) # Unbound => TypeAt(n, y)' = TypeIn(st.scopes, y)
          <6>1. n \in 1..n /\ FrameChecked(run, n)
            BY <2>2, <2>9, <4>1
          <6> QED BY <1>8, <6>1 DEF FrameChecked, st
        <5> QED BY <1>9, <2>5, <2>6, <2>8, <4>1, <5>1
      <4>2. CASE i # n
        BY <1>8, <2>8, <3>1, <4>2 DEF FrameChecked
      <4> QED BY <4>1, <4>2
    <3>5. new[i].loops > 0 => \E j \in 1..i : frames'[j].does = "while"
      <4>1. new[i].loops = run[i].loops
        BY <2>6, <2>8 DEF st
      <4>2. \A j \in 1..i : j \in 1..n
        BY <1>2
      <4> QED BY <1>7, <3>1, <4>1, <4>2 DEF FrameChecked
    <3>6. frames'[i].does = "body" <=> i = 1
      BY <1>7, <3>1 DEF FrameChecked
    <3>7. i # 1 => i - 1 \in 1..n /\ i - 1 # n /\ new[i - 1] = run[i - 1] /\ frames'[i - 1].rest = frames[i - 1].rest
      <4> HAVE i # 1
      <4>1. i - 1 \in 1..n /\ i - 1 # n
        BY <1>2
      <4> QED BY <1>7, <2>8, <4>1
    <3>8. frames'[i].does = "while" => frames'[i - 1].rest # <<>> /\ Head(frames'[i - 1].rest).kind = "while"
      BY <1>7, <3>1, <3>6, <3>7 DEF FrameChecked
    <3>9. frames'[i].does = "try" =>
            /\ frames'[i].try \in Statements /\ frames'[i].try.kind = "try"
            /\ CheckBody[frames'[i].try.bodies[2]][Pushed(new[i - 1], Only(frames'[i].try.name, "exception"))].ok
      <4> HAVE frames'[i].does = "try"
      <4>1. frames[i].does = "try" /\ frames'[i].try = frames[i].try /\ new[i - 1] = run[i - 1]
        BY <1>7, <3>6, <3>7
      <4> QED BY <3>1, <4>1 DEF FrameChecked
    <3> QED BY <1>5, <3>2, <3>3, <3>4, <3>5, <3>6, <3>8, <3>9 DEF FrameChecked
  <2>10. Follows(new)'
    BY <1>7, <2>8, <2>9 DEF Follows
  <2> QED BY <2>10 DEF RunFollows
<1>12. FlowOK'
  BY <1>3, <1>5 DEF FlowOK
<1>13. IsCovered'
  <2> SUFFICES ASSUME program.of = "value" PROVE \E i \in Nat \ {0} : Covered(i)'
    BY <1>5 DEF IsCovered
  <2>1. PICK i \in Nat \ {0} : Covered(i)
    BY <1>1, <1>3 DEF IsCovered
  <2>2. i <= Len(frames) /\ BodyDefinitelyReturns[frames[i].rest]
    BY <1>3, <2>1 DEF Covered
  <2>3. i < n \/ i = n
    BY <1>2, <2>2
  <2>4. i = n => BodyDefinitelyReturns[Tail(rest)]
    <3> HAVE i = n
    <3>1. ~DefinitelyReturns(BodyDefinitelyReturns, Head(rest)) /\ BodyDefinitelyReturns[rest]
      BY <1>1, <1>3, <2>2 DEF DefinitelyReturns, rest
    <3> QED BY <1>3, <3>1, ReturningList
  <2>5. i < n \/ (i = n /\ BodyDefinitelyReturns[frames'[n].rest])
    BY <1>7, <2>3, <2>4
  <2> QED BY <1>1, <1>3, <1>7, <1>10, <2>1, <2>5, CoveredBelow
<1> QED
  BY <1>10, <1>11, <1>12, <1>13 DEF StatementsInv

LEMMA OthersDefineGlobalKeeps ==
  StatementsInv /\ OthersDefineGlobal => StatementsInv'
<1> SUFFICES ASSUME StatementsInv, OthersDefineGlobal PROVE StatementsInv'
  OBVIOUS
<1>1. TypesOK /\ RunFollows /\ FlowOK /\ IsCovered
  BY DEF StatementsInv
<1>2. PICK x \in Names, t \in Types :
        /\ globals[x] = Unbound /\ globals' = [globals EXCEPT ![x] = t]
        /\ UNCHANGED <<program, scopes, frames, flow>>
  BY DEF OthersDefineGlobal
<1>3. globals' \in Scope /\ \A y \in Names \ {x} : globals'[y] = globals[y]
  BY <1>1, <1>2 DEF TypesOK, Scope
<1>4. TypesOK'
  BY <1>1, <1>2, <1>3 DEF TypesOK
<1>5. RunFollows'
  <2>1. ASSUME NEW i \in 1..Len(frames), NEW y \in Names, TypeAt(i, y) # Unbound
        PROVE  TypeAt(i, y)' = TypeAt(i, y)
    <3>1. CASE y = x
      BY <1>2, <2>1, <3>1 DEF TypeAt
    <3>2. CASE y # x
      BY <1>2, <1>3, <3>2 DEF TypeAt
    <3> QED BY <3>1, <3>2
  <2> QED BY <1>1, <1>2, <2>1, RunStays
<1>6. FlowOK'
  BY <1>1, <1>2 DEF FlowOK
<1>7. IsCovered'
  <2> SUFFICES ASSUME program.of = "value", frames # <<>> PROVE \E i \in Nat \ {0} : Covered(i)'
    BY <1>2 DEF IsCovered
  <2>1. PICK i \in Nat \ {0} : Covered(i)
    BY <1>1 DEF IsCovered
  <2>2. Covered(i)'
    BY <1>2, <2>1 DEF Covered
  <2> QED BY <2>2
<1> QED
  BY <1>4, <1>5, <1>6, <1>7 DEF StatementsInv

-----------------------------------------------------------------------------
(* Every step keeps the invariant.                                           *)
LEMMA AdvancingKeeps ==
  StatementsInv /\ (Evaluate \/ ExecuteElse \/ SkipSwitch \/ LeaveWhile) => StatementsInv'
<1> SUFFICES ASSUME StatementsInv, Evaluate \/ ExecuteElse \/ SkipSwitch \/ LeaveWhile PROVE StatementsInv'
  OBVIOUS
<1> DEFINE rest == frames[Len(frames)].rest
<1>1. TypesOK /\ Running /\ UNCHANGED <<program, globals, scopes, flow>>
  BY DEF StatementsInv, Evaluate, ExecuteElse, SkipSwitch, LeaveWhile, Does
<1>2. Current \in Statements
  BY <1>1, CurrentFacts
<1>3. CASE Evaluate \/ SkipSwitch \/ LeaveWhile
  <2>1. frames' = [frames EXCEPT ![Len(frames)].rest = Tail(rest)] /\ Current.kind \in {"read", "assert", "switch", "while"}
    BY <1>3 DEF Evaluate, SkipSwitch, LeaveWhile, Does, Advanced
  <2>2. ~DefinitelyReturns(BodyDefinitelyReturns, Current) /\ Current.kind # "assign"
    BY <2>1 DEF DefinitelyReturns, CoversAllCases
  <2> QED BY <1>1, <2>1, <2>2, AdvanceKeeps DEF GoesOnWith
<1>4. CASE ExecuteElse
  <2>1. CASE Len(Current.bodies) = 2
    <3>1. HasElse(Current)
      BY <1>4, <2>1 DEF ExecuteElse, Does, HasElse
    <3>2. frames' = [frames EXCEPT ![Len(frames)].rest = Current.bodies[2] \o Tail(rest)]
      BY <1>4, <2>1 DEF ExecuteElse
    <3> QED BY <1>1, <3>1, <3>2, AdvanceKeeps DEF GoesOnWith
  <2>2. CASE Len(Current.bodies) # 2
    <3>1. frames' = [frames EXCEPT ![Len(frames)].rest = Tail(rest)] /\ Current.kind = "if"
      BY <1>4, <2>2 DEF ExecuteElse, Does
    <3>2. ~DefinitelyReturns(BodyDefinitelyReturns, Current) /\ Current.kind # "assign"
      BY <2>2, <3>1 DEF DefinitelyReturns, CoversAllCases
    <3> QED BY <1>1, <3>1, <3>2, AdvanceKeeps DEF GoesOnWith
  <2> QED BY <2>1, <2>2
<1> QED
  BY <1>3, <1>4

LEMMA NestingKeeps ==
  StatementsInv /\ (EnterBlock \/ EnterThen \/ EnterArm \/ EnterTry \/ EnterWhile) => StatementsInv'
<1> SUFFICES ASSUME StatementsInv, EnterBlock \/ EnterThen \/ EnterArm \/ EnterTry \/ EnterWhile
             PROVE  StatementsInv'
  OBVIOUS
<1>1. TypesOK /\ Running
  BY DEF StatementsInv, EnterBlock, EnterThen, EnterArm, EnterTry, EnterWhile, Does
<1>2. Current \in Statements /\ NoTry \in Statements \cup {NoTry} /\ Current \in Statements \cup {NoTry}
  BY <1>1, CurrentFacts
<1>3. \A j \in DOMAIN Current.bodies : Current.bodies[j] \in Bodies
  BY <1>2, StatementFacts
<1>4. CASE EnterBlock \/ EnterThen \/ EnterArm
  <2>1. PICK j \in DOMAIN Current.bodies :
          /\ Entering(Advanced, "block", Current.bodies[j], NoTry, NoNames)
          /\ Current.kind \in {"block", "if", "switch", "switch default"}
          /\ Current.kind \in {"block", "if"} => j = 1
    <3>1. CASE EnterBlock \/ EnterThen
      <4>1. Entering(Advanced, "block", Current.bodies[1], NoTry, NoNames) /\ Current.kind \in {"block", "if"}
        BY <3>1 DEF EnterBlock, EnterThen, Does
      <4>2. 1 \in DOMAIN Current.bodies
        BY <1>2, <4>1, StatementFacts
      <4> QED BY <4>1, <4>2
    <3>2. CASE EnterArm
      BY <3>2 DEF EnterArm
    <3> QED BY <1>4, <3>1, <3>2
  <2>2. Current.bodies[j] \in Bodies
    BY <1>3
  <2>3. DefinitelyReturns(BodyDefinitelyReturns, Current) => BodyDefinitelyReturns[Current.bodies[j]]
    BY <2>1 DEF DefinitelyReturns
  <2>4. \A st \in CheckerStates : PartsAccepted(st, Current) => CheckBody[Current.bodies[j]][Pushed(st, NoNames)].ok
    BY <2>1 DEF PartsAccepted
  <2>5. "block" \in {"block", "while", "try"} /\ Current.kind # "assign" /\ Current.kind # "while"
    BY <2>1
  <2> QED BY <1>1, <1>2, <2>1, <2>2, <2>3, <2>4, <2>5, EnteringKeeps
<1>5. CASE EnterTry
  <2>1. Entering(Advanced, "try", Current.bodies[1], Current, NoNames) /\ Current.kind = "try" /\ 1 \in DOMAIN Current.bodies
    BY <1>2, <1>5, StatementFacts DEF EnterTry, Does
  <2>2. Current.bodies[1] \in Bodies
    BY <1>3, <2>1
  <2>3. DefinitelyReturns(BodyDefinitelyReturns, Current) => BodyDefinitelyReturns[Current.bodies[1]]
    BY <2>1 DEF DefinitelyReturns
  <2>4. \A st \in CheckerStates : PartsAccepted(st, Current) => CheckBody[Current.bodies[1]][Pushed(st, NoNames)].ok
    BY <2>1 DEF PartsAccepted
  <2> QED BY <1>1, <1>2, <2>1, <2>2, <2>3, <2>4, EnteringKeeps
<1>6. CASE EnterWhile
  <2>1. Entering(frames, "while", Current.bodies[1], NoTry, NoNames) /\ Current.kind = "while" /\ 1 \in DOMAIN Current.bodies
    BY <1>2, <1>6, StatementFacts DEF EnterWhile, Does
  <2>2. Current.bodies[1] \in Bodies
    BY <1>3, <2>1
  <2>3. ~DefinitelyReturns(BodyDefinitelyReturns, Current)
    BY <2>1 DEF DefinitelyReturns
  <2>4. \A st \in CheckerStates : PartsAccepted(st, Current) =>
          CheckBody[Current.bodies[1]][Pushed([st EXCEPT !.loops = @ + 1], NoNames)].ok
    BY <2>1 DEF PartsAccepted
  <2> QED BY <1>1, <1>2, <2>1, <2>2, <2>3, <2>4, EnteringKeeps
<1> QED
  BY <1>4, <1>5, <1>6

LEMMA InitFollows ==
  Init => StatementsInv
<1> SUFFICES ASSUME Init PROVE StatementsInv
  OBVIOUS
<1> DEFINE p == program
           st == CheckerState(p, globals)
           frame == Frame("body", p.body, NoTry)
           parameter == ParameterScope(p)
<1>1. /\ p \in Programs /\ globals \in Scope /\ Accepted(p, globals) /\ flow = "normal"
      /\ scopes = <<parameter>> /\ frames = <<frame>>
  BY DEF Init
<1>2. p.of \in Contexts /\ p.parameter \in Names \cup {Unbound} /\ p.body \in Bodies /\ (p.of = "module" => p.parameter = Unbound)
  BY <1>1, ProgramsArePrograms
<1>3. parameter \in Scope /\ parameter \in [Names -> Types \cup {Unbound}]
  BY DEF ParameterScope, Scope, Types
<1>4. frame \in Frames /\ frame.does = "body" /\ frame.rest = p.body
  BY <1>2 DEF Frame, Frames
<1> DEFINE scs == IF IsFunction(p) THEN <<globals, parameter>> ELSE <<globals>>
<1>5. scs \in Seq(Scope) /\ scs # <<>>
  BY <1>1, <1>3
<1>6. st = [ok |-> TRUE, loops |-> 0, in |-> p.of, scopes |-> scs]
  BY DEF CheckerState
<1> HIDE DEF frame, parameter, scs
<1>7. st \in CheckerStates /\ st.loops = 0 /\ st.in = p.of /\ st.scopes = scs
  BY <1>2, <1>5, <1>6 DEF CheckerStates
<1>8. CheckBody[p.body][st].ok /\ (p.of = "value" => BodyDefinitelyReturns[p.body])
  BY <1>1 DEF Accepted
<1> HIDE DEF st
<1>9. /\ Len(frames) = 1 /\ frames[1] = frame /\ frames \in Seq(Frames) /\ frames # <<>>
      /\ Len(scopes) = 1 /\ scopes \in Seq(Scope) /\ scopes[1] = parameter
  BY <1>1, <1>3, <1>4
<1>10. TypesOK
  BY <1>1, <1>9 DEF TypesOK, Flows
<1>11. ASSUME NEW x \in Names, TypeIn(scs, x) # Unbound
       PROVE  TypeAt(1, x) = TypeIn(scs, x)
  <2>1. <<>> \in Seq(Scope) /\ TypeIn(<<>>, x) = Unbound
    <3>1. <<>> \in Seq(Scope)
      OBVIOUS
    <3>2. ScopeOf(<<>>, x) \in 0..0
      BY <3>1, InnermostScope
    <3>3. TypeIn(<<>>, x) = Unbound
      BY <3>2 DEF TypeIn
    <3> QED BY <3>1, <3>3
  <2>2. \A s \in Scope : TypeIn(<<s>>, x) = s[x]
    <3> TAKE s \in Scope
    <3>1. <<s>> = Append(<<>>, s)
      OBVIOUS
    <3> QED BY <2>1, <3>1, TypeInPushed
  <2>3. TypeAt(1, x) = IF parameter[x] # Unbound THEN parameter[x] ELSE globals[x]
    <3>1. SubSeq(scopes, 1, 1) = <<parameter>>
      BY <1>9, <1>1, SubSeqFull
    <3>2. TypeIn(SubSeq(scopes, 1, 1), x) = parameter[x]
      BY <1>3, <2>2, <3>1
    <3> QED BY <3>2 DEF TypeAt
  <2>4. CASE IsFunction(p)
    <3>1. scs = Append(<<globals>>, parameter) /\ <<globals>> \in Seq(Scope)
      BY <1>1, <2>4 DEF scs
    <3>2. TypeIn(scs, x) = IF parameter[x] # Unbound THEN parameter[x] ELSE globals[x]
      BY <1>1, <1>3, <2>2, <3>1, TypeInPushed
    <3> QED BY <2>3, <3>2
  <2>5. CASE ~IsFunction(p)
    <3>1. parameter[x] = Unbound
      BY <1>2, <2>5, UnboundIsNone DEF parameter, ParameterScope, IsFunction
    <3>2. TypeIn(scs, x) = globals[x]
      BY <1>1, <2>2, <2>5 DEF scs
    <3> QED BY <2>3, <3>1, <3>2
  <2> QED BY <2>4, <2>5
<1>12. RunFollows
  <2>1. /\ <<st>> \in Seq(CheckerStates) /\ Len(<<st>>) = Len(frames) /\ <<st>>[1] = st
        /\ \A i \in 1..Len(frames) : i = 1
    BY <1>7, <1>9
  <2>2. FrameChecked(<<st>>, 1)
    BY <1>4, <1>5, <1>7, <1>8, <1>9, <1>11, <2>1 DEF FrameChecked
  <2>3. Follows(<<st>>)
    BY <2>1, <2>2 DEF Follows
  <2> QED BY <2>3 DEF RunFollows
<1>13. FlowOK
  BY <1>1 DEF FlowOK
<1>14. IsCovered
  <2>1. ASSUME p.of = "value" PROVE Covered(1)
    <3>1. BodyDefinitelyReturns[frames[1].rest]
      BY <1>4, <1>8, <1>9, <2>1
    <3>2. 2..Len(frames) = {} /\ 1 <= Len(frames)
      BY <1>9
    <3> QED BY <3>1, <3>2 DEF Covered
  <2> QED BY <2>1 DEF IsCovered
<1> QED
  BY <1>10, <1>12, <1>13, <1>14 DEF StatementsInv

LEMMA NextFollows ==
  StatementsInv /\ [Next]_vars => StatementsInv'
<1> SUFFICES ASSUME StatementsInv, [Next]_vars PROVE StatementsInv'
  OBVIOUS
<1>1. CASE Ended \/ UNCHANGED vars
  <2>1. UNCHANGED <<program, globals, scopes, frames, flow>>
    BY <1>1 DEF Ended, vars
  <2>2. TypesOK' /\ FlowOK' /\ IsCovered'
    BY <2>1 DEF StatementsInv, TypesOK, FlowOK, IsCovered, Covered
  <2>3. RunFollows'
    <3>1. ASSUME NEW i \in 1..Len(frames), NEW x \in Names PROVE TypeAt(i, x)' = TypeAt(i, x)
      BY <2>1 DEF TypeAt
    <3> QED BY <2>1, <3>1, RunStays DEF StatementsInv
  <2> QED BY <2>2, <2>3 DEF StatementsInv
<1>2. CASE AssignVariable
  BY <1>2, AssignKeeps
<1>3. CASE Evaluate \/ ExecuteElse \/ SkipSwitch \/ LeaveWhile
  BY <1>3, AdvancingKeeps
<1>4. CASE Fault \/ Fail \/ JumpAway
  BY <1>4, RaiseKeeps
<1>5. CASE EnterBlock \/ EnterThen \/ EnterArm \/ EnterTry \/ EnterWhile
  BY <1>5, NestingKeeps
<1>6. CASE LeaveList
  BY <1>6, LeaveListKeeps
<1>7. CASE EndIteration
  BY <1>7, EndIterationKeeps
<1>8. CASE Catch
  BY <1>8, CatchKeeps
<1>9. CASE Unwind
  BY <1>9, UnwindKeeps
<1>10. CASE EndBody
  BY <1>10, EndBodyKeeps
<1>11. CASE OthersDefineGlobal
  BY <1>11, OthersDefineGlobalKeeps
<1> QED
  BY <1>1, <1>2, <1>3, <1>4, <1>5, <1>6, <1>7, <1>8, <1>9, <1>10, <1>11 DEF Next

\* The interpreter follows the checker: every statement list in execution is
\* one that the checker has accepted, for the variables and the loops there are.
THEOREM InterpreterFollowsChecker ==
  Spec => []StatementsInv
<1> QED
  BY InitFollows, NextFollows, PTL DEF Spec

\* The scopes follow the statement lists on every path into and out of them.
THEOREM ScopesAlwaysFollowFrames ==
  Spec => []ScopesFollowFrames
<1>1. StatementsInv => ScopesFollowFrames
  BY DEF StatementsInv, TypesOK, ScopesFollowFrames
<1> QED
  BY <1>1, InterpreterFollowsChecker, PTL

\* A variable that an accepted body reads or throws is there, with its type.
THEOREM UsesAreAlwaysAsChecked ==
  Spec => []UsesAreAsChecked
<1>1. StatementsInv => UsesAreAsChecked
  <2> SUFFICES ASSUME StatementsInv, Running
               PROVE  /\ Current.kind = "read" => TypeOf(Current.name) # Unbound
                      /\ Current.kind = "throw" => TypeOf(Current.name) = "exception"
    BY DEF UsesAreAsChecked
  <2>1. TypesOK /\ RunFollows
    BY DEF StatementsInv
  <2>2. PICK run : Follows(run)
    BY <2>1 DEF RunFollows
  <2> DEFINE st == run[Len(frames)]
  <2>3. StatementOK(st, Current) /\ \A x \in Names : TypeIn(st.scopes, x) # Unbound => TypeOf(x) = TypeIn(st.scopes, x)
    BY <2>1, <2>2, CurrentChecked
  <2>4. Current.kind \in {"read", "throw"} => Current.name \in Names
    BY <2>1, CurrentFacts, StatementFacts
  <2>5. "exception" # Unbound
    BY UnboundIsNone DEF Types
  <2> HIDE DEF st
  <2> QED BY <2>3, <2>4, <2>5 DEF StatementOK
<1> QED
  BY <1>1, InterpreterFollowsChecker, PTL

\* No break, continue or return of an accepted body gets out of where it belongs.
THEOREM JumpsAlwaysReachTheirLoop ==
  Spec => []JumpsReachTheirLoop
<1>1. StatementsInv => JumpsReachTheirLoop
  <2> SUFFICES ASSUME StatementsInv, BodyEnds
               PROVE  flow \notin {"break", "continue"} /\ (flow = "return" => IsFunction(program))
    BY DEF JumpsReachTheirLoop
  <2>1. TypesOK /\ RunFollows /\ FlowOK /\ Len(frames) = 1 /\ frames # <<>>
    BY DEF StatementsInv, BodyEnds
  <2>2. ASSUME NEW j \in 1..Len(frames) PROVE frames[j].does # "while"
    <3>1. j = 1
      BY <2>1
    <3> QED BY <2>1, <3>1, AroundLoop
  <2> QED BY <2>1, <2>2 DEF FlowOK
<1> QED
  BY <1>1, InterpreterFollowsChecker, PTL

\* No accepted function that returns a value ends without one.
THEOREM FunctionsAlwaysReturn ==
  Spec => []FunctionsReturn
<1>1. StatementsInv => FunctionsReturn
  <2> SUFFICES ASSUME StatementsInv, BodyEnds, program.of = "value", flow = "normal" PROVE FALSE
    BY DEF FunctionsReturn
  <2>1. IsCovered /\ Len(frames) = 1 /\ frames # <<>> /\ frames[1].rest = <<>>
    <3>1. IsCovered /\ Len(frames) = 1 /\ frames # <<>> /\ Last(frames).rest = <<>>
      BY DEF StatementsInv, BodyEnds
    <3> QED BY <3>1 DEF Last
  <2>2. PICK i \in Nat \ {0} : Covered(i)
    BY <2>1 DEF IsCovered
  <2>3. i = 1 /\ BodyDefinitelyReturns[frames[i].rest]
    BY <2>1, <2>2 DEF Covered
  <2> QED BY <2>1, <2>3, ReturningList, BodiesAreLists
<1> QED
  BY <1>1, InterpreterFollowsChecker, PTL
=============================================================================
