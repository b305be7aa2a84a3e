--------------------------- MODULE CtePhasesProofs ---------------------------
(***************************************************************************)
(* Proofs about the type checker and the lowerer, for every set of         *)
(* programs: whatever order names lead the recursion in, every declaration *)
(* is there when it is looked up, is typed once and, if it is needed,      *)
(* lowered once.                                                           *)
(***************************************************************************)
EXTENDS CtePhases, QueryScopesProofs

-----------------------------------------------------------------------------
(* The inductive invariant.                                                *)

TaskKinds == {"type", "hint", "in", "lower", "cte", "nothing"}

TaskType(p) == [do    : TaskKinds,
                query : QueryId \cup {None},
                cte   : Ctes(p) \cup {NoCte}]

CallType(p) == [query : QueryId, tasks : Seq(TaskType(p)), for : Ctes(p) \cup {NoCte}]

EntryStates == {"absent", "Unvisited", "Typing", "Typed"}

PhasesTypeOK ==
  /\ program \in Programs
  /\ phase \in {"bind", "type", "lower", "lowered", "type error"}
  /\ calls \in Seq(CallType(program))
  /\ entries \in [Ctes(program) -> EntryStates]
  /\ definitions \subseteq Ctes(program)
  /\ lowered \subseteq Ctes(program)
  /\ typings \in [QueryId -> Nat]
  /\ lowerings \in [QueryId -> Nat]

(* The binder has refused the programs that are not well scoped.           *)
BoundFirst ==
  /\ verdict = Bound => WellScoped(program)
  /\ phase # "bind" => verdict = Bound
  /\ phase \in {"bind", "lowered"} => calls = <<>>

(* r is nested in the body or ORDER BY of q.                               *)
IsNested(p, q, r) ==
  \E i \in DOMAIN p.queries[q].items :
    p.queries[q].items[i].name = None /\ p.queries[q].items[i].query = r

(* The task t is one of a call for q.                                      *)
Stands(p, q, t) ==
  /\ t.do = "cte" => Asks(p, q, t.cte)
  /\ t.do \notin {"cte", "nothing"} => IsNested(p, q, t.query)

(* A call is for a query expression of the program and has tasks that      *)
(* stand there, and the declarations around it are known, K.               *)
CallStands(p, K, c) ==
  /\ Encloses(p, p.root, c.query)
  /\ \A t \in Elements(c.tasks) : Stands(p, c.query, t)
  /\ c.for # NoCte => c.query = CteQuery(p, c.for)
  /\ \A d \in Ctes(p) : Encloses(p, d.query, c.query) => d \in K

(* So are all calls C, and those from that for a declaration on are about  *)
(* what it depends on.                                                     *)
AreScoped(p, K, C) ==
  \A i \in DOMAIN C :
    /\ CallStands(p, K, C[i])
    /\ \A j \in 1 .. i : C[j].for # NoCte => IsFor(p, C[j].for, C[i].query)

Registered == {c \in Ctes(program) : entries[c] # "absent"}

CallsAreScoped ==
  /\ phase = "type" => AreScoped(program, Registered, calls)
  /\ phase = "lower" => AreScoped(program, definitions, calls)

IsActive(C, c) == \E i \in DOMAIN C : C[i].for = c

(* A task that will have the query expression r typed is left.             *)
TypesQuery(p, t, r) ==
  \/ t.do \in {"type", "in"} /\ t.query = r
  \/ t.do = "cte" /\ CteQuery(p, t.cte) = r

(* The tasks have all that is directly within q typed.                     *)
TypesParts(p, q, tasks) ==
  \A r \in Parts(p, q) : \E t \in Elements(tasks) : TypesQuery(p, t, r)

ToType(p, C, r) == \E i \in DOMAIN C : \E t \in Elements(C[i].tasks) : TypesQuery(p, t, r)

(* The root is typed, and what a typed query expression has within it is   *)
(* typed too, or still to be.                                              *)
PartsAreTyped(p, C, counts) ==
  /\ counts[p.root] > 0
  /\ \A q \in QueryId : counts[q] > 0 =>
       \A r \in Parts(p, q) : counts[r] > 0 \/ ToType(p, C, r)

ForOnce(C) == \A i, j \in DOMAIN C : C[i].for = C[j].for /\ C[i].for # NoCte => i = j

(* While typing goes on, the declarations being typed are those of the     *)
(* calls, one call for each.                                               *)
TypingGoesOn(p, C, states, counts) ==
  /\ \A c \in Ctes(p) : states[c] = "Typing" <=> IsActive(C, c)
  /\ ForOnce(C)
  /\ PartsAreTyped(p, C, counts)

(* The entry of a declaration says whether its query was typed.            *)
EntriesCount(p, states, counts) ==
  \A c \in Ctes(p) :
    counts[CteQuery(p, c)] = IF states[c] \in {"Typing", "Typed"} THEN 1 ELSE 0

AllTyped ==
  \A q \in QueryId : Encloses(program, program.root, q) =>
    typings[q] > 0 /\ \A c \in OwnCtes(q) : entries[c] = "Typed"

TypingIsKept ==
  /\ EntriesCount(program, entries, typings)
  /\ phase = "bind" => \A q \in QueryId : typings[q] = 0
  /\ phase = "type" => TypingGoesOn(program, calls, entries, typings)
  /\ phase \in {"lower", "lowered"} => AllTyped

(* What the task t asks for is lowered, or being lowered.                  *)
IsLowered(p, counts, t) ==
  /\ t.do = "lower" => counts[t.query] = 1
  /\ t.do = "cte" => counts[CteQuery(p, t.cte)] = 1

ToLower(C, q, t) == \E i \in DOMAIN C : C[i].query = q /\ t \in Elements(C[i].tasks)

Lowers(t, r) == t.do = "lower" /\ t.query = r

(* The nested query expressions a call has left are each left once.        *)
LeftOnce(counts, tasks) ==
  /\ \A t \in Elements(tasks) : t.do = "lower" => counts[t.query] = 0
  /\ \A k, l \in DOMAIN tasks : \A r \in QueryId :
       Lowers(tasks[k], r) /\ Lowers(tasks[l], r) => k = l

IsNamed(p, q, c) == \E name \in Names(p, q) : Meaning(p, q, name) = c

(* A call lowers a query expression, with what it has left once.           *)
IsLowering(p, counts, c) ==
  /\ counts[c.query] = 1
  /\ LeftOnce(counts, c.tasks)
  /\ \A t \in Elements(c.tasks) : t.do = "cte" => IsNamed(p, c.query, t.cte)

QueryOnce(C) == \A i, j \in DOMAIN C : C[i].query = C[j].query => i = j

(* While lowering goes on, a query expression is lowered when it is needed,*)
(* after the one it is nested in and by one call.                          *)
LoweringGoesOn(p, C, done, counts) ==
  /\ counts[p.root] = 1
  /\ \A q \in QueryId : counts[q] \in {0, 1}
  /\ \A q \in QueryId : counts[q] = 1 => q \in Needed(p)
  /\ \A c \in Ctes(p) : counts[CteQuery(p, c)] = 1 <=> c \in done \/ IsActive(C, c)
  /\ \A q, r \in QueryId : IsNested(p, q, r) /\ counts[r] = 1 => counts[q] = 1
  /\ QueryOnce(C)
  /\ \A i \in DOMAIN C : IsLowering(p, counts, C[i])

(* What a lowered query expression asks for is lowered too, or still to be.*)
AsksAreLowered(C, counts) ==
  \A q \in QueryId : counts[q] = 1 =>
    \A t \in Elements(LowerTasks(q)) : IsLowered(program, counts, t) \/ ToLower(C, q, t)

LoweringIsKept ==
  /\ phase \notin {"lower", "lowered"} => lowered = {} /\ \A q \in QueryId : lowerings[q] = 0
  /\ phase \in {"lower", "lowered"} =>
       LoweringGoesOn(program, calls, lowered, lowerings) /\ AsksAreLowered(calls, lowerings)

PhasesInvariant ==
  PhasesTypeOK /\ BoundFirst /\ CallsAreScoped /\ TypingIsKept /\ LoweringIsKept

-----------------------------------------------------------------------------
(* Facts about sequences of tasks.                                         *)

(* What is in a sequence, in two together, and in what follows the first.  *)
LEMMA ElementsFacts ==
  ASSUME NEW S, NEW s \in Seq(S)
  PROVE  /\ Elements(s) \subseteq S
         /\ \A t \in Seq(S) : Elements(s \o t) = Elements(s) \cup Elements(t)
         /\ s # <<>> => /\ s[1] \in Elements(s)
                        /\ Elements(s) = {s[1]} \cup Elements(Tail(s))
<1>1. Len(s) \in Nat /\ DOMAIN s = 1 .. Len(s) /\ \A i \in DOMAIN s : s[i] \in S
  BY LenProperties, ElementOfSeq
<1>2. Elements(s) \subseteq S
  BY <1>1 DEF Elements
<1>3. ASSUME NEW t \in Seq(S) PROVE Elements(s \o t) = Elements(s) \cup Elements(t)
  <2> DEFINE u == s \o t
  <2>1. Len(t) \in Nat /\ DOMAIN t = 1 .. Len(t)
    BY LenProperties
  <2>2. /\ u \in Seq(S) /\ Len(u) = Len(s) + Len(t)
        /\ \A i \in 1 .. Len(s) + Len(t) : u[i] = IF i <= Len(s) THEN s[i] ELSE t[i - Len(s)]
    BY ConcatProperties
  <2>3. DOMAIN u = 1 .. Len(s) + Len(t)
    BY <2>2, LenProperties
  <2> HIDE DEF u
  <2>4. ASSUME NEW i \in DOMAIN u PROVE u[i] \in Elements(s) \cup Elements(t)
    <3>1. CASE i <= Len(s)
      <4>1. i \in DOMAIN s /\ u[i] = s[i]
        BY <1>1, <2>1, <2>2, <2>3, <3>1
      <4> QED
        BY <4>1 DEF Elements
    <3>2. CASE ~ (i <= Len(s))
      <4>1. i - Len(s) \in DOMAIN t /\ u[i] = t[i - Len(s)]
        BY <1>1, <2>1, <2>2, <2>3, <3>2
      <4> QED
        BY <4>1 DEF Elements
    <3> QED
      BY <3>1, <3>2
  <2>5. ASSUME NEW i \in DOMAIN s PROVE s[i] \in Elements(u)
    <3>1. i \in DOMAIN u /\ u[i] = s[i]
      BY <1>1, <2>1, <2>2, <2>3
    <3> QED
      BY <3>1 DEF Elements
  <2>6. ASSUME NEW i \in DOMAIN t PROVE t[i] \in Elements(u)
    <3>1. i + Len(s) \in DOMAIN u /\ u[i + Len(s)] = t[i]
      BY <1>1, <2>1, <2>2, <2>3
    <3> QED
      BY <3>1 DEF Elements
  <2>7. Elements(u) \subseteq Elements(s) \cup Elements(t)
    BY <2>4 DEF Elements
  <2>8. Elements(s) \subseteq Elements(u) /\ Elements(t) \subseteq Elements(u)
    BY <2>5, <2>6 DEF Elements
  <2> QED
    BY <2>7, <2>8 DEF u
<1>4. ASSUME s # <<>> PROVE s[1] \in Elements(s) /\ Elements(s) = {s[1]} \cup Elements(Tail(s))
  <2> DEFINE u == Tail(s)
  <2>1. /\ u \in Seq(S) /\ Len(u) = Len(s) - 1
        /\ \A i \in 1 .. Len(u) : u[i] = s[i + 1]
    BY <1>4, HeadTailProperties
  <2>2. Len(s) \in Nat \ {0} /\ DOMAIN u = 1 .. Len(u)
    BY <1>4, <2>1, EmptySeq, LenProperties
  <2> HIDE DEF u
  <2>3. s[1] \in Elements(s)
    BY <1>1, <2>2 DEF Elements
  <2>4. ASSUME NEW i \in DOMAIN u PROVE u[i] \in Elements(s)
    <3>1. i + 1 \in DOMAIN s /\ u[i] = s[i + 1]
      BY <1>1, <2>1, <2>2
    <3> QED
      BY <3>1 DEF Elements
  <2>5. ASSUME NEW i \in DOMAIN s PROVE s[i] = s[1] \/ s[i] \in Elements(u)
    <3>1. CASE i = 1
      BY <3>1
    <3>2. CASE i # 1
      <4>1. i - 1 \in DOMAIN u /\ u[i - 1] = s[i]
        BY <1>1, <2>1, <2>2, <3>2
      <4> QED
        BY <4>1 DEF Elements
    <3> QED
      BY <3>1, <3>2
  <2>6. Elements(u) \subseteq Elements(s)
    BY <2>4 DEF Elements
  <2>7. Elements(s) \subseteq {s[1]} \cup Elements(u)
    BY <2>5 DEF Elements
  <2> QED
    BY <2>3, <2>6, <2>7 DEF u
<1> QED
  BY <1>2, <1>3, <1>4

-----------------------------------------------------------------------------
(* Facts about the tasks of a call.                                        *)

(* An item asks for something that stands in its query expression.         *)
LEMMA ItemTaskFacts ==
  ASSUME program \in Programs, NEW q \in QueryId, NEW do \in [Places -> TaskKinds \ {"cte"}],
         NEW i \in DOMAIN program.queries[q].items
  PROVE  LET t == ItemTask(q, program.queries[q].items[i], do)
         IN t \in TaskType(program) /\ Stands(program, q, t)
<1> DEFINE item == program.queries[q].items[i]
           meaning == Meaning(program, q, item.name)
<1>1. /\ item \in Item
      /\ item.name = None => item.query \in QueryId
  BY SyntaxFacts
<1>2. CASE item.name = None
  <2> DEFINE t == Task(do[item.place], item.query, NoCte)
  <2>1. item.place \in Places
    BY <1>1 DEF Item, Places
  <2>2. do[item.place] \in TaskKinds \ {"cte"}
    BY <2>1
  <2>3. t \in TaskType(program)
    BY <1>1, <1>2, <2>2 DEF Task, TaskType
  <2>4. IsNested(program, q, item.query)
    BY <1>2 DEF IsNested
  <2>5. Stands(program, q, t)
    BY <2>2, <2>4, Zenon DEF Stands, Task
  <2> QED
    BY <1>2, <2>3, <2>5, Zenon DEF ItemTask
<1>3. CASE item.name # None /\ meaning = NoCte
  <2>1. Nothing \in TaskType(program) /\ Stands(program, q, Nothing)
    BY DEF Nothing, Task, TaskType, TaskKinds, Stands
  <2> QED
    BY <1>3, <2>1 DEF ItemTask
<1>4. CASE item.name # None /\ meaning # NoCte
  <2>1. meaning \in Ctes(program)
    BY <1>4, MeaningFacts
  <2>2. item.name \in Names(program, q)
    BY <1>4 DEF Names, Elements
  <2>3. Asks(program, q, meaning)
    BY <2>1, <2>2 DEF Asks
  <2>4. UseCte(meaning) \in TaskType(program)
    BY <2>1 DEF UseCte, Task, TaskType, TaskKinds
  <2>5. Stands(program, q, UseCte(meaning))
    BY <2>3 DEF UseCte, Task, Stands
  <2> QED
    BY <1>4, <2>4, <2>5 DEF ItemTask
<1> QED
  BY <1>2, <1>3, <1>4

(* So do all items.                                                        *)
LEMMA TasksFacts ==
  ASSUME program \in Programs, NEW q \in QueryId, NEW do \in [Places -> TaskKinds \ {"cte"}]
  PROVE  /\ Tasks(q, do) \in Seq(TaskType(program))
         /\ DOMAIN Tasks(q, do) = DOMAIN program.queries[q].items
         /\ \A i \in DOMAIN program.queries[q].items :
              /\ Tasks(q, do)[i] = ItemTask(q, program.queries[q].items[i], do)
              /\ Tasks(q, do)[i] \in Elements(Tasks(q, do))
         /\ \A t \in Elements(Tasks(q, do)) : Stands(program, q, t)
<1> DEFINE items == program.queries[q].items
           tasks == Tasks(q, do)
<1>1. Len(items) \in Nat /\ DOMAIN items = 1 .. Len(items)
  BY SyntaxFacts
<1>2. tasks = [i \in DOMAIN items |-> ItemTask(q, items[i], do)]
  BY DEF Tasks
<1>3. \A i \in DOMAIN items : tasks[i] \in TaskType(program) /\ Stands(program, q, tasks[i])
  BY <1>2, ItemTaskFacts
<1>4. DOMAIN tasks = DOMAIN items
  BY <1>2
<1>5. tasks \in Seq(TaskType(program))
  <2>1. tasks \in [1 .. Len(items) -> TaskType(program)]
    BY <1>1, <1>2, <1>3
  <2> QED
    BY <1>1, <2>1, SeqDef
<1>6. \A t \in Elements(tasks) : Stands(program, q, t)
  BY <1>3, <1>4 DEF Elements
<1>7. \A i \in DOMAIN items : tasks[i] \in Elements(tasks)
  BY <1>4 DEF Elements
<1> QED
  BY <1>2, <1>4, <1>5, <1>6, <1>7

(* The declarations of a clause are asked for by the query expression.     *)
LEMMA CteTasksFacts ==
  ASSUME program \in Programs, NEW q \in QueryId
  PROVE  /\ CteTasks(q) \in Seq(TaskType(program))
         /\ \A i \in DOMAIN program.queries[q].ctes :
              UseCte(Cte(q, i)) \in Elements(CteTasks(q))
         /\ \A t \in Elements(CteTasks(q)) : Stands(program, q, t)
<1> DEFINE ctes == program.queries[q].ctes
           tasks == CteTasks(q)
<1>1. Len(ctes) \in Nat /\ DOMAIN ctes = 1 .. Len(ctes)
  BY SyntaxFacts
<1>2. tasks = [i \in DOMAIN ctes |-> UseCte(Cte(q, i))]
  BY DEF CteTasks
<1>3. ASSUME NEW i \in DOMAIN ctes
      PROVE  UseCte(Cte(q, i)) \in TaskType(program) /\ Stands(program, q, UseCte(Cte(q, i)))
  <2>1. Cte(q, i) \in Ctes(program) /\ Cte(q, i).query = q
    BY CteFacts DEF Cte
  <2>2. Asks(program, q, Cte(q, i))
    BY <2>1 DEF Asks
  <2> HIDE DEF ctes
  <2> QED
    BY <2>1, <2>2 DEF UseCte, Task, TaskType, TaskKinds, Stands
<1>4. tasks \in Seq(TaskType(program))
  <2>1. tasks \in [1 .. Len(ctes) -> TaskType(program)]
    BY <1>1, <1>2, <1>3
  <2> QED
    BY <1>1, <2>1, SeqDef
<1>5. \A t \in Elements(tasks) : Stands(program, q, t)
  BY <1>2, <1>3 DEF Elements
<1>6. \A i \in DOMAIN ctes : UseCte(Cte(q, i)) \in Elements(tasks)
  BY <1>2 DEF Elements
<1> QED
  BY <1>4, <1>5, <1>6

(* The calls for hints, for typing and for lowering.                       *)
LEMMA HintTasksFacts ==
  ASSUME program \in Programs, NEW q \in QueryId
  PROVE  /\ HintTasks(q) \in Seq(TaskType(program))
         /\ \A t \in Elements(HintTasks(q)) : Stands(program, q, t)
<1> DEFINE do == [place \in Places |-> CASE place = "table"       -> "type"
                                         [] place = "parentheses" -> "hint"
                                         [] OTHER                 -> "nothing"]
<1>1. do \in [Places -> TaskKinds \ {"cte"}]
  BY DEF TaskKinds
<1>2. HintTasks(q) = Tasks(q, do)
  BY DEF HintTasks
<1> QED
  BY <1>1, <1>2, TasksFacts

LEMMA TypeTasksFacts ==
  ASSUME program \in Programs, NEW q \in QueryId
  PROVE  /\ TypeTasks(q) \in Seq(TaskType(program))
         /\ \A t \in Elements(TypeTasks(q)) : Stands(program, q, t)
         /\ TypesParts(program, q, TypeTasks(q))
<1> DEFINE do == [place \in Places |-> IF place = "in" THEN "in" ELSE "type"]
           items == program.queries[q].items
           ctes == program.queries[q].ctes
           hints == IF program.queries[q].setOperation THEN HintTasks(q) ELSE <<>>
           T == TaskType(program)
<1>1. do \in [Places -> TaskKinds \ {"cte"}]
  BY DEF TaskKinds
<1>2. TypeTasks(q) = hints \o Tasks(q, do) \o CteTasks(q)
  BY DEF TypeTasks
<1>3. /\ hints \in Seq(T) /\ Tasks(q, do) \in Seq(T) /\ CteTasks(q) \in Seq(T)
      /\ \A t \in Elements(hints) : Stands(program, q, t)
  <2>1. <<>> \in Seq(T) /\ Elements(<<>>) = {}
    BY EmptySeq DEF Elements
  <2> HIDE DEF do, T
  <2> QED
    BY <1>1, <2>1, HintTasksFacts, TasksFacts, CteTasksFacts DEF T
<1> HIDE DEF hints, do, T
<1>4. hints \o Tasks(q, do) \in Seq(T) /\ hints \o Tasks(q, do) \o CteTasks(q) \in Seq(T)
  BY <1>3, ConcatProperties
<1>5. Elements(TypeTasks(q)) = Elements(hints) \cup Elements(Tasks(q, do)) \cup Elements(CteTasks(q))
  <2>1. Elements(hints \o Tasks(q, do)) = Elements(hints) \cup Elements(Tasks(q, do))
    BY <1>3, ElementsFacts
  <2>2. Elements(hints \o Tasks(q, do) \o CteTasks(q))
          = Elements(hints \o Tasks(q, do)) \cup Elements(CteTasks(q))
    <3> DEFINE s == hints \o Tasks(q, do)
               c == CteTasks(q)
    <3>1. s \in Seq(T) /\ c \in Seq(T)
      BY <1>3, <1>4
    <3> HIDE DEF s, c
    <3>2. Elements(s \o c) = Elements(s) \cup Elements(c)
      BY <3>1, ElementsFacts
    <3> QED
      BY <3>2 DEF s, c
  <2> QED
    BY <1>2, <2>1, <2>2
<1>6. ASSUME NEW r \in Parts(program, q)
      PROVE  \E t \in Elements(TypeTasks(q)) : TypesQuery(program, t, r)
  <2>1. CASE \E i \in DOMAIN ctes : ctes[i].query = r
    <3>1. PICK i \in DOMAIN ctes : ctes[i].query = r
      BY <2>1
    <3>2. UseCte(Cte(q, i)) \in Elements(TypeTasks(q))
      BY <1>5, <3>1, CteTasksFacts
    <3>3. TypesQuery(program, UseCte(Cte(q, i)), r)
      BY <3>1 DEF TypesQuery, UseCte, Task, CteQuery, Cte
    <3> QED
      BY <3>2, <3>3
  <2>2. CASE \E i \in DOMAIN items : items[i].query = r /\ r # None
    <3>1. PICK i \in DOMAIN items : items[i].query = r /\ r # None
      BY <2>2
    <3>2. items[i] \in Item
      BY SyntaxFacts
    <3>3. items[i].name = None /\ items[i].place \in Places
      BY <3>1, <3>2 DEF Item, Places
    <3>4. Tasks(q, do)[i] = Task(do[items[i].place], r, NoCte)
      BY <1>1, <3>1, <3>3, TasksFacts DEF ItemTask
    <3>5. do[items[i].place] \in {"type", "in"}
      BY <3>3 DEF do
    <3>6. TypesQuery(program, Tasks(q, do)[i], r)
      BY <3>4, <3>5 DEF TypesQuery, Task
    <3>7. Tasks(q, do)[i] \in Elements(TypeTasks(q))
      BY <1>1, <1>5, TasksFacts
    <3> QED
      BY <3>6, <3>7
  <2> QED
    BY <2>1, <2>2 DEF Parts, Elements
<1>7. \A t \in Elements(TypeTasks(q)) : Stands(program, q, t)
  BY <1>1, <1>3, <1>5, TasksFacts, CteTasksFacts
<1> QED
  BY <1>2, <1>4, <1>6, <1>7 DEF T, TypesParts

LEMMA LowerTasksFacts ==
  ASSUME program \in Programs, NEW q \in QueryId
  PROVE  /\ LowerTasks(q) \in Seq(TaskType(program))
         /\ \A t \in Elements(LowerTasks(q)) : Stands(program, q, t)
         /\ \A i \in DOMAIN program.queries[q].items :
              /\ LowerTasks(q)[i] \in Elements(LowerTasks(q))
              /\ program.queries[q].items[i].name = None =>
                   LowerTasks(q)[i] = Task("lower", program.queries[q].items[i].query, NoCte)
              /\ LET m == Meaning(program, q, program.queries[q].items[i].name)
                 IN program.queries[q].items[i].name # None /\ m # NoCte =>
                      LowerTasks(q)[i] = UseCte(m)
         /\ \A k, l \in DOMAIN LowerTasks(q) : \A r \in QueryId :
              Lowers(LowerTasks(q)[k], r) /\ Lowers(LowerTasks(q)[l], r) => k = l
         /\ \A t \in Elements(LowerTasks(q)) : t.do = "cte" => IsNamed(program, q, t.cte)
<1> DEFINE do == [place \in Places |-> "lower"]
           items == program.queries[q].items
           tasks == LowerTasks(q)
<1>1. do \in [Places -> TaskKinds \ {"cte"}]
  BY DEF TaskKinds
<1>2. tasks = Tasks(q, do)
  BY DEF LowerTasks
<1>3. ASSUME NEW i \in DOMAIN items, items[i].name = None
      PROVE  tasks[i] = Task("lower", items[i].query, NoCte)
  <2>1. items[i] \in Item
    BY SyntaxFacts
  <2>2. items[i].place \in Places
    BY <2>1 DEF Item, Places
  <2> QED
    BY <1>1, <1>2, <1>3, <2>2, TasksFacts DEF ItemTask
<1>4. ASSUME NEW i \in DOMAIN items, items[i].name # None
      PROVE  IF Meaning(program, q, items[i].name) = NoCte THEN tasks[i] = Nothing
             ELSE tasks[i] = UseCte(Meaning(program, q, items[i].name))
  BY <1>1, <1>2, <1>4, TasksFacts DEF ItemTask
<1>5. DOMAIN tasks = DOMAIN items
  BY <1>1, <1>2, TasksFacts
<1>6. ASSUME NEW i \in DOMAIN items, tasks[i].do = "lower" PROVE items[i].name = None
  <2>1. Nothing.do # "lower" /\ \A c : UseCte(c).do # "lower"
    BY DEF Nothing, UseCte, Task
  <2> HIDE DEF tasks, items
  <2> QED
    BY <1>4, <1>6, <2>1
<1>7. ASSUME NEW k \in DOMAIN tasks, NEW l \in DOMAIN tasks, NEW r \in QueryId,
             Lowers(tasks[k], r), Lowers(tasks[l], r)
      PROVE  k = l
  <2>1. items[k].name = None /\ items[l].name = None
    BY <1>5, <1>6, <1>7 DEF Lowers
  <2>2. tasks[k].query = items[k].query /\ tasks[l].query = items[l].query
    <3>1. \A x : Task("lower", x, NoCte).query = x
      BY DEF Task
    <3> HIDE DEF tasks, items
    <3> QED
      BY <1>3, <1>5, <2>1, <3>1
  <2>3. items[k].query = items[l].query
    <3> HIDE DEF tasks, items
    <3> QED
      BY <1>7, <2>2 DEF Lowers
  <2>4. \A a \in DOMAIN items : \A b \in DOMAIN items :
          items[a].name = None /\ items[b].name = None /\ items[a].query = items[b].query => a = b
    BY PlaceFacts
  <2> HIDE DEF tasks, items
  <2> QED
    BY <1>5, <2>1, <2>3, <2>4
<1>8. ASSUME NEW i \in DOMAIN items, tasks[i].do = "cte"
      PROVE  IsNamed(program, q, tasks[i].cte)
  <2> DEFINE name == items[i].name
  <2>1. \A x, y : Task("lower", x, y).do # "cte"
    BY DEF Task
  <2>2. Nothing.do # "cte" /\ \A c : UseCte(c).cte = c
    BY DEF Nothing, UseCte, Task
  <2>3. name # None
    BY <1>3, <1>8, <2>1
  <2>4. tasks[i].cte = Meaning(program, q, name)
    <3> HIDE DEF tasks, items
    <3> QED
      BY <1>4, <1>8, <2>2, <2>3
  <2>5. name \in Names(program, q)
    BY <2>3 DEF Names, Elements
  <2> HIDE DEF name
  <2> QED
    BY <2>4, <2>5 DEF IsNamed
<1>9. \A t \in Elements(tasks) : t.do = "cte" => IsNamed(program, q, t.cte)
  BY <1>5, <1>8 DEF Elements
<1> QED
  BY <1>1, <1>2, <1>3, <1>4, <1>7, <1>9, TasksFacts

-----------------------------------------------------------------------------
(* Facts about the active calls.                                           *)

(* The calls D go on from C: the task taken up leaves `rest`, and a call   *)
(* may have been added.                                                    *)
Advances(C, D, rest) ==
  LET n == Len(C)
  IN /\ n \in Nat \ {0} /\ DOMAIN C = 1 .. n /\ DOMAIN C \subseteq DOMAIN D
     /\ \A i \in DOMAIN C : /\ D[i].query = C[i].query /\ D[i].for = C[i].for
                            /\ i # n => D[i] = C[i]
     /\ D[n].tasks = rest \o Tail(C[n].tasks)
     /\ Elements(D[n].tasks) = Elements(rest) \cup Elements(Tail(C[n].tasks))
     /\ Elements(C[n].tasks) = {C[n].tasks[1]} \cup Elements(Tail(C[n].tasks))

(* The innermost call and its next task.                                   *)
LEMMA InnermostCall ==
  ASSUME PhasesTypeOK, calls # <<>>
  PROVE  /\ Len(calls) \in Nat \ {0} /\ DOMAIN calls = 1 .. Len(calls)
         /\ Len(calls) \in DOMAIN calls
         /\ ThisCall \in CallType(program) /\ ThisCall = calls[Len(calls)]
         /\ ThisCall.tasks # <<>> => /\ ThisTask \in TaskType(program)
                                     /\ ThisTask \in Elements(ThisCall.tasks)
                                     /\ ThisTask = calls[Len(calls)].tasks[1]
<1>1. calls \in Seq(CallType(program))
  BY DEF PhasesTypeOK
<1>2. Len(calls) \in Nat \ {0} /\ DOMAIN calls = 1 .. Len(calls)
  BY <1>1, EmptySeq, LenProperties
<1>3. Len(calls) \in DOMAIN calls
  BY <1>2
<1>4. ThisCall \in CallType(program) /\ ThisCall = calls[Len(calls)]
  BY <1>1, <1>2, <1>3, ElementOfSeq DEF ThisCall
<1>5. ASSUME ThisCall.tasks # <<>>
      PROVE  /\ ThisTask \in TaskType(program)
             /\ ThisTask \in Elements(ThisCall.tasks)
             /\ ThisTask = calls[Len(calls)].tasks[1]
  <2>1. ThisCall.tasks \in Seq(TaskType(program))
    BY <1>4 DEF CallType
  <2>2. ThisTask \in Elements(ThisCall.tasks) /\ Elements(ThisCall.tasks) \subseteq TaskType(program)
    BY <1>5, <2>1, ElementsFacts DEF ThisTask
  <2> QED
    BY <1>4, <2>2 DEF ThisTask
<1> QED
  BY <1>2, <1>3, <1>4, <1>5

(* The calls when a task is taken up, without and with a call for it.      *)
LEMMA AdvanceFacts ==
  ASSUME PhasesTypeOK, calls # <<>>, ThisCall.tasks # <<>>,
         NEW rest \in Seq(TaskType(program))
  PROVE  /\ TakenUp(rest) \in Seq(CallType(program))
         /\ DOMAIN TakenUp(rest) = DOMAIN calls
         /\ Advances(calls, TakenUp(rest), rest)
         /\ \A f \in CallType(program) :
              LET D == Append(TakenUp(rest), f)
              IN /\ D \in Seq(CallType(program))
                 /\ DOMAIN D = 1 .. Len(calls) + 1 /\ D[Len(calls) + 1] = f
                 /\ Advances(calls, D, rest)
<1> DEFINE n == Len(calls)
           tasks == calls[n].tasks
           left == rest \o Tail(tasks)
           new == TakenUp(rest)
           T == TaskType(program)
<1>1. /\ n \in Nat \ {0} /\ DOMAIN calls = 1 .. n /\ n \in DOMAIN calls
      /\ ThisCall \in CallType(program) /\ ThisCall = calls[n]
      /\ calls \in Seq(CallType(program))
  BY InnermostCall DEF PhasesTypeOK
<1>2. tasks \in Seq(T) /\ tasks # <<>>
  BY <1>1 DEF CallType
<1>3. new = [calls EXCEPT ![n].tasks = left]
  BY DEF TakenUp
<1>4. left \in Seq(T) /\ Elements(left) = Elements(rest) \cup Elements(Tail(tasks))
  <2> DEFINE s == Tail(tasks)
  <2>1. s \in Seq(T)
    <3> HIDE DEF tasks, T
    <3> QED
      BY <1>2, HeadTailProperties
  <2>2. rest \in Seq(T)
    OBVIOUS
  <2> HIDE DEF s, T
  <2>3. rest \o s \in Seq(T)
    BY <2>1, <2>2, ConcatProperties
  <2>4. Elements(rest \o s) = Elements(rest) \cup Elements(s)
    BY <2>1, <2>2, ElementsFacts
  <2> QED
    BY <2>3, <2>4 DEF s
<1>5. Elements(tasks) = {tasks[1]} \cup Elements(Tail(tasks))
  <2> HIDE DEF tasks, T
  <2> QED
    BY <1>2, ElementsFacts
<1> HIDE DEF left
<1>6. [calls[n] EXCEPT !.tasks = left] \in CallType(program)
  BY <1>1, <1>4 DEF CallType
<1>7. new = [calls EXCEPT ![n] = [calls[n] EXCEPT !.tasks = left]]
  BY <1>3
<1>8. /\ new \in Seq(CallType(program)) /\ Len(new) = n
      /\ \A i \in 1 .. n : new[i] = IF i = n THEN [calls[n] EXCEPT !.tasks = left] ELSE calls[i]
  BY <1>1, <1>6, <1>7, ExceptSeq
<1>9. DOMAIN new = 1 .. n
  BY <1>8, LenProperties
<1>10. /\ \A i \in 1 .. n : /\ new[i].query = calls[i].query /\ new[i].for = calls[i].for
                            /\ i # n => new[i] = calls[i]
       /\ new[n].tasks = left
  <2>1. \A i \in 1 .. n : calls[i] \in CallType(program)
    BY <1>1, ElementOfSeq
  <2>2. new[n] = [calls[n] EXCEPT !.tasks = left]
    BY <1>1, <1>8
  <2>3. new[n].query = calls[n].query /\ new[n].for = calls[n].for /\ new[n].tasks = left
    BY <1>1, <2>1, <2>2 DEF CallType
  <2> QED
    BY <1>8, <2>3
<1> HIDE DEF new, n
<1>11. ASSUME NEW D, \A i \in 1 .. n : D[i] = new[i], 1 .. n \subseteq DOMAIN D
       PROVE  Advances(calls, D, rest)
  <2>1. n \in 1 .. n
    BY <1>1
  <2> QED
    BY <1>1, <1>4, <1>5, <1>10, <1>11, <2>1, Zenon DEF Advances, n, left
<1>12. Advances(calls, new, rest)
  BY <1>9, <1>11
<1>13. ASSUME NEW f \in CallType(program)
       PROVE  /\ Append(new, f) \in Seq(CallType(program))
              /\ DOMAIN Append(new, f) = 1 .. n + 1 /\ Append(new, f)[n + 1] = f
              /\ Advances(calls, Append(new, f), rest)
  <2>1. /\ Append(new, f) \in Seq(CallType(program)) /\ Len(Append(new, f)) = n + 1
        /\ \A i \in 1 .. n : Append(new, f)[i] = new[i]
        /\ Append(new, f)[n + 1] = f
    BY <1>8, AppendProperties
  <2>2. DOMAIN Append(new, f) = 1 .. n + 1
    BY <2>1, LenProperties
  <2>3. 1 .. n \subseteq 1 .. n + 1
    BY <1>1
  <2> QED
    BY <1>11, <2>1, <2>2, <2>3
<1> QED
  BY <1>1, <1>8, <1>9, <1>12, <1>13 DEF new, n

(* The calls when the innermost one has returned.                          *)
LEMMA PoppedFacts ==
  ASSUME PhasesTypeOK, calls # <<>>
  PROVE  /\ Popped \in Seq(CallType(program))
         /\ DOMAIN Popped = 1 .. Len(calls) - 1
         /\ \A i \in DOMAIN Popped : i \in DOMAIN calls /\ Popped[i] = calls[i]
         /\ Len(calls) = 1 => Popped = <<>>
<1> DEFINE n == Len(calls)
<1>1. /\ n \in Nat \ {0} /\ DOMAIN calls = 1 .. n
      /\ calls \in Seq(CallType(program))
  BY InnermostCall DEF PhasesTypeOK
<1>2. \A i \in 1 .. n - 1 : calls[i] \in CallType(program)
  BY <1>1, ElementOfSeq
<1>3. /\ Popped \in Seq(CallType(program))
      /\ Len(Popped) = IF 1 <= n - 1 THEN n - 1 - 1 + 1 ELSE 0
      /\ \A i \in 1 .. n - 1 - 1 + 1 : Popped[i] = calls[1 + i - 1]
  <2>1. n - 1 \in Int
    BY <1>1
  <2> QED
    BY <1>2, <2>1, SubSeqProperties DEF Popped
<1>4. Len(Popped) = n - 1 /\ \A i \in 1 .. n - 1 : Popped[i] = calls[i]
  <2> HIDE DEF n
  <2>1. n - 1 - 1 + 1 = n - 1 /\ (1 <= n - 1 \/ n - 1 = 0)
    BY <1>1
  <2>2. Len(Popped) = n - 1
    BY <1>3, <2>1
  <2>3. ASSUME NEW i \in 1 .. n - 1 PROVE Popped[i] = calls[i]
    <3>1. i \in 1 .. n - 1 - 1 + 1 /\ 1 + i - 1 = i
      BY <1>1, <2>1
    <3>2. Popped[i] = calls[1 + i - 1]
      BY <1>3, <3>1
    <3> QED
      BY <3>1, <3>2
  <2> QED
    BY <2>2, <2>3
<1>5. DOMAIN Popped = 1 .. n - 1
  BY <1>3, <1>4, LenProperties
<1>6. \A i \in 1 .. n - 1 : i \in DOMAIN calls
  BY <1>1
<1>7. n = 1 => Popped = <<>>
  BY <1>3, <1>4, EmptySeq
<1> QED
  BY <1>3, <1>4, <1>5, <1>6, <1>7

(* Whose calls are active when a call was added or has returned.           *)
LEMMA ActiveFacts ==
  ASSUME NEW C, NEW D, NEW rest, Advances(C, D, rest)
  PROVE  /\ DOMAIN D = DOMAIN C =>
              /\ \A c : IsActive(D, c) <=> IsActive(C, c)
              /\ ForOnce(C) => ForOnce(D)
         /\ \A f : DOMAIN D = 1 .. Len(C) + 1 /\ D[Len(C) + 1] = f =>
              /\ \A c : IsActive(D, c) <=> IsActive(C, c) \/ f.for = c
              /\ ForOnce(C) /\ (f.for = NoCte \/ ~ IsActive(C, f.for)) => ForOnce(D)
<1> DEFINE n == Len(C)
<1>1. /\ n \in Nat \ {0} /\ DOMAIN C = 1 .. n
      /\ \A i \in DOMAIN C : i \in DOMAIN D /\ D[i].for = C[i].for
  BY DEF Advances
<1>2. ASSUME DOMAIN D = DOMAIN C
      PROVE  /\ \A c : IsActive(D, c) <=> IsActive(C, c)
             /\ ForOnce(C) => ForOnce(D)
  BY <1>1, <1>2 DEF IsActive, ForOnce
<1>3. ASSUME NEW f, DOMAIN D = 1 .. n + 1, D[n + 1] = f
      PROVE  /\ \A c : IsActive(D, c) <=> IsActive(C, c) \/ f.for = c
             /\ ForOnce(C) /\ (f.for = NoCte \/ ~ IsActive(C, f.for)) => ForOnce(D)
  <2>1. n + 1 \in DOMAIN D /\ \A i \in DOMAIN D : i \in DOMAIN C \/ i = n + 1
    BY <1>1, <1>3
  <2> HIDE DEF n
  <2>2. \A c : IsActive(D, c) <=> IsActive(C, c) \/ f.for = c
    BY <1>1, <1>3, <2>1 DEF IsActive
  <2>3. ASSUME ForOnce(C), f.for = NoCte \/ ~ IsActive(C, f.for) PROVE ForOnce(D)
    <3>1. ASSUME NEW i \in DOMAIN D, NEW j \in DOMAIN D, D[i].for = D[j].for, D[i].for # NoCte
          PROVE  i = j
      <4>1. CASE i \in DOMAIN C /\ j \in DOMAIN C
        BY <1>1, <2>3, <3>1, <4>1 DEF ForOnce
      <4>2. CASE i = n + 1 /\ j \in DOMAIN C
        BY <1>1, <1>3, <2>3, <3>1, <4>2 DEF IsActive
      <4>3. CASE i \in DOMAIN C /\ j = n + 1
        BY <1>1, <1>3, <2>3, <3>1, <4>3 DEF IsActive
      <4> QED
        BY <2>1, <4>1, <4>2, <4>3
    <3> QED
      BY <3>1 DEF ForOnce
  <2> QED
    BY <2>2, <2>3
<1> QED
  BY <1>2, <1>3

LEMMA ActiveLess ==
  ASSUME NEW C, NEW D, Len(C) \in Nat \ {0}, DOMAIN C = 1 .. Len(C),
         DOMAIN D = 1 .. Len(C) - 1, \A i \in DOMAIN D : i \in DOMAIN C /\ D[i] = C[i]
  PROVE  /\ \A c : IsActive(C, c) <=> IsActive(D, c) \/ C[Len(C)].for = c
         /\ ForOnce(C) => ForOnce(D)
         /\ ForOnce(C) /\ C[Len(C)].for # NoCte => ~ IsActive(D, C[Len(C)].for)
<1>1. /\ Len(C) \in DOMAIN C /\ Len(C) \notin DOMAIN D
      /\ \A i \in DOMAIN C : i \in DOMAIN D \/ i = Len(C)
  OBVIOUS
<1>2. \A c : IsActive(C, c) <=> IsActive(D, c) \/ C[Len(C)].for = c
  BY <1>1 DEF IsActive
<1>3. ForOnce(C) => ForOnce(D)
  BY DEF ForOnce
<1>4. ForOnce(C) /\ C[Len(C)].for # NoCte => ~ IsActive(D, C[Len(C)].for)
  BY <1>1 DEF ForOnce, IsActive
<1> QED
  BY <1>2, <1>3, <1>4

-----------------------------------------------------------------------------
(* Calls stay scoped.                                                      *)

(* The declarations of a clause.                                           *)
LEMMA OwnCtesFacts ==
  ASSUME NEW q \in QueryId
  PROVE  OwnCtes(q) = {c \in Ctes(program) : c.query = q}
<1>1. ASSUME NEW c \in OwnCtes(q) PROVE c \in Ctes(program) /\ c.query = q
  <2>1. PICK i \in DOMAIN program.queries[q].ctes : c = Cte(q, i)
    BY DEF OwnCtes
  <2>2. Cte(q, i).query = q
    BY DEF Cte
  <2>3. Cte(q, i) \in Ctes(program)
    BY CteFacts
  <2> QED
    BY <2>1, <2>2, <2>3
<1>2. ASSUME NEW c \in Ctes(program), c.query = q PROVE c \in OwnCtes(q)
  <2>1. PICK r \in QueryId : \E i \in DOMAIN program.queries[r].ctes : c = Cte(r, i)
    BY CteFacts
  <2>2. PICK i \in DOMAIN program.queries[r].ctes : c = Cte(r, i)
    BY <2>1
  <2>3. r = q
    BY <1>2, <2>2 DEF Cte
  <2> QED
    BY <2>2, <2>3 DEF OwnCtes
<1> QED
  BY <1>1, <1>2

(* What is nested in q is a part of it, and the query of no declaration.   *)
LEMMA NestedFacts ==
  ASSUME NEW p \in Programs, NEW q \in QueryId, NEW r, IsNested(p, q, r)
  PROVE  /\ r \in QueryId /\ r \in Parts(p, q) /\ r # q /\ r # p.root
         /\ \A c \in Ctes(p) : CteQuery(p, c) # r
         /\ \A x \in QueryId : IsNested(p, x, r) => x = q
<1>1. PICK i \in DOMAIN p.queries[q].items :
        p.queries[q].items[i].name = None /\ p.queries[q].items[i].query = r
  BY DEF IsNested
<1>2. r \in QueryId
  BY <1>1, SyntaxFacts
<1>3. r \in Parts(p, q) /\ r # p.root
  BY <1>1, PartsFacts
<1>4. r # q
  BY <1>3, NoPartOfItself
<1>5. ASSUME NEW c \in Ctes(p) PROVE CteQuery(p, c) # r
  BY <1>1, CteQueryFacts
<1>6. ASSUME NEW x \in QueryId, IsNested(p, x, r) PROVE x = q
  <2>1. r \in Parts(p, x)
    BY <1>6, PartsFacts DEF IsNested
  <2> QED
    BY <1>3, <2>1, PartsFacts
<1> QED
  BY <1>2, <1>3, <1>4, <1>5, <1>6

(* When the innermost call goes on, the calls there are stay scoped.       *)
LEMMA ScopedTaken ==
  ASSUME NEW p \in Programs, NEW K, NEW L, K \subseteq L, NEW C, NEW D, NEW rest,
         AreScoped(p, K, C), Advances(C, D, rest),
         \A t \in Elements(rest) : Stands(p, C[Len(C)].query, t)
  PROVE  /\ \A i \in DOMAIN C :
              /\ CallStands(p, L, D[i])
              /\ \A j \in 1 .. i : D[j].for # NoCte => IsFor(p, D[j].for, D[i].query)
         /\ DOMAIN D = DOMAIN C => AreScoped(p, L, D)
<1>1. /\ Len(C) \in Nat \ {0} /\ DOMAIN C = 1 .. Len(C)
      /\ \A i \in DOMAIN C : /\ D[i].query = C[i].query /\ D[i].for = C[i].for
                             /\ i # Len(C) => D[i].tasks = C[i].tasks
      /\ Elements(D[Len(C)].tasks) \subseteq Elements(rest) \cup Elements(C[Len(C)].tasks)
  BY DEF Advances
<1>2. ASSUME NEW i \in DOMAIN C PROVE CallStands(p, L, D[i])
  <2>1. CallStands(p, K, C[i])
    BY DEF AreScoped
  <2>2. \A t \in Elements(C[i].tasks) : Stands(p, C[i].query, t)
    BY <2>1 DEF CallStands
  <2>3. \A t \in Elements(D[i].tasks) : Stands(p, D[i].query, t)
    BY <1>1, <2>2
  <2> QED
    BY <1>1, <2>1, <2>3 DEF CallStands
<1>3. ASSUME NEW i \in DOMAIN C, NEW j \in 1 .. i, D[j].for # NoCte
      PROVE  IsFor(p, D[j].for, D[i].query)
  <2>1. j \in DOMAIN C
    BY <1>1
  <2> QED
    BY <1>1, <1>3, <2>1 DEF AreScoped
<1> QED
  BY <1>2, <1>3 DEF AreScoped

(* So they do when a call is added for what one of its tasks is about.     *)
LEMMA ScopedPushed ==
  ASSUME NEW p \in Programs, NEW K, NEW L, K \subseteq L,
         NEW C \in Seq(CallType(p)), NEW D, NEW rest, NEW f \in CallType(p),
         AreScoped(p, K, C), Advances(C, D, rest),
         \A t \in Elements(rest) : Stands(p, C[Len(C)].query, t),
         DOMAIN D = 1 .. Len(C) + 1, D[Len(C) + 1] = f,
         \A t \in Elements(f.tasks) : Stands(p, f.query, t),
         \A d \in Ctes(p) : d.query = f.query => d \in L,
         \/ f.for = NoCte /\ IsNested(p, C[Len(C)].query, f.query)
         \/ Asks(p, C[Len(C)].query, f.for) /\ f.query = CteQuery(p, f.for)
  PROVE  AreScoped(p, L, D)
<1> DEFINE n == Len(C)
           q == C[n].query
           r == f.query
<1>1. /\ n \in Nat \ {0} /\ DOMAIN C = 1 .. n /\ n \in DOMAIN C
      /\ \A i \in DOMAIN C : D[i].for = C[i].for
  BY DEF Advances
<1>2. \A i \in DOMAIN C : C[i] \in CallType(p)
  BY <1>1, ElementOfSeq
<1>3. q \in QueryId /\ r \in QueryId
  BY <1>1, <1>2 DEF CallType
<1>4. /\ CallStands(p, K, C[n])
      /\ \A j \in DOMAIN C : C[j].for # NoCte => IsFor(p, C[j].for, q)
  BY <1>1 DEF AreScoped
<1>5. /\ Encloses(p, p.root, q)
      /\ \A d \in Ctes(p) : Encloses(p, d.query, q) => d \in K
  BY <1>4 DEF CallStands
<1> HIDE DEF n, q, r
<1>6. Encloses(p, p.root, r) /\ \A d \in QueryId : Encloses(p, d, r) => d = r \/ Encloses(p, d, q)
  <2>1. CASE IsNested(p, q, r)
    <3>1. r \in Parts(p, q) /\ p.root \in QueryId
      BY <1>3, <2>1, NestedFacts, SyntaxFacts
    <3>2. Encloses(p, p.root, r)
      BY <1>3, <1>5, <3>1, EnclosesDown
    <3> QED
      BY <1>3, <3>1, <3>2, EnclosesUp
  <2>2. CASE Asks(p, q, f.for) /\ r = CteQuery(p, f.for)
    BY <1>3, <1>5, <2>2, AskedFacts
  <2> QED
    BY <2>1, <2>2 DEF n, q, r
<1>7. ASSUME NEW c \in Ctes(p), IsFor(p, c, q) PROVE IsFor(p, c, r)
  <2>1. CASE IsNested(p, q, r)
    <3>1. r \in Parts(p, q)
      BY <1>3, <2>1, NestedFacts
    <3> QED
      BY <1>3, <1>7, <3>1, IsForFacts
  <2>2. CASE Asks(p, q, f.for) /\ r = CteQuery(p, f.for)
    BY <1>3, <1>7, <2>2, IsForFacts
  <2> QED
    BY <2>1, <2>2 DEF n, q, r
<1>8. CallStands(p, L, f)
  <2>1. ASSUME NEW d \in Ctes(p), Encloses(p, d.query, r) PROVE d \in L
    BY <1>5, <1>6, <2>1, CteQueryFacts DEF r
  <2>2. f.for # NoCte => r = CteQuery(p, f.for)
    BY DEF r
  <2> QED
    BY <1>6, <2>1, <2>2 DEF CallStands, r
<1>9. ASSUME NEW i \in DOMAIN D
      PROVE  /\ CallStands(p, L, D[i])
             /\ \A j \in 1 .. i : D[j].for # NoCte => IsFor(p, D[j].for, D[i].query)
  <2>1. CASE i \in DOMAIN C
    BY <2>1, ScopedTaken
  <2>2. CASE i = n + 1
    <3>1. D[i] = f
      BY <2>2 DEF n
    <3>2. ASSUME NEW j \in 1 .. n, D[j].for # NoCte PROVE IsFor(p, D[j].for, r)
      <4>1. D[j].for = C[j].for /\ IsFor(p, C[j].for, q)
        BY <1>1, <1>4, <3>2
      <4>2. C[j].for \in Ctes(p)
        BY <1>1, <1>2, <3>2, <4>1 DEF CallType
      <4> QED
        BY <1>7, <4>1, <4>2
    <3>3. ASSUME f.for # NoCte PROVE IsFor(p, f.for, r)
      <4>1. f.for \in Ctes(p) /\ r = CteQuery(p, f.for)
        BY <3>3 DEF CallType, r
      <4> QED
        BY <4>1, IsForFacts
    <3>4. \A j \in 1 .. i : j \in 1 .. n \/ j = i
      BY <1>1, <2>2
    <3>5. \A j \in 1 .. i : D[j].for # NoCte => IsFor(p, D[j].for, r)
      BY <3>1, <3>2, <3>3, <3>4
    <3> QED
      BY <1>8, <3>1, <3>5 DEF r
  <2>3. i \in DOMAIN C \/ i = n + 1
    BY <1>1 DEF n
  <2> QED
    BY <2>1, <2>2, <2>3
<1> QED
  BY <1>9 DEF AreScoped

(* The first call is for the root.                                         *)
LEMMA ScopedFirst ==
  ASSUME NEW p \in Programs, NEW L, NEW f,
         f.query = p.root, f.for = NoCte,
         \A t \in Elements(f.tasks) : Stands(p, f.query, t),
         \A d \in Ctes(p) : d.query = p.root => d \in L
  PROVE  AreScoped(p, L, <<f>>)
<1>1. p.root \in QueryId
  BY ProgramsAssumption DEF Program
<1>2. Encloses(p, p.root, p.root)
  BY <1>1, EnclosesDown
<1>3. ASSUME NEW d \in Ctes(p), Encloses(p, d.query, p.root) PROVE d \in L
  <2>1. d.query = p.root
    BY <1>3, CteQueryFacts, EnclosesRoot
  <2> QED
    BY <2>1
<1>4. CallStands(p, L, f)
  BY <1>2, <1>3 DEF CallStands
<1>5. DOMAIN <<f>> = {1} /\ <<f>>[1] = f /\ 1 .. 1 = {1}
  OBVIOUS
<1> QED
  BY <1>4, <1>5 DEF AreScoped

(* And the calls left are scoped when one returns.                         *)
LEMMA ScopedPopped ==
  ASSUME NEW p, NEW K, NEW C, NEW D, AreScoped(p, K, C), DOMAIN D = 1 .. Len(C) - 1,
         Len(C) \in Nat, \A i \in DOMAIN D : i \in DOMAIN C /\ D[i] = C[i]
  PROVE  AreScoped(p, K, D)
<1>1. ASSUME NEW i \in DOMAIN D, NEW j \in 1 .. i PROVE j \in DOMAIN D
  OBVIOUS
<1> QED
  BY <1>1 DEF AreScoped

-----------------------------------------------------------------------------
(* Every step keeps the types.                                             *)

LEMMA FrameFacts ==
  ASSUME program \in Programs, NEW q \in QueryId, NEW for \in Ctes(program) \cup {NoCte},
         NEW tasks \in Seq(TaskType(program))
  PROVE  /\ Frame(q, tasks, for) \in CallType(program)
         /\ Frame(q, tasks, for).query = q
         /\ Frame(q, tasks, for).tasks = tasks
         /\ Frame(q, tasks, for).for = for
BY DEF Frame, CallType

(* What is registered, and what is counted.                                *)
LEMMA RegisterFacts ==
  ASSUME PhasesTypeOK, NEW q \in QueryId
  PROVE  /\ Register(q) \in [Ctes(program) -> EntryStates]
         /\ \A c \in Ctes(program) :
              /\ Register(q)[c] = entries[c] \/ Register(q)[c] = "Unvisited"
              /\ entries[c] # "absent" => Register(q)[c] = entries[c]
              /\ entries[c] # "absent" \/ c.query = q => Register(q)[c] # "absent"
         /\ Registered \subseteq {c \in Ctes(program) : Register(q)[c] # "absent"}
<1>1. entries \in [Ctes(program) -> EntryStates]
  BY DEF PhasesTypeOK
<1>2. OwnCtes(q) = {c \in Ctes(program) : c.query = q}
  BY OwnCtesFacts
<1>3. /\ DOMAIN Register(q) = Ctes(program)
      /\ \A c \in Ctes(program) :
           Register(q)[c] = IF c \in OwnCtes(q) /\ entries[c] = "absent" THEN "Unvisited"
                            ELSE entries[c]
  BY <1>1 DEF Register
<1>4. Register(q) \in [Ctes(program) -> EntryStates]
  BY <1>1 DEF Register, EntryStates
<1>5. \A c \in Ctes(program) :
        /\ Register(q)[c] = entries[c] \/ Register(q)[c] = "Unvisited"
        /\ entries[c] # "absent" => Register(q)[c] = entries[c]
        /\ entries[c] # "absent" \/ c.query = q => Register(q)[c] # "absent"
  BY <1>2, <1>3
<1> QED
  BY <1>4, <1>5 DEF Registered

LEMMA CountedFacts ==
  ASSUME NEW history \in [QueryId -> Nat], NEW q \in QueryId
  PROVE  /\ Counted(history, q) \in [QueryId -> Nat]
         /\ Counted(history, q)[q] = history[q] + 1
         /\ \A r \in QueryId : r # q => Counted(history, q)[r] = history[r]
BY DEF Counted

(* What the innermost call is about to do.                                 *)
LEMMA ThisTaskFacts ==
  ASSUME PhasesInvariant, NEW p \in {"type", "lower"}, NEW do, Does(p, do)
  PROVE  /\ phase = p /\ calls # <<>> /\ ThisCall.tasks # <<>>
         /\ ThisCall \in CallType(program) /\ ThisCall = calls[Len(calls)]
         /\ ThisCall.query \in QueryId /\ Encloses(program, program.root, ThisCall.query)
         /\ ThisTask \in TaskType(program) /\ ThisTask.do = do
         /\ ThisTask \in Elements(ThisCall.tasks)
         /\ Stands(program, ThisCall.query, ThisTask)
         /\ do = "cte" => /\ ThisTask.cte \in Ctes(program)
                          /\ CteQuery(program, ThisTask.cte) \in QueryId
                          /\ Asks(program, ThisCall.query, ThisTask.cte)
                          /\ ~ IsActive(calls, ThisTask.cte)
         /\ do \in {"type", "hint", "in", "lower"} =>
              /\ ThisTask.query \in QueryId
              /\ IsNested(program, ThisCall.query, ThisTask.query)
<1> DEFINE q == ThisCall.query
           t == ThisTask
           K == IF p = "type" THEN Registered ELSE definitions
<1>1. PhasesTypeOK /\ program \in Programs
  BY DEF PhasesInvariant, PhasesTypeOK
<1>2. phase = p /\ calls # <<>> /\ ThisCall.tasks # <<>> /\ t.do = do
  BY DEF Does
<1>3. /\ Len(calls) \in DOMAIN calls /\ DOMAIN calls = 1 .. Len(calls)
      /\ ThisCall \in CallType(program) /\ ThisCall = calls[Len(calls)]
      /\ t \in TaskType(program) /\ t \in Elements(ThisCall.tasks)
  BY <1>1, <1>2, InnermostCall
<1>4. q \in QueryId
  BY <1>3 DEF CallType
<1>5. AreScoped(program, K, calls)
  BY <1>2 DEF PhasesInvariant, CallsAreScoped
<1> HIDE DEF K
<1>6. CallStands(program, K, ThisCall)
  BY <1>3, <1>5 DEF AreScoped
<1>7. Encloses(program, program.root, q) /\ Stands(program, q, t)
  BY <1>3, <1>6 DEF CallStands
<1>8. ASSUME do = "cte"
      PROVE  /\ t.cte \in Ctes(program)
             /\ CteQuery(program, t.cte) \in QueryId
             /\ Asks(program, q, t.cte)
             /\ ~ IsActive(calls, t.cte)
  <2>1. Asks(program, q, t.cte)
    BY <1>2, <1>7, <1>8 DEF Stands
  <2>2. t.cte \in Ctes(program)
    BY <2>1 DEF Asks
  <2>3. CteQuery(program, t.cte) \in QueryId /\ t.cte # NoCte
    BY <1>1, <2>2, CteQueryFacts
  <2>4. ASSUME IsActive(calls, t.cte) PROVE FALSE
    <3>1. PICK j \in DOMAIN calls : calls[j].for = t.cte
      BY <2>4 DEF IsActive
    <3>2. IsFor(program, t.cte, q)
      BY <1>3, <1>5, <2>3, <3>1 DEF AreScoped
    <3>3. WellScoped(program)
      BY <1>2 DEF PhasesInvariant, BoundFirst
    <3> QED
      BY <1>1, <1>4, <1>7, <2>1, <3>2, <3>3, AskedIsNotFor
  <2> QED
    BY <2>1, <2>2, <2>3, <2>4
<1>9. ASSUME do \in {"type", "hint", "in", "lower"}
      PROVE  t.query \in QueryId /\ IsNested(program, q, t.query)
  <2>1. IsNested(program, q, t.query)
    BY <1>2, <1>7, <1>9 DEF Stands
  <2> QED
    BY <1>1, <1>4, <2>1, NestedFacts
<1> QED
  BY <1>2, <1>3, <1>4, <1>7, <1>8, <1>9

(* A query expression is gone into: what a call for it gives the calls.    *)
LEMMA PushFacts ==
  ASSUME PhasesTypeOK, calls # <<>>, ThisCall.tasks # <<>>, NEW q \in QueryId,
         NEW for \in Ctes(program) \cup {NoCte},
         NEW rest \in Seq(TaskType(program)), NEW tasks \in Seq(TaskType(program))
  PROVE  LET f == Frame(q, tasks, for)
             D == Append(TakenUp(rest), f)
         IN /\ f \in CallType(program)
            /\ f.query = q /\ f.tasks = tasks /\ f.for = for
            /\ D \in Seq(CallType(program))
            /\ DOMAIN D = 1 .. Len(calls) + 1 /\ D[Len(calls) + 1] = f
            /\ Advances(calls, D, rest)
<1> DEFINE f == Frame(q, tasks, for)
<1>1. /\ f \in CallType(program)
      /\ f.query = q /\ f.tasks = tasks /\ f.for = for
  <2>1. program \in Programs
    BY DEF PhasesTypeOK
  <2>2. Frame(q, tasks, for) \in CallType(program)
    BY <2>1, FrameFacts
  <2>3. f.query = q /\ f.tasks = tasks /\ f.for = for
    BY DEF Frame
  <2> QED
    BY <2>2, <2>3
<1> HIDE DEF f
<1>2. /\ Append(TakenUp(rest), f) \in Seq(CallType(program))
      /\ DOMAIN Append(TakenUp(rest), f) = 1 .. Len(calls) + 1
      /\ Append(TakenUp(rest), f)[Len(calls) + 1] = f
      /\ Advances(calls, Append(TakenUp(rest), f), rest)
  BY <1>1, AdvanceFacts
<1> QED
  BY <1>1, <1>2 DEF f

(* No task is left in place of what was taken up, or that of typing.       *)
LEMMA RestFacts ==
  ASSUME NEW p, NEW t \in TaskType(p)
  PROVE  /\ <<>> \in Seq(TaskType(p)) /\ Elements(<<>>) = {}
         /\ LET u == Task("type", t.query, NoCte)
            IN <<u>> \in Seq(TaskType(p)) /\ Elements(<<u>>) = {u}
<1> DEFINE u == Task("type", t.query, NoCte)
<1>1. <<>> \in Seq(TaskType(p)) /\ Elements(<<>>) = {}
  BY EmptySeq DEF Elements
<1>2. u \in TaskType(p)
  BY DEF Task, TaskType, TaskKinds
<1> HIDE DEF u
<1>3. <<u>> \in Seq(TaskType(p)) /\ Elements(<<u>>) = {u}
  BY <1>2 DEF Elements
<1> QED
  BY <1>1, <1>3 DEF u

LEMMA FirstCall ==
  ASSUME NEW p, NEW f \in CallType(p)
  PROVE  /\ <<f>> \in Seq(CallType(p)) /\ <<f>> # <<>> /\ Len(<<f>>) = 1
         /\ DOMAIN <<f>> = {1} /\ <<f>>[1] = f
  OBVIOUS

(* What is left in place of the query of IN, when its hints are asked for. *)
LeftOfHint ==
  IF ThisTask.do = "hint" THEN <<>> ELSE <<Task("type", ThisTask.query, NoCte)>>

LEMMA PhasesTypes ==
  ASSUME PhasesInvariant, [PhasesNext]_phasesVars
  PROVE  PhasesTypeOK' /\ program' = program
<1>1. PhasesTypeOK /\ program \in Programs /\ calls \in Seq(CallType(program))
  BY DEF PhasesInvariant, PhasesTypeOK
<1>2. <<>> \in Seq(TaskType(program)) /\ NoCte \in Ctes(program) \cup {NoCte}
  BY EmptySeq
<1>3. /\ entries \in [Ctes(program) -> EntryStates]
      /\ definitions \subseteq Ctes(program) /\ lowered \subseteq Ctes(program)
      /\ typings \in [QueryId -> Nat] /\ lowerings \in [QueryId -> Nat]
      /\ phase \in {"bind", "type", "lower", "lowered", "type error"}
  BY DEF PhasesInvariant, PhasesTypeOK
<1>4. program.root \in QueryId
  BY <1>1, ProgramsAssumption DEF Program
<1>5. CASE UNCHANGED phasesVars
  BY <1>1, <1>5 DEF PhasesTypeOK, phasesVars, verdictVars, typingVars, loweringVars
<1>6. CASE Bind
  BY <1>1, <1>6 DEF Bind, Decide, PhasesTypeOK, typingVars, loweringVars
<1>7. CASE PassOver
  <2>1. calls' \in Seq(CallType(program))
    BY <1>1, <1>2, <1>7, AdvanceFacts DEF PassOver, Does
  <2> QED
    BY <1>1, <1>3, <1>7, <2>1
    DEF PassOver, PhasesTypeOK, verdictVars, typingVars, loweringVars
<1>8. CASE StartTyping
  <2> DEFINE f == Frame(program.root, TypeTasks(program.root), NoCte)
  <2>1. f \in CallType(program)
    BY <1>1, <1>2, <1>4, TypeTasksFacts, FrameFacts
  <2> HIDE DEF f
  <2>2. <<f>> \in Seq(CallType(program))
    BY <2>1, FirstCall
  <2>3. calls' \in Seq(CallType(program))
    BY <1>8, <2>2 DEF StartTyping, f
  <2>4. entries' \in [Ctes(program) -> EntryStates] /\ typings' \in [QueryId -> Nat]
    BY <1>1, <1>3, <1>4, <1>8, RegisterFacts, CountedFacts DEF StartTyping
  <2> QED
    BY <1>1, <1>3, <1>8, <2>3, <2>4 DEF StartTyping, PhasesTypeOK, verdictVars, loweringVars
<1>9. CASE TypeQuery
  <2>1. ThisTask.query \in QueryId /\ calls # <<>> /\ ThisCall.tasks # <<>>
    BY <1>9, ThisTaskFacts DEF TypeQuery
  <2>2. calls' \in Seq(CallType(program))
    BY <1>1, <1>2, <1>9, <2>1, TypeTasksFacts, PushFacts DEF TypeQuery
  <2>3. entries' \in [Ctes(program) -> EntryStates] /\ typings' \in [QueryId -> Nat]
    BY <1>1, <1>3, <1>9, <2>1, RegisterFacts, CountedFacts DEF TypeQuery
  <2> QED
    BY <1>1, <1>3, <1>9, <2>2, <2>3 DEF TypeQuery, PhasesTypeOK, verdictVars, loweringVars
<1>10. CASE HintQuery
  <2>1. /\ ThisTask.query \in QueryId /\ calls # <<>> /\ ThisCall.tasks # <<>>
        /\ ThisTask \in TaskType(program)
    BY <1>10, ThisTaskFacts DEF HintQuery
  <2>2. LeftOfHint \in Seq(TaskType(program))
    BY <2>1, RestFacts DEF LeftOfHint
  <2>3. calls' = Append(TakenUp(LeftOfHint),
                        Frame(ThisTask.query, HintTasks(ThisTask.query), NoCte))
    BY <1>10 DEF HintQuery, LeftOfHint
  <2>4. calls' \in Seq(CallType(program))
    BY <1>1, <1>2, <2>1, <2>2, <2>3, HintTasksFacts, PushFacts
  <2>5. entries' \in [Ctes(program) -> EntryStates]
    BY <1>1, <1>10, <2>1, RegisterFacts DEF HintQuery
  <2> QED
    BY <1>1, <1>3, <1>10, <2>4, <2>5 DEF HintQuery, PhasesTypeOK, verdictVars, loweringVars
<1>11. CASE TypeCte
  <2> DEFINE q == CteQuery(program, ThisTask.cte)
  <2>1. /\ ThisTask.cte \in Ctes(program) /\ q \in QueryId
        /\ calls # <<>> /\ ThisCall.tasks # <<>>
    BY <1>11, ThisTaskFacts DEF TypeCte
  <2>2. /\ calls' = Append(TakenUp(<<>>), Frame(q, TypeTasks(q), ThisTask.cte))
        /\ entries' = [Register(q) EXCEPT ![ThisTask.cte] = "Typing"]
        /\ typings' = Counted(typings, q)
    BY <1>11 DEF TypeCte
  <2> HIDE DEF q
  <2>3. calls' \in Seq(CallType(program))
    BY <1>1, <1>2, <2>1, <2>2, TypeTasksFacts, PushFacts
  <2>4. entries' \in [Ctes(program) -> EntryStates] /\ typings' \in [QueryId -> Nat]
    BY <1>1, <1>3, <2>1, <2>2, RegisterFacts, CountedFacts DEF EntryStates
  <2> QED
    BY <1>1, <1>3, <1>11, <2>3, <2>4 DEF TypeCte, PhasesTypeOK, verdictVars, loweringVars
<1>12. CASE ReuseTyped
  <2>1. calls' \in Seq(CallType(program))
    BY <1>1, <1>2, <1>12, AdvanceFacts DEF ReuseTyped, Does
  <2> QED
    BY <1>1, <1>3, <1>12, <2>1
    DEF ReuseTyped, PhasesTypeOK, verdictVars, typingVars, loweringVars
<1>13. CASE ReturnTyped
  <2>1. calls' \in Seq(CallType(program))
    BY <1>1, <1>13, PoppedFacts DEF ReturnTyped, Done
  <2>2. entries' \in [Ctes(program) -> EntryStates]
    BY <1>3, <1>13 DEF ReturnTyped, EntryStates
  <2> QED
    BY <1>1, <1>3, <1>13, <2>1, <2>2
    DEF ReturnTyped, PhasesTypeOK, verdictVars, loweringVars
<1>14. CASE RejectTypes
  BY <1>1, <1>3, <1>14 DEF RejectTypes, PhasesTypeOK, verdictVars, typingVars, loweringVars
<1>15. CASE StartLowering
  <2> DEFINE f == Frame(program.root, LowerTasks(program.root), NoCte)
  <2>1. f \in CallType(program)
    BY <1>1, <1>2, <1>4, LowerTasksFacts, FrameFacts
  <2> HIDE DEF f
  <2>2. <<f>> \in Seq(CallType(program))
    BY <2>1, FirstCall
  <2>3. calls' \in Seq(CallType(program))
    BY <1>15, <2>2 DEF StartLowering, f
  <2>4. definitions' \subseteq Ctes(program) /\ lowerings' \in [QueryId -> Nat]
    BY <1>3, <1>4, <1>15, OwnCtesFacts, CountedFacts DEF StartLowering
  <2> QED
    BY <1>1, <1>3, <1>15, <2>3, <2>4 DEF StartLowering, PhasesTypeOK, verdictVars, typingVars
<1>16. CASE LowerQuery
  <2>1. ThisTask.query \in QueryId /\ calls # <<>> /\ ThisCall.tasks # <<>>
    BY <1>16, ThisTaskFacts DEF LowerQuery
  <2>2. calls' \in Seq(CallType(program))
    BY <1>1, <1>2, <1>16, <2>1, LowerTasksFacts, PushFacts DEF LowerQuery
  <2>3. definitions' \subseteq Ctes(program) /\ lowerings' \in [QueryId -> Nat]
    BY <1>3, <1>16, <2>1, OwnCtesFacts, CountedFacts DEF LowerQuery
  <2> QED
    BY <1>1, <1>3, <1>16, <2>2, <2>3 DEF LowerQuery, PhasesTypeOK, verdictVars, typingVars
<1>17. CASE LowerCte
  <2> DEFINE q == CteQuery(program, ThisTask.cte)
  <2>1. /\ ThisTask.cte \in Ctes(program) /\ q \in QueryId
        /\ calls # <<>> /\ ThisCall.tasks # <<>>
    BY <1>17, ThisTaskFacts DEF LowerCte
  <2>2. /\ calls' = Append(TakenUp(<<>>), Frame(q, LowerTasks(q), ThisTask.cte))
        /\ definitions' = definitions \cup OwnCtes(q)
        /\ lowerings' = Counted(lowerings, q)
    BY <1>17 DEF LowerCte
  <2> HIDE DEF q
  <2>3. calls' \in Seq(CallType(program))
    BY <1>1, <1>2, <2>1, <2>2, LowerTasksFacts, PushFacts
  <2>4. definitions' \subseteq Ctes(program) /\ lowerings' \in [QueryId -> Nat]
    BY <1>3, <2>1, <2>2, OwnCtesFacts, CountedFacts
  <2> QED
    BY <1>1, <1>3, <1>17, <2>3, <2>4 DEF LowerCte, PhasesTypeOK, verdictVars, typingVars
<1>18. CASE ReuseLowered
  <2>1. calls' \in Seq(CallType(program))
    BY <1>1, <1>2, <1>18, AdvanceFacts DEF ReuseLowered, Does
  <2> QED
    BY <1>1, <1>3, <1>18, <2>1
    DEF ReuseLowered, PhasesTypeOK, verdictVars, typingVars, loweringVars
<1>19. CASE ReturnLowered
  <2>1. ThisCall.for \in Ctes(program) \cup {NoCte} /\ calls # <<>>
    BY <1>1, <1>19, InnermostCall DEF ReturnLowered, Done, CallType
  <2>2. calls' \in Seq(CallType(program))
    BY <1>1, <1>19, <2>1, PoppedFacts DEF ReturnLowered
  <2>3. lowered' \subseteq Ctes(program)
    BY <1>3, <1>19, <2>1 DEF ReturnLowered
  <2> QED
    BY <1>1, <1>3, <1>19, <2>2, <2>3
    DEF ReturnLowered, PhasesTypeOK, verdictVars, typingVars
<1> QED
  BY <1>5, <1>6, <1>7, <1>8, <1>9, <1>10, <1>11, <1>12, <1>13, <1>14, <1>15, <1>16, <1>17,
     <1>18, <1>19
  DEF PhasesNext

-----------------------------------------------------------------------------
(* Every step keeps the order of the phases, and the calls scoped.         *)

LEMMA PhasesBound ==
  ASSUME PhasesInvariant, [PhasesNext]_phasesVars
  PROVE  BoundFirst'
<1>1. program' = program
  BY PhasesTypes
<1>2. BoundFirst
  BY DEF PhasesInvariant
<1>3. CASE Bind
  <2>1. verdict = Pending /\ phase' = phase /\ calls' = calls /\ Correct(program, verdict')
    BY <1>3 DEF Bind, Decide
  <2>2. phase = "bind"
    BY <1>2, <2>1 DEF BoundFirst, Pending, Bound, Verdict
  <2>3. ~ Justified(program, Bound)
    BY DEF Justified, Bound, Verdict
  <2>4. verdict' = Bound => WellScoped(program)
    BY <2>1, <2>3 DEF Correct
  <2> QED
    BY <1>1, <1>2, <2>1, <2>2, <2>4 DEF BoundFirst
<1>4. CASE UNCHANGED phasesVars
  BY <1>2, <1>4 DEF BoundFirst, phasesVars, verdictVars
<1>5. ASSUME PhasesNext, ~ Bind PROVE verdict' = verdict
  BY <1>5, Zenon DEF PhasesNext, PassOver, StartTyping, TypeQuery, HintQuery, TypeCte, ReuseTyped,
              ReturnTyped, RejectTypes, StartLowering, LowerQuery, LowerCte, ReuseLowered,
              ReturnLowered, verdictVars
<1>6. ASSUME PhasesNext, ~ Bind PROVE phase' # "bind" /\ verdict = Bound
  BY <1>2, <1>6, Zenon
  DEF BoundFirst, PhasesNext, PassOver, StartTyping, TypeQuery, HintQuery, TypeCte, ReuseTyped,
      ReturnTyped, RejectTypes, StartLowering, LowerQuery, LowerCte, ReuseLowered,
      ReturnLowered, Does, Done
<1>7. ASSUME PhasesNext, ~ Bind, phase' = "lowered" PROVE calls' = <<>>
  <2>1. ReturnLowered /\ Len(calls) = 1
    BY <1>2, <1>7
    DEF BoundFirst, PhasesNext, PassOver, StartTyping, TypeQuery, HintQuery, TypeCte, ReuseTyped,
        ReturnTyped, RejectTypes, StartLowering, LowerQuery, LowerCte, ReuseLowered,
        ReturnLowered, Does, Done
  <2>2. PhasesTypeOK /\ calls # <<>> /\ calls' = Popped
    BY <2>1 DEF PhasesInvariant, ReturnLowered, Done
  <2> QED
    BY <2>1, <2>2, PoppedFacts
<1>8. ASSUME PhasesNext, ~ Bind PROVE BoundFirst'
  BY <1>1, <1>2, <1>5, <1>6, <1>7, <1>8 DEF BoundFirst
<1> QED
  BY <1>3, <1>4, <1>8

(* A call is added for a task of the innermost one.                        *)
LEMMA ScopedInto ==
  ASSUME PhasesTypeOK, calls # <<>>, ThisCall.tasks # <<>>, NEW q \in QueryId,
         NEW for \in Ctes(program) \cup {NoCte}, NEW rest \in Seq(TaskType(program)),
         NEW tasks \in Seq(TaskType(program)),
         NEW K, NEW L, K \subseteq L, AreScoped(program, K, calls),
         \A t \in Elements(rest) : Stands(program, ThisCall.query, t),
         \A t \in Elements(tasks) : Stands(program, q, t),
         \A d \in Ctes(program) : d.query = q => d \in L,
         \/ for = NoCte /\ IsNested(program, ThisCall.query, q)
         \/ Asks(program, ThisCall.query, for) /\ q = CteQuery(program, for)
  PROVE  AreScoped(program, L, Append(TakenUp(rest), Frame(q, tasks, for)))
<1> DEFINE f == Frame(q, tasks, for)
           D == Append(TakenUp(rest), f)
<1>1. /\ f.query = q /\ f.tasks = tasks /\ f.for = for
      /\ f \in CallType(program)
      /\ DOMAIN D = 1 .. Len(calls) + 1 /\ D[Len(calls) + 1] = f
      /\ Advances(calls, D, rest)
  <2>1. f.query = q /\ f.tasks = tasks /\ f.for = for
    BY DEF Frame
  <2>2. program \in Programs
    BY DEF PhasesTypeOK
  <2>3. f \in CallType(program)
    BY <2>2, FrameFacts
  <2> HIDE DEF f
  <2>4. /\ DOMAIN D = 1 .. Len(calls) + 1 /\ D[Len(calls) + 1] = f
        /\ Advances(calls, D, rest)
    BY <2>3, AdvanceFacts
  <2> QED
    BY <2>1, <2>3, <2>4
<1>2. ThisCall.query = calls[Len(calls)].query
  BY DEF ThisCall
<1>3. program \in Programs /\ calls \in Seq(CallType(program))
  BY DEF PhasesTypeOK
<1> HIDE DEF f, D
<1>4. \A t \in Elements(f.tasks) : Stands(program, f.query, t)
  BY <1>1
<1>5. \A d \in Ctes(program) : d.query = f.query => d \in L
  BY <1>1
<1>6. \A t \in Elements(rest) : Stands(program, calls[Len(calls)].query, t)
  BY <1>2
<1>7. \/ f.for = NoCte /\ IsNested(program, calls[Len(calls)].query, f.query)
      \/ Asks(program, calls[Len(calls)].query, f.for) /\ f.query = CteQuery(program, f.for)
  BY <1>1, <1>2
<1>8. AreScoped(program, L, D)
  BY <1>1, <1>3, <1>4, <1>5, <1>6, <1>7, ScopedPushed
<1> QED
  BY <1>8 DEF D, f

LEMMA PhasesScoped ==
  ASSUME PhasesInvariant, [PhasesNext]_phasesVars
  PROVE  CallsAreScoped'
<1>1. PhasesTypeOK /\ program \in Programs /\ calls \in Seq(CallType(program))
  BY DEF PhasesInvariant, PhasesTypeOK
<1>2. /\ program' = program
      /\ Registered' = {c \in Ctes(program) : entries'[c] # "absent"}
  BY PhasesTypes DEF Registered
<1>3. /\ <<>> \in Seq(TaskType(program)) /\ NoCte \in Ctes(program) \cup {NoCte}
      /\ Elements(<<>>) = {}
  BY EmptySeq DEF Elements
<1>4. program.root \in QueryId
  BY <1>1, ProgramsAssumption DEF Program
<1>5. phase = "type" => AreScoped(program, Registered, calls)
  BY DEF PhasesInvariant, CallsAreScoped
<1>6. phase = "lower" => AreScoped(program, definitions, calls)
  BY DEF PhasesInvariant, CallsAreScoped
<1>7. CASE UNCHANGED phasesVars
  BY <1>2, <1>7 DEF PhasesInvariant, CallsAreScoped, Registered, phasesVars, typingVars,
                    loweringVars
<1>8. CASE Bind
  BY <1>2, <1>8 DEF Bind, PhasesInvariant, CallsAreScoped, Registered, typingVars, loweringVars
<1>9. ASSUME phase' = "type", AreScoped(program, Registered', calls') PROVE CallsAreScoped'
  BY <1>2, <1>9 DEF CallsAreScoped
<1>10. ASSUME phase' = "lower", AreScoped(program, definitions', calls') PROVE CallsAreScoped'
  BY <1>2, <1>10 DEF CallsAreScoped
<1>11. ASSUME calls # <<>>, ThisCall.tasks # <<>>, calls' = TakenUp(<<>>), NEW K,
              AreScoped(program, K, calls)
       PROVE  AreScoped(program, K, calls')
  <2>1. Advances(calls, calls', <<>>) /\ DOMAIN calls' = DOMAIN calls
    BY <1>1, <1>3, <1>11, AdvanceFacts
  <2> QED
    BY <1>1, <1>3, <1>11, <2>1, ScopedTaken
<1>12. ASSUME calls # <<>>, ThisCall.tasks # <<>>, NEW q \in QueryId,
              NEW for \in Ctes(program) \cup {NoCte}, NEW rest \in Seq(TaskType(program)),
              NEW tasks \in Seq(TaskType(program)),
              calls' = Append(TakenUp(rest), Frame(q, tasks, for)),
              NEW K, NEW L, K \subseteq L, AreScoped(program, K, calls),
              \A t \in Elements(rest) : Stands(program, ThisCall.query, t),
              \A t \in Elements(tasks) : Stands(program, q, t),
              \A d \in Ctes(program) : d.query = q => d \in L,
              \/ for = NoCte /\ IsNested(program, ThisCall.query, q)
              \/ Asks(program, ThisCall.query, for) /\ q = CteQuery(program, for)
       PROVE  AreScoped(program, L, calls')
  BY <1>1, <1>12, ScopedInto
<1>13. ASSUME calls # <<>>, calls' = Popped, NEW K, AreScoped(program, K, calls)
       PROVE  AreScoped(program, K, calls')
  <2>1. /\ DOMAIN calls' = 1 .. Len(calls) - 1
        /\ \A i \in DOMAIN calls' : i \in DOMAIN calls /\ calls'[i] = calls[i]
    BY <1>1, <1>13, PoppedFacts
  <2>2. Len(calls) \in Nat
    BY <1>1, LenProperties
  <2> QED
    BY <1>1, <1>13, <2>1, <2>2, ScopedPopped
<1>14. ASSUME NEW q \in QueryId, NEW r \in Seq(TaskType(program)), NEW L, q = program.root,
              calls' = <<Frame(q, r, NoCte)>>,
              \A t \in Elements(r) : Stands(program, q, t),
              \A d \in Ctes(program) : d.query = q => d \in L
       PROVE  AreScoped(program, L, calls')
  <2> DEFINE f == Frame(q, r, NoCte)
  <2>1. f \in CallType(program) /\ f.query = q /\ f.tasks = r /\ f.for = NoCte
    <3>1. Frame(q, r, NoCte) \in CallType(program)
      BY <1>1, <1>3, FrameFacts
    <3> QED
      BY <3>1 DEF Frame
  <2> HIDE DEF f
  <2>2. calls' = <<f>>
    BY <1>14 DEF f
  <2> QED
    BY <1>1, <1>14, <2>1, <2>2, ScopedFirst
<1>15. ASSUME NEW q \in QueryId, \A c \in Ctes(program) :
                Register(q)[c] # "absent" => entries'[c] # "absent"
       PROVE  /\ Registered \subseteq Registered'
              /\ \A d \in Ctes(program) : d.query = q => d \in Registered'
  BY <1>1, <1>2, <1>15, RegisterFacts
<1>16. ASSUME NEW q \in QueryId, definitions' = definitions \cup OwnCtes(q)
       PROVE  /\ definitions \subseteq definitions'
              /\ \A d \in Ctes(program) : d.query = q => d \in definitions'
  BY <1>16, OwnCtesFacts
<1>17. CASE PassOver
  <2>1. /\ phase' = phase /\ phase \in {"type", "lower"}
        /\ calls # <<>> /\ ThisCall.tasks # <<>> /\ calls' = TakenUp(<<>>)
        /\ Registered' = Registered /\ definitions' = definitions
    BY <1>2, <1>17 DEF PassOver, Does, Registered, typingVars, loweringVars
  <2> QED
    BY <1>5, <1>6, <1>9, <1>10, <1>11, <2>1
<1>18. CASE StartTyping
  <2>1. /\ phase' = "type"
        /\ calls' = <<Frame(program.root, TypeTasks(program.root), NoCte)>>
        /\ entries' = Register(program.root)
    BY <1>18 DEF StartTyping
  <2>2. AreScoped(program, Registered', calls')
    BY <1>1, <1>4, <1>14, <1>15, <2>1, TypeTasksFacts
  <2> QED
    BY <1>9, <2>1, <2>2
<1>19. CASE TypeQuery
  <2> DEFINE q == ThisTask.query
  <2>1. /\ phase = "type" /\ phase' = "type" /\ entries' = Register(q)
        /\ calls' = Append(TakenUp(<<>>), Frame(q, TypeTasks(q), NoCte))
    BY <1>19 DEF TypeQuery, Does
  <2>2. /\ q \in QueryId /\ IsNested(program, ThisCall.query, q)
        /\ calls # <<>> /\ ThisCall.tasks # <<>>
    BY <1>19, ThisTaskFacts DEF TypeQuery
  <2> HIDE DEF q
  <2>3. Registered \subseteq Registered' /\ \A d \in Ctes(program) : d.query = q => d \in Registered'
    BY <1>15, <2>1, <2>2
  <2>4. /\ TypeTasks(q) \in Seq(TaskType(program))
        /\ \A t \in Elements(TypeTasks(q)) : Stands(program, q, t)
    BY <1>1, <2>2, TypeTasksFacts
  <2>5. AreScoped(program, Registered', calls')
    BY <1>3, <1>5, <1>12, <2>1, <2>2, <2>3, <2>4
  <2> QED
    BY <1>9, <2>1, <2>5
<1>20. CASE HintQuery
  <2> DEFINE q == ThisTask.query
             u == Task("type", q, NoCte)
  <2>1. /\ phase = "type" /\ phase' = "type" /\ entries' = Register(q)
        /\ calls' = Append(TakenUp(LeftOfHint), Frame(q, HintTasks(q), NoCte))
    BY <1>20 DEF HintQuery, Does, LeftOfHint
  <2>2. /\ q \in QueryId /\ IsNested(program, ThisCall.query, q)
        /\ calls # <<>> /\ ThisCall.tasks # <<>> /\ ThisTask \in TaskType(program)
    BY <1>20, ThisTaskFacts DEF HintQuery
  <2>3. LeftOfHint \in Seq(TaskType(program)) /\ Elements(LeftOfHint) \subseteq {u}
    BY <2>2, RestFacts DEF LeftOfHint
  <2>4. Stands(program, ThisCall.query, u)
    BY <2>2 DEF Stands, Task
  <2> HIDE DEF q, u
  <2>5. Registered \subseteq Registered' /\ \A d \in Ctes(program) : d.query = q => d \in Registered'
    BY <1>15, <2>1, <2>2
  <2>6. /\ HintTasks(q) \in Seq(TaskType(program))
        /\ \A t \in Elements(HintTasks(q)) : Stands(program, q, t)
    BY <1>1, <2>2, HintTasksFacts
  <2>7. \A t \in Elements(LeftOfHint) : Stands(program, ThisCall.query, t)
    BY <2>3, <2>4
  <2>8. AreScoped(program, Registered', calls')
    BY <1>3, <1>5, <1>12, <2>1, <2>2, <2>3, <2>5, <2>6, <2>7
  <2> QED
    BY <1>9, <2>1, <2>8
<1>21. CASE TypeCte
  <2> DEFINE c == ThisTask.cte
             q == CteQuery(program, c)
  <2>1. /\ phase = "type" /\ phase' = "type"
        /\ entries' = [Register(q) EXCEPT ![c] = "Typing"]
        /\ calls' = Append(TakenUp(<<>>), Frame(q, TypeTasks(q), c))
    BY <1>21 DEF TypeCte, Does
  <2>2. /\ c \in Ctes(program) /\ q \in QueryId /\ Asks(program, ThisCall.query, c)
        /\ calls # <<>> /\ ThisCall.tasks # <<>>
    BY <1>21, ThisTaskFacts DEF TypeCte
  <2>3. q = CteQuery(program, c)
    OBVIOUS
  <2> HIDE DEF c, q
  <2>4. \A d \in Ctes(program) : Register(q)[d] # "absent" => entries'[d] # "absent"
    BY <1>1, <2>1, <2>2, RegisterFacts
  <2>5. Registered \subseteq Registered' /\ \A d \in Ctes(program) : d.query = q => d \in Registered'
    BY <1>15, <2>2, <2>4
  <2>6. /\ TypeTasks(q) \in Seq(TaskType(program))
        /\ \A t \in Elements(TypeTasks(q)) : Stands(program, q, t)
    BY <1>1, <2>2, TypeTasksFacts
  <2>7. AreScoped(program, Registered', calls')
    BY <1>3, <1>5, <1>12, <2>1, <2>2, <2>3, <2>5, <2>6
  <2> QED
    BY <1>9, <2>1, <2>7
<1>22. CASE ReuseTyped
  <2>1. /\ phase' = phase /\ phase = "type"
        /\ calls # <<>> /\ ThisCall.tasks # <<>> /\ calls' = TakenUp(<<>>)
        /\ Registered' = Registered
    BY <1>2, <1>22 DEF ReuseTyped, Does, Registered, typingVars
  <2> QED
    BY <1>5, <1>9, <1>11, <2>1
<1>23. CASE ReturnTyped
  <2>1. /\ phase' = phase /\ phase = "type" /\ calls # <<>> /\ calls' = Popped
        /\ entries' = IF ThisCall.for = NoCte THEN entries
                      ELSE [entries EXCEPT ![ThisCall.for] = "Typed"]
    BY <1>23 DEF ReturnTyped, Done
  <2>2. ThisCall.for \in Ctes(program) \cup {NoCte}
    BY <1>1, <2>1, InnermostCall DEF CallType
  <2>3. Registered' = Registered
    <3>1. CASE ThisCall.for = NoCte
      BY <1>2, <2>1, <3>1 DEF Registered
    <3>2. CASE ThisCall.for # NoCte
      <4>1. entries \in [Ctes(program) -> EntryStates]
        BY <1>1 DEF PhasesTypeOK
      <4>2. IsActive(calls, ThisCall.for)
        BY <1>1, <2>1, InnermostCall DEF IsActive
      <4>3. entries[ThisCall.for] = "Typing"
        BY <2>1, <2>2, <3>2, <4>2 DEF PhasesInvariant, TypingIsKept, TypingGoesOn
      <4>4. \A c \in Ctes(program) : entries'[c] # "absent" <=> entries[c] # "absent"
        BY <2>1, <3>2, <4>1, <4>3
      <4> QED
        BY <1>2, <4>4 DEF Registered
    <3> QED
      BY <3>1, <3>2
  <2>4. AreScoped(program, Registered', calls')
    BY <1>5, <1>13, <2>1, <2>3
  <2> QED
    BY <1>9, <2>1, <2>4
<1>24. CASE RejectTypes
  BY <1>24 DEF RejectTypes, CallsAreScoped
<1>25. CASE StartLowering
  <2>1. /\ phase' = "lower"
        /\ calls' = <<Frame(program.root, LowerTasks(program.root), NoCte)>>
        /\ definitions' = OwnCtes(program.root)
    BY <1>25 DEF StartLowering
  <2>2. \A d \in Ctes(program) : d.query = program.root => d \in definitions'
    BY <1>4, <2>1, OwnCtesFacts
  <2>3. AreScoped(program, definitions', calls')
    BY <1>1, <1>4, <1>14, <2>1, <2>2, LowerTasksFacts
  <2> QED
    BY <1>10, <2>1, <2>3
<1>26. CASE LowerQuery
  <2> DEFINE q == ThisTask.query
  <2>1. /\ phase = "lower" /\ phase' = "lower" /\ definitions' = definitions \cup OwnCtes(q)
        /\ calls' = Append(TakenUp(<<>>), Frame(q, LowerTasks(q), NoCte))
    BY <1>26 DEF LowerQuery, Does
  <2>2. /\ q \in QueryId /\ IsNested(program, ThisCall.query, q)
        /\ calls # <<>> /\ ThisCall.tasks # <<>>
    BY <1>26, ThisTaskFacts DEF LowerQuery
  <2> HIDE DEF q
  <2>3. definitions \subseteq definitions' /\ \A d \in Ctes(program) : d.query = q => d \in definitions'
    BY <1>16, <2>1, <2>2
  <2>4. /\ LowerTasks(q) \in Seq(TaskType(program))
        /\ \A t \in Elements(LowerTasks(q)) : Stands(program, q, t)
    BY <1>1, <2>2, LowerTasksFacts
  <2>5. AreScoped(program, definitions', calls')
    BY <1>3, <1>6, <1>12, <2>1, <2>2, <2>3, <2>4
  <2> QED
    BY <1>10, <2>1, <2>5
<1>27. CASE LowerCte
  <2> DEFINE c == ThisTask.cte
             q == CteQuery(program, c)
  <2>1. /\ phase = "lower" /\ phase' = "lower" /\ definitions' = definitions \cup OwnCtes(q)
        /\ calls' = Append(TakenUp(<<>>), Frame(q, LowerTasks(q), c))
    BY <1>27 DEF LowerCte, Does
  <2>2. /\ c \in Ctes(program) /\ q \in QueryId /\ Asks(program, ThisCall.query, c)
        /\ calls # <<>> /\ ThisCall.tasks # <<>>
    BY <1>27, ThisTaskFacts DEF LowerCte
  <2>3. q = CteQuery(program, c)
    OBVIOUS
  <2> HIDE DEF c, q
  <2>4. definitions \subseteq definitions' /\ \A d \in Ctes(program) : d.query = q => d \in definitions'
    BY <1>16, <2>1, <2>2
  <2>5. /\ LowerTasks(q) \in Seq(TaskType(program))
        /\ \A t \in Elements(LowerTasks(q)) : Stands(program, q, t)
    BY <1>1, <2>2, LowerTasksFacts
  <2>6. AreScoped(program, definitions', calls')
    BY <1>3, <1>6, <1>12, <2>1, <2>2, <2>3, <2>4, <2>5
  <2> QED
    BY <1>10, <2>1, <2>6
<1>28. CASE ReuseLowered
  <2>1. /\ phase' = phase /\ phase = "lower"
        /\ calls # <<>> /\ ThisCall.tasks # <<>> /\ calls' = TakenUp(<<>>)
        /\ definitions' = definitions
    BY <1>28 DEF ReuseLowered, Does, loweringVars
  <2> QED
    BY <1>6, <1>10, <1>11, <2>1
<1>29. CASE ReturnLowered
  <2>1. /\ phase = "lower" /\ phase' \in {"lower", "lowered"} /\ calls # <<>> /\ calls' = Popped
        /\ definitions' = definitions
    BY <1>29 DEF ReturnLowered, Done
  <2>2. AreScoped(program, definitions', calls')
    BY <1>6, <1>13, <2>1
  <2> QED
    BY <1>2, <2>1, <2>2 DEF CallsAreScoped
<1> QED
  BY <1>7, <1>8, <1>17, <1>18, <1>19, <1>20, <1>21, <1>22, <1>23, <1>24, <1>25, <1>26, <1>27,
     <1>28, <1>29
  DEF PhasesNext

-----------------------------------------------------------------------------
(* Every step keeps what is known of typing.                               *)

(* What was left to type still is, but for the task that is taken up.      *)
LEMMA ToTypeTaken ==
  ASSUME NEW p, NEW C, NEW D, NEW rest, Advances(C, D, rest), NEW r, ToType(p, C, r)
  PROVE  TypesQuery(p, C[Len(C)].tasks[1], r) \/ ToType(p, D, r)
<1>1. /\ Len(C) \in DOMAIN D
      /\ \A i \in DOMAIN C : i \in DOMAIN D /\ (i # Len(C) => D[i] = C[i])
      /\ Elements(D[Len(C)].tasks) = Elements(rest) \cup Elements(Tail(C[Len(C)].tasks))
      /\ Elements(C[Len(C)].tasks) = {C[Len(C)].tasks[1]} \cup Elements(Tail(C[Len(C)].tasks))
  BY DEF Advances
<1>2. PICK i \in DOMAIN C : \E t \in Elements(C[i].tasks) : TypesQuery(p, t, r)
  BY DEF ToType
<1>3. PICK t \in Elements(C[i].tasks) : TypesQuery(p, t, r)
  BY <1>2
<1>4. CASE i # Len(C)
  BY <1>1, <1>3, <1>4 DEF ToType
<1>5. CASE i = Len(C)
  <2>1. t = C[Len(C)].tasks[1] \/ t \in Elements(D[Len(C)].tasks)
    BY <1>1, <1>3, <1>5
  <2> QED
    BY <1>1, <1>3, <2>1 DEF ToType
<1> QED
  BY <1>4, <1>5

LEMMA ToTypeRest ==
  ASSUME NEW p, NEW C, NEW D, NEW rest, Advances(C, D, rest), NEW r,
         \E t \in Elements(rest) : TypesQuery(p, t, r)
  PROVE  ToType(p, D, r)
<1>1. Len(C) \in DOMAIN D /\ Elements(rest) \subseteq Elements(D[Len(C)].tasks)
  BY DEF Advances
<1> QED
  BY <1>1 DEF ToType

(* Parts stay typed, or left to type, when what the task taken up asks for *)
(* is typed or left, and of what is typed anew the parts are left to type. *)
LEMMA PartsTaken ==
  ASSUME NEW p \in Programs, NEW C, NEW D, NEW rest, Advances(C, D, rest),
         NEW counts, NEW more, PartsAreTyped(p, C, counts),
         \A q \in QueryId : counts[q] > 0 => more[q] > 0,
         \A r \in QueryId : TypesQuery(p, C[Len(C)].tasks[1], r) =>
            more[r] > 0 \/ \E t \in Elements(rest) : TypesQuery(p, t, r),
         \A q \in QueryId : more[q] > 0 =>
            counts[q] > 0 \/ \A r \in Parts(p, q) : ToType(p, D, r)
  PROVE  PartsAreTyped(p, D, more)
<1>1. p.root \in QueryId
  BY ProgramsAssumption DEF Program
<1>2. more[p.root] > 0
  BY <1>1 DEF PartsAreTyped
<1>3. ASSUME NEW q \in QueryId, more[q] > 0, NEW r \in Parts(p, q)
      PROVE  more[r] > 0 \/ ToType(p, D, r)
  <2>1. r \in QueryId
    BY PartsFacts
  <2>2. CASE ToType(p, C, r)
    <3>1. CASE TypesQuery(p, C[Len(C)].tasks[1], r)
      BY <2>1, <3>1, ToTypeRest
    <3>2. CASE ToType(p, D, r)
      BY <3>2
    <3> QED
      BY <2>2, <3>1, <3>2, ToTypeTaken
  <2>3. CASE counts[r] > 0
    BY <2>1, <2>3
  <2>4. CASE counts[q] > 0
    BY <2>2, <2>3, <2>4 DEF PartsAreTyped
  <2> QED
    BY <1>3, <2>4
<1> QED
  BY <1>2, <1>3 DEF PartsAreTyped

LEMMA PartsPopped ==
  ASSUME NEW p, NEW C, NEW D, NEW counts, PartsAreTyped(p, C, counts),
         Len(C) \in Nat \ {0}, DOMAIN C = 1 .. Len(C),
         DOMAIN D = 1 .. Len(C) - 1, \A i \in DOMAIN D : D[i] = C[i],
         C[Len(C)].tasks = <<>>
  PROVE  PartsAreTyped(p, D, counts)
<1>1. \A i \in DOMAIN C : i \in DOMAIN D \/ i = Len(C)
  OBVIOUS
<1>2. Elements(C[Len(C)].tasks) = {}
  BY DEF Elements
<1>3. \A r : ToType(p, C, r) => ToType(p, D, r)
  BY <1>1, <1>2 DEF ToType
<1> QED
  BY <1>3 DEF PartsAreTyped

(* When nothing is left to do, everything is typed.                        *)
LEMMA TypingEnds ==
  ASSUME PhasesInvariant, phase = "type", calls = <<>>
  PROVE  AllTyped
<1>1. program \in Programs /\ typings \in [QueryId -> Nat] /\ entries \in [Ctes(program) -> EntryStates]
  BY DEF PhasesInvariant, PhasesTypeOK
<1>2. DOMAIN calls = {}
  OBVIOUS
<1>3. /\ \A c \in Ctes(program) : entries[c] # "Typing"
      /\ typings[program.root] > 0
      /\ \A q \in QueryId : typings[q] > 0 => \A r \in Parts(program, q) : typings[r] > 0
  BY <1>2 DEF PhasesInvariant, TypingIsKept, TypingGoesOn, PartsAreTyped, IsActive, ToType
<1> DEFINE S == {q \in QueryId : typings[q] > 0}
<1>4. program.root \in S
  BY <1>1, <1>3, ProgramsAssumption DEF Program
<1>5. \A q \in S : Parts(program, q) \subseteq S
  BY <1>1, <1>3, PartsFacts
<1>6. ASSUME NEW q \in QueryId, Encloses(program, program.root, q) PROVE q \in S
  BY <1>4, <1>5, <1>6 DEF Encloses
<1>7. ASSUME NEW q \in S, NEW c \in OwnCtes(q) PROVE entries[c] = "Typed"
  <2>1. c \in Ctes(program) /\ c.query = q
    BY OwnCtesFacts
  <2>2. CteQuery(program, c) \in S
    BY <1>1, <1>5, <2>1, CteQueryFacts
  <2>3. entries[c] \in {"Typing", "Typed"}
    BY <2>1, <2>2 DEF PhasesInvariant, TypingIsKept, EntriesCount
  <2> QED
    BY <1>3, <2>1, <2>3
<1> QED
  BY <1>6, <1>7 DEF AllTyped

(* Registration changes nothing that typing depends on.                    *)
LEMMA EntriesRegistered ==
  ASSUME PhasesTypeOK, EntriesCount(program, entries, typings), NEW q \in QueryId
  PROVE  /\ \A c \in Ctes(program) : /\ Register(q)[c] = "Typing" <=> entries[c] = "Typing"
                                     /\ Register(q)[c] = "Typed" <=> entries[c] = "Typed"
         /\ EntriesCount(program, Register(q), typings)
         /\ (\A c \in Ctes(program) : CteQuery(program, c) # q) =>
              EntriesCount(program, Register(q), Counted(typings, q))
<1>1. program \in Programs /\ typings \in [QueryId -> Nat]
  BY DEF PhasesTypeOK
<1>2. \A c \in Ctes(program) : CteQuery(program, c) \in QueryId
  BY <1>1, CteQueryFacts
<1>3. \A c \in Ctes(program) : /\ Register(q)[c] = "Typing" <=> entries[c] = "Typing"
                               /\ Register(q)[c] = "Typed" <=> entries[c] = "Typed"
  <2>1. \A c \in Ctes(program) :
          /\ Register(q)[c] = entries[c] \/ Register(q)[c] = "Unvisited"
          /\ entries[c] # "absent" => Register(q)[c] = entries[c]
    BY RegisterFacts
  <2> QED
    BY <2>1
<1>4. EntriesCount(program, Register(q), typings)
  BY <1>3 DEF EntriesCount
<1>5. ASSUME \A c \in Ctes(program) : CteQuery(program, c) # q
      PROVE  EntriesCount(program, Register(q), Counted(typings, q))
  <2>1. \A r \in QueryId : r # q => Counted(typings, q)[r] = typings[r]
    BY <1>1, CountedFacts
  <2>2. \A c \in Ctes(program) :
          Counted(typings, q)[CteQuery(program, c)] = typings[CteQuery(program, c)]
    BY <1>2, <1>5, <2>1
  <2> QED
    BY <1>4, <2>2 DEF EntriesCount
<1> QED
  BY <1>3, <1>4, <1>5

(* What becomes of entries and counts when the task taken up, of which     *)
(* `rest` is left, makes a call for q and the declaration `for`.           *)
GoesInto(q, tasks, for, rest, states, counts) ==
  /\ for = NoCte \/ ~ IsActive(calls, for)
  /\ \A c \in Ctes(program) : states[c] = "Typing" <=> entries[c] = "Typing" \/ for = c
  /\ \A r \in QueryId : typings[r] > 0 => counts[r] > 0
  /\ \A r \in QueryId : counts[r] > 0 =>
       typings[r] > 0 \/ (r = q /\ TypesParts(program, q, tasks))
  /\ \A r \in QueryId : TypesQuery(program, ThisTask, r) =>
       counts[r] > 0 \/ \E t \in Elements(rest) : TypesQuery(program, t, r)

LEMMA TypingInto ==
  ASSUME PhasesTypeOK, TypingGoesOn(program, calls, entries, typings),
         calls # <<>>, ThisCall.tasks # <<>>,
         NEW q \in QueryId, NEW for \in Ctes(program) \cup {NoCte},
         NEW rest \in Seq(TaskType(program)), NEW tasks \in Seq(TaskType(program)),
         NEW states, NEW counts, GoesInto(q, tasks, for, rest, states, counts)
  PROVE  TypingGoesOn(program, Append(TakenUp(rest), Frame(q, tasks, for)), states, counts)
<1> DEFINE f == Frame(q, tasks, for)
           D == Append(TakenUp(rest), f)
           n == Len(calls) + 1
<1>1. program \in Programs /\ calls \in Seq(CallType(program))
  BY DEF PhasesTypeOK
<1>2. f.tasks = tasks /\ f.for = for /\ f \in CallType(program)
  <2>1. Frame(q, tasks, for) \in CallType(program)
    BY <1>1, FrameFacts
  <2> QED
    BY <2>1 DEF Frame
<1> HIDE DEF f
<1>3. DOMAIN D = 1 .. n /\ D[n] = f /\ Advances(calls, D, rest)
  BY <1>2, AdvanceFacts
<1> HIDE DEF D
<1>4. n \in DOMAIN D
  <2>1. Len(calls) \in Nat
    BY <1>1, LenProperties
  <2> QED
    BY <1>3, <2>1
<1>5. ThisTask = calls[Len(calls)].tasks[1]
  BY DEF ThisTask, ThisCall
<1>6. PartsAreTyped(program, calls, typings) /\ ForOnce(calls)
  BY DEF TypingGoesOn
<1>7. \A x : (\E t \in Elements(tasks) : TypesQuery(program, t, x)) => ToType(program, D, x)
  BY <1>2, <1>3, <1>4 DEF ToType
<1>8. \A r \in QueryId : counts[r] > 0 =>
        typings[r] > 0 \/ \A x \in Parts(program, r) : ToType(program, D, x)
  BY <1>7 DEF GoesInto, TypesParts
<1>9. \A r \in QueryId : TypesQuery(program, calls[Len(calls)].tasks[1], r) =>
        counts[r] > 0 \/ \E t \in Elements(rest) : TypesQuery(program, t, r)
  BY <1>5 DEF GoesInto
<1>10. \A r \in QueryId : typings[r] > 0 => counts[r] > 0
  BY DEF GoesInto
<1>11. PartsAreTyped(program, D, counts)
  BY <1>1, <1>3, <1>6, <1>8, <1>9, <1>10, PartsTaken
<1>12. (\A c : IsActive(D, c) <=> IsActive(calls, c) \/ for = c) /\ ForOnce(D)
  <2>1. /\ \A c : IsActive(D, c) <=> IsActive(calls, c) \/ f.for = c
        /\ ForOnce(calls) /\ (f.for = NoCte \/ ~ IsActive(calls, f.for)) => ForOnce(D)
    BY <1>3, ActiveFacts
  <2> QED
    BY <1>2, <1>6, <2>1 DEF GoesInto
<1>13. \A c \in Ctes(program) : states[c] = "Typing" <=> IsActive(D, c)
  BY <1>12 DEF GoesInto, TypingGoesOn
<1> QED
  BY <1>11, <1>12, <1>13 DEF TypingGoesOn, D, f

LEMMA PhasesTyping ==
  ASSUME PhasesInvariant, [PhasesNext]_phasesVars
  PROVE  TypingIsKept'
<1>1. /\ PhasesTypeOK /\ program \in Programs /\ calls \in Seq(CallType(program))
      /\ typings \in [QueryId -> Nat] /\ entries \in [Ctes(program) -> EntryStates]
  BY DEF PhasesInvariant, PhasesTypeOK
<1>2. program' = program
  BY PhasesTypes
<1>3. <<>> \in Seq(TaskType(program)) /\ NoCte \in Ctes(program) \cup {NoCte}
  BY EmptySeq
<1>4. /\ EntriesCount(program, entries, typings)
      /\ phase = "bind" => \A q \in QueryId : typings[q] = 0
      /\ phase = "type" => TypingGoesOn(program, calls, entries, typings)
      /\ phase \in {"lower", "lowered"} => AllTyped
  BY DEF PhasesInvariant, TypingIsKept
<1>5. \A c \in Ctes(program) : c # NoCte /\ CteQuery(program, c) \in QueryId
  BY <1>1, CteQueryFacts
<1>6. ASSUME UNCHANGED <<entries, typings>>, AllTyped PROVE AllTyped'
  BY <1>2, <1>6 DEF AllTyped, OwnCtes
<1>7. CASE UNCHANGED phasesVars
  BY <1>2, <1>4, <1>6, <1>7 DEF TypingIsKept, phasesVars, typingVars
<1>8. CASE Bind
  BY <1>2, <1>4, <1>6, <1>8 DEF TypingIsKept, Bind, typingVars
<1>9. ASSUME phase' = "type", EntriesCount(program, entries', typings'),
             TypingGoesOn(program, calls', entries', typings')
      PROVE  TypingIsKept'
  BY <1>2, <1>9 DEF TypingIsKept
<1>10. ASSUME phase' \in {"lower", "lowered"}, UNCHANGED <<entries, typings>>, AllTyped
       PROVE  TypingIsKept'
  BY <1>2, <1>4, <1>6, <1>10 DEF TypingIsKept
(* A task of the innermost call is done with.                              *)
<1>11. ASSUME phase = "type", phase' = "type", calls # <<>>, ThisCall.tasks # <<>>,
              calls' = TakenUp(<<>>), UNCHANGED <<entries, typings>>,
              \A r \in QueryId : TypesQuery(program, ThisTask, r) => typings[r] > 0
       PROVE  TypingIsKept'
  <2>1. Advances(calls, calls', <<>>) /\ DOMAIN calls' = DOMAIN calls
    BY <1>1, <1>3, <1>11, AdvanceFacts
  <2>2. ThisTask = calls[Len(calls)].tasks[1]
    BY DEF ThisTask, ThisCall
  <2>3. PartsAreTyped(program, calls, typings)
    BY <1>4, <1>11 DEF TypingGoesOn
  <2>4. PartsAreTyped(program, calls', typings)
    BY <1>1, <1>11, <2>1, <2>2, <2>3, PartsTaken
  <2>5. (\A c : IsActive(calls', c) <=> IsActive(calls, c)) /\ ForOnce(calls')
    BY <1>4, <1>11, <2>1, ActiveFacts DEF TypingGoesOn
  <2>6. TypingGoesOn(program, calls', entries, typings)
    BY <1>4, <1>11, <2>4, <2>5 DEF TypingGoesOn
  <2> QED
    BY <1>4, <1>9, <1>11, <2>6
<1>12. ASSUME PhasesNext, phase = "type", entries' = entries, typings' = typings,
              phase' = "type error"
       PROVE  TypingIsKept'
  BY <1>2, <1>4, <1>12 DEF TypingIsKept
<1>13. CASE PassOver
  <2>1. /\ phase' = phase /\ entries' = entries /\ typings' = typings
        /\ calls # <<>> /\ ThisCall.tasks # <<>> /\ calls' = TakenUp(<<>>)
        /\ ThisTask.do = "nothing" /\ phase \in {"type", "lower"}
    BY <1>13 DEF PassOver, Does, typingVars
  <2>2. \A r : ~ TypesQuery(program, ThisTask, r)
    BY <2>1 DEF TypesQuery
  <2>3. CASE phase = "type"
    BY <1>11, <2>1, <2>2, <2>3
  <2>4. CASE phase = "lower"
    BY <1>4, <1>10, <2>1, <2>4
  <2> QED
    BY <2>1, <2>3, <2>4
<1>14. CASE StartTyping
  <2> DEFINE q == program.root
             f == Frame(q, TypeTasks(q), NoCte)
  <2>1. /\ phase = "bind" /\ phase' = "type" /\ calls' = <<f>>
        /\ entries' = Register(q) /\ typings' = Counted(typings, q)
    BY <1>14 DEF StartTyping
  <2>2. q \in QueryId /\ \A c \in Ctes(program) : CteQuery(program, c) # q
    <3>1. q \in QueryId
      BY <1>1, ProgramsAssumption DEF Program
    <3>2. \A r \in QueryId : q \notin Parts(program, r)
      BY <1>1, PartsFacts
    <3> QED
      BY <1>1, <3>1, <3>2, CteQueryFacts
  <2>3. f.tasks = TypeTasks(q) /\ f.for = NoCte /\ f \in CallType(program)
    <3> HIDE DEF q
    <3>1. TypeTasks(q) \in Seq(TaskType(program))
      BY <1>1, <2>2, TypeTasksFacts
    <3>2. Frame(q, TypeTasks(q), NoCte) \in CallType(program)
      BY <1>1, <1>3, <2>2, <3>1, FrameFacts
    <3> QED
      BY <3>2 DEF Frame
  <2> HIDE DEF f, q
  <2>4. DOMAIN calls' = {1} /\ calls'[1] = f
    BY <2>1, <2>3, FirstCall
  <2>5. /\ EntriesCount(program, entries', typings')
        /\ \A c \in Ctes(program) : entries'[c] = "Typing" <=> entries[c] = "Typing"
    BY <1>1, <1>4, <2>1, <2>2, EntriesRegistered
  <2>6. \A r \in QueryId : typings'[r] = IF r = q THEN 1 ELSE 0
    <3>1. typings[q] = 0 /\ \A r \in QueryId : typings[r] = 0
      BY <1>4, <2>1, <2>2
    <3>2. typings'[q] = typings[q] + 1 /\ \A r \in QueryId : r # q => typings'[r] = typings[r]
      BY <1>1, <2>1, <2>2, CountedFacts
    <3> QED
      BY <3>1, <3>2
  <2>7. \A c \in Ctes(program) : entries[c] # "Typing"
    BY <1>4, <1>5, <2>1 DEF EntriesCount
  <2>8. \A c \in Ctes(program) : ~ IsActive(calls', c)
    BY <1>5, <2>3, <2>4 DEF IsActive
  <2>9. ForOnce(calls')
    BY <2>4 DEF ForOnce
  <2>10. \A r \in Parts(program, q) : ToType(program, calls', r)
    <3>1. TypesParts(program, q, f.tasks)
      BY <1>1, <2>2, <2>3, TypeTasksFacts
    <3> QED
      BY <2>4, <3>1 DEF ToType, TypesParts
  <2>11. PartsAreTyped(program, calls', typings')
    BY <2>2, <2>6, <2>10 DEF PartsAreTyped, q
  <2>12. TypingGoesOn(program, calls', entries', typings')
    BY <2>5, <2>7, <2>8, <2>9, <2>11 DEF TypingGoesOn
  <2> QED
    BY <1>9, <2>1, <2>5, <2>12
<1>15. CASE TypeQuery
  <2> DEFINE q == ThisTask.query
  <2>1. /\ phase = "type" /\ phase' = "type" /\ ThisTask.do = "type"
        /\ calls' = Append(TakenUp(<<>>), Frame(q, TypeTasks(q), NoCte))
        /\ entries' = Register(q) /\ typings' = Counted(typings, q)
    BY <1>15 DEF TypeQuery, Does
  <2>2. /\ q \in QueryId /\ calls # <<>> /\ ThisCall.tasks # <<>>
        /\ ThisCall.query \in QueryId /\ IsNested(program, ThisCall.query, q)
    BY <1>15, ThisTaskFacts DEF TypeQuery
  <2>3. \A c \in Ctes(program) : CteQuery(program, c) # q
    BY <1>1, <2>2, NestedFacts
  <2>4. \A r : TypesQuery(program, ThisTask, r) => r = q
    BY <2>1 DEF TypesQuery
  <2> HIDE DEF q
  <2>5. /\ EntriesCount(program, entries', typings')
        /\ \A c \in Ctes(program) : entries'[c] = "Typing" <=> entries[c] = "Typing"
    BY <1>1, <1>4, <2>1, <2>2, <2>3, EntriesRegistered
  <2>6. /\ typings[q] \in Nat /\ typings'[q] = typings[q] + 1
        /\ \A r \in QueryId : r # q => typings'[r] = typings[r]
    BY <1>1, <2>1, <2>2, CountedFacts
  <2>7. \A r \in QueryId :
          typings[r] > 0 \/ TypesQuery(program, ThisTask, r) => typings'[r] > 0
    BY <2>4, <2>6
  <2>8. /\ TypeTasks(q) \in Seq(TaskType(program))
        /\ TypesParts(program, q, TypeTasks(q))
    BY <1>1, <2>2, TypeTasksFacts
  <2>9. \A r \in QueryId : typings'[r] > 0 =>
          typings[r] > 0 \/ (r = q /\ TypesParts(program, q, TypeTasks(q)))
    BY <2>6, <2>8
  <2>10. \A c \in Ctes(program) : entries'[c] = "Typing" <=> entries[c] = "Typing" \/ NoCte = c
    BY <1>5, <2>5
  <2>11. GoesInto(q, TypeTasks(q), NoCte, <<>>, entries', typings')
    BY <2>7, <2>9, <2>10 DEF GoesInto
  <2>12. TypingGoesOn(program, calls', entries', typings')
    BY <1>1, <1>3, <1>4, <2>1, <2>2, <2>8, <2>11, TypingInto
  <2> QED
    BY <1>9, <2>1, <2>5, <2>12
<1>16. CASE HintQuery
  <2> DEFINE q == ThisTask.query
             u == Task("type", q, NoCte)
  <2>1. /\ phase = "type" /\ phase' = "type" /\ ThisTask.do \in {"hint", "in"}
        /\ calls' = Append(TakenUp(LeftOfHint), Frame(q, HintTasks(q), NoCte))
        /\ entries' = Register(q) /\ typings' = typings
    BY <1>16 DEF HintQuery, Does, LeftOfHint
  <2>2. /\ q \in QueryId /\ calls # <<>> /\ ThisCall.tasks # <<>>
        /\ ThisTask \in TaskType(program)
    BY <1>16, ThisTaskFacts DEF HintQuery
  <2>3. /\ LeftOfHint \in Seq(TaskType(program))
        /\ ThisTask.do = "in" => u \in Elements(LeftOfHint)
    BY <2>2, RestFacts DEF LeftOfHint
  <2>4. TypesQuery(program, u, q)
    BY DEF TypesQuery, Task
  <2>5. \A r : TypesQuery(program, ThisTask, r) => ThisTask.do = "in" /\ r = q
    BY <2>1 DEF TypesQuery
  <2> HIDE DEF q, u
  <2>6. /\ EntriesCount(program, entries', typings')
        /\ \A c \in Ctes(program) : entries'[c] = "Typing" <=> entries[c] = "Typing"
    BY <1>1, <1>4, <2>1, <2>2, EntriesRegistered
  <2>7. \A r \in QueryId : TypesQuery(program, ThisTask, r) =>
          \E t \in Elements(LeftOfHint) : TypesQuery(program, t, r)
    BY <2>3, <2>4, <2>5
  <2>8. HintTasks(q) \in Seq(TaskType(program))
    BY <1>1, <2>2, HintTasksFacts
  <2>9. \A c \in Ctes(program) : entries'[c] = "Typing" <=> entries[c] = "Typing" \/ NoCte = c
    BY <1>5, <2>6
  <2>10. GoesInto(q, HintTasks(q), NoCte, LeftOfHint, entries', typings')
    BY <2>1, <2>7, <2>9 DEF GoesInto
  <2>11. TypingGoesOn(program, calls', entries', typings')
    BY <1>1, <1>3, <1>4, <2>1, <2>2, <2>3, <2>8, <2>10, TypingInto
  <2> QED
    BY <1>9, <2>1, <2>6, <2>11
<1>17. CASE TypeCte
  <2> DEFINE c == ThisTask.cte
             q == CteQuery(program, c)
  <2>1. /\ phase = "type" /\ phase' = "type" /\ ThisTask.do = "cte" /\ entries[c] = "Unvisited"
        /\ calls' = Append(TakenUp(<<>>), Frame(q, TypeTasks(q), c))
        /\ entries' = [Register(q) EXCEPT ![c] = "Typing"] /\ typings' = Counted(typings, q)
    BY <1>17 DEF TypeCte, Does
  <2>2. /\ c \in Ctes(program) /\ q \in QueryId /\ calls # <<>> /\ ThisCall.tasks # <<>>
        /\ ~ IsActive(calls, c)
    BY <1>17, ThisTaskFacts DEF TypeCte
  <2>3. \A r : TypesQuery(program, ThisTask, r) => r = q
    BY <2>1 DEF TypesQuery
  <2>4. q = CteQuery(program, c) /\ \A d \in Ctes(program) : CteQuery(program, d) = q => d = c
    BY <1>1, <2>2, CteQueryFacts
  <2> HIDE DEF c, q
  <2>5. /\ EntriesCount(program, Register(q), typings)
        /\ \A d \in Ctes(program) : Register(q)[d] = "Typing" <=> entries[d] = "Typing"
        /\ Register(q) \in [Ctes(program) -> EntryStates]
    BY <1>1, <1>4, <2>2, EntriesRegistered, RegisterFacts
  <2>6. /\ entries'[c] = "Typing"
        /\ \A d \in Ctes(program) : d # c => entries'[d] = Register(q)[d]
    BY <2>1, <2>2, <2>5
  <2>7. /\ typings[q] \in Nat /\ typings'[q] = typings[q] + 1
        /\ \A r \in QueryId : r # q => typings'[r] = typings[r]
    BY <1>1, <2>1, <2>2, CountedFacts
  <2>8. EntriesCount(program, entries', typings')
    <3>1. typings[q] = 0
      BY <1>4, <2>1, <2>2, <2>4 DEF EntriesCount
    <3>2. ASSUME NEW d \in Ctes(program)
          PROVE  typings'[CteQuery(program, d)]
                   = IF entries'[d] \in {"Typing", "Typed"} THEN 1 ELSE 0
      <4>1. CASE d = c
        BY <2>4, <2>6, <2>7, <3>1, <4>1
      <4>2. CASE d # c
        <5>1. typings'[CteQuery(program, d)] = typings[CteQuery(program, d)]
          BY <1>5, <2>4, <2>7, <4>2
        <5>2. entries'[d] = Register(q)[d]
          BY <2>6, <4>2
        <5> QED
          BY <2>5, <5>1, <5>2 DEF EntriesCount
      <4> QED
        BY <4>1, <4>2
    <3> QED
      BY <3>2 DEF EntriesCount
  <2>9. \A r \in QueryId :
          typings[r] > 0 \/ TypesQuery(program, ThisTask, r) => typings'[r] > 0
    BY <2>3, <2>7
  <2>10. /\ TypeTasks(q) \in Seq(TaskType(program))
         /\ TypesParts(program, q, TypeTasks(q))
    BY <1>1, <2>2, TypeTasksFacts
  <2>11. \A r \in QueryId : typings'[r] > 0 =>
           typings[r] > 0 \/ (r = q /\ TypesParts(program, q, TypeTasks(q)))
    BY <2>7, <2>10
  <2>12. \A d \in Ctes(program) : entries'[d] = "Typing" <=> entries[d] = "Typing" \/ c = d
    BY <2>5, <2>6
  <2>13. GoesInto(q, TypeTasks(q), c, <<>>, entries', typings')
    BY <2>2, <2>9, <2>11, <2>12 DEF GoesInto
  <2>14. TypingGoesOn(program, calls', entries', typings')
    BY <1>1, <1>3, <1>4, <2>1, <2>2, <2>10, <2>13, TypingInto
  <2> QED
    BY <1>9, <2>1, <2>8, <2>14
<1>18. CASE ReuseTyped
  <2>1. /\ phase = "type" /\ phase' = phase /\ entries' = entries /\ typings' = typings
        /\ calls # <<>> /\ ThisCall.tasks # <<>> /\ calls' = TakenUp(<<>>)
        /\ ThisTask.do = "cte" /\ entries[ThisTask.cte] = "Typed"
    BY <1>18 DEF ReuseTyped, Does, typingVars
  <2>2. ThisTask.cte \in Ctes(program)
    BY <1>18, ThisTaskFacts DEF ReuseTyped
  <2>3. typings[CteQuery(program, ThisTask.cte)] = 1
    BY <1>4, <2>1, <2>2 DEF EntriesCount
  <2>4. \A r : TypesQuery(program, ThisTask, r) => typings[r] > 0
    BY <2>1, <2>3 DEF TypesQuery
  <2> QED
    BY <1>11, <2>1, <2>4
<1>19. CASE ReturnTyped
  <2> DEFINE c == ThisCall.for
  <2>1. /\ phase = "type" /\ phase' = "type" /\ calls # <<>> /\ ThisCall.tasks = <<>>
        /\ calls' = Popped /\ typings' = typings
        /\ entries' = IF c = NoCte THEN entries ELSE [entries EXCEPT ![c] = "Typed"]
    BY <1>19 DEF ReturnTyped, Done
  <2>2. /\ Len(calls) \in Nat \ {0} /\ DOMAIN calls = 1 .. Len(calls)
        /\ ThisCall \in CallType(program) /\ ThisCall = calls[Len(calls)]
        /\ Len(calls) \in DOMAIN calls
    BY <1>1, <2>1, InnermostCall
  <2>3. /\ DOMAIN calls' = 1 .. Len(calls) - 1
        /\ \A i \in DOMAIN calls' : i \in DOMAIN calls /\ calls'[i] = calls[i]
    BY <1>1, <2>1, PoppedFacts
  <2>4. c \in Ctes(program) \cup {NoCte} /\ IsActive(calls, c)
    BY <2>2 DEF CallType, IsActive
  <2>5. c = calls[Len(calls)].for /\ calls[Len(calls)].tasks = <<>>
    BY <2>1, <2>2
  <2> HIDE DEF c
  <2>6. /\ \A d \in Ctes(program) : entries[d] = "Typing" <=> IsActive(calls, d)
        /\ ForOnce(calls) /\ PartsAreTyped(program, calls, typings)
    BY <1>4, <2>1 DEF TypingGoesOn
  <2>7. /\ \A d : IsActive(calls, d) <=> IsActive(calls', d) \/ c = d
        /\ ForOnce(calls') /\ (c # NoCte => ~ IsActive(calls', c))
    BY <2>2, <2>3, <2>5, <2>6, ActiveLess
  <2>8. PartsAreTyped(program, calls', typings')
    BY <2>1, <2>2, <2>3, <2>5, <2>6, PartsPopped
  <2>9. \A d \in Ctes(program) :
          entries'[d] = IF d = c THEN "Typed" ELSE entries[d]
    BY <1>1, <1>5, <2>1, <2>4
  <2>10. \A d \in Ctes(program) : entries'[d] = "Typing" <=> IsActive(calls', d)
    BY <1>5, <2>6, <2>7, <2>9
  <2>11. EntriesCount(program, entries', typings')
    <3>1. \A d \in Ctes(program) :
            entries'[d] \in {"Typing", "Typed"} <=> entries[d] \in {"Typing", "Typed"}
      BY <2>4, <2>6, <2>9
    <3> QED
      BY <1>4, <2>1, <3>1 DEF EntriesCount
  <2>12. TypingGoesOn(program, calls', entries', typings')
    BY <2>7, <2>8, <2>10 DEF TypingGoesOn
  <2> QED
    BY <1>9, <2>1, <2>11, <2>12
<1>20. CASE RejectTypes
  BY <1>12, <1>20 DEF RejectTypes, PhasesNext, typingVars
<1>21. CASE StartLowering
  BY <1>10, <1>21, TypingEnds DEF StartLowering, typingVars
<1>22. CASE LowerQuery \/ LowerCte \/ ReuseLowered \/ ReturnLowered
  <2>1. phase = "lower" /\ phase' \in {"lower", "lowered"} /\ UNCHANGED <<entries, typings>>
    BY <1>22 DEF LowerQuery, LowerCte, ReuseLowered, ReturnLowered, Does, Done, typingVars
  <2> QED
    BY <1>4, <1>10, <2>1
<1> QED
  BY <1>7, <1>8, <1>13, <1>14, <1>15, <1>16, <1>17, <1>18, <1>19, <1>20, <1>21, <1>22
  DEF PhasesNext

-----------------------------------------------------------------------------
(* Every step keeps what is known of lowering.                             *)

(* What is left of the tasks of a call is still left once, without what    *)
(* was taken up.                                                           *)
LEMMA LeftOnceTail ==
  ASSUME NEW T, NEW s \in Seq(T), s # <<>>, NEW counts, LeftOnce(counts, s)
  PROVE  /\ LeftOnce(counts, <<>> \o Tail(s))
         /\ \A r \in QueryId : Lowers(s[1], r) => \A t \in Elements(<<>> \o Tail(s)) : ~ Lowers(t, r)
<1> DEFINE u == Tail(s)
<1>1. /\ u \in Seq(T) /\ Len(u) = Len(s) - 1
      /\ \A i \in 1 .. Len(u) : u[i] = s[i + 1]
  BY HeadTailProperties
<1>2. Len(s) \in Nat \ {0} /\ DOMAIN u = 1 .. Len(u) /\ DOMAIN s = 1 .. Len(s)
  BY <1>1, EmptySeq, LenProperties
<1>3. Elements(s) = {s[1]} \cup Elements(u)
  BY ElementsFacts
<1> HIDE DEF u
<1>4. <<>> \o u = u
  BY <1>1
<1>5. \A k \in DOMAIN u : k + 1 \in DOMAIN s /\ u[k] = s[k + 1]
  BY <1>1, <1>2
<1>6. ASSUME NEW k \in DOMAIN u, NEW l \in DOMAIN u, NEW r \in QueryId,
             Lowers(u[k], r), Lowers(u[l], r)
      PROVE  k = l
  <2>1. k + 1 = l + 1
    BY <1>5, <1>6 DEF LeftOnce
  <2> QED
    BY <1>2, <2>1
<1>7. LeftOnce(counts, u)
  BY <1>3, <1>6 DEF LeftOnce
<1>8. ASSUME NEW r \in QueryId, Lowers(s[1], r), NEW t \in Elements(u) PROVE ~ Lowers(t, r)
  <2>1. PICK k \in DOMAIN u : t = u[k]
    BY <1>8 DEF Elements
  <2>2. 1 \in DOMAIN s /\ k + 1 # 1
    BY <1>2
  <2> QED
    BY <1>5, <1>8, <2>1, <2>2 DEF LeftOnce
<1> QED
  BY <1>4, <1>7, <1>8 DEF u

(* No other query expression than q is counted.                            *)
CountsOnly(q, counts, more) == \A r \in QueryId : r # q => more[r] = counts[r]

(* A step that counts only q leaves calls lowering that do not lower q.    *)
LEMMA StillLowering ==
  ASSUME NEW p \in Programs, NEW counts, NEW more, NEW c, NEW q, IsLowering(p, counts, c),
         c.query \in QueryId, c.query # q,
         \A t \in Elements(c.tasks) : Stands(p, c.query, t),
         \A t \in Elements(c.tasks) : ~ Lowers(t, q),
         CountsOnly(q, counts, more)
  PROVE  IsLowering(p, more, c)
<1>1. ASSUME NEW t \in Elements(c.tasks), t.do = "lower" PROVE more[t.query] = 0
  <2>1. t.query # q /\ counts[t.query] = 0
    BY <1>1 DEF Lowers, IsLowering, LeftOnce
  <2>2. IsNested(p, c.query, t.query)
    BY <1>1 DEF Stands
  <2>3. t.query \in QueryId
    BY <2>2, NestedFacts
  <2> QED
    BY <2>1, <2>3 DEF CountsOnly
<1>2. LeftOnce(more, c.tasks)
  BY <1>1 DEF IsLowering, LeftOnce
<1> QED
  BY <1>2 DEF IsLowering, CountsOnly

(* The innermost call without the task that was taken up.                  *)
LEMMA LoweringRest ==
  ASSUME NEW p, NEW c \in CallType(p), c.tasks # <<>>, NEW counts, IsLowering(p, counts, c),
         NEW d, d.query = c.query, d.tasks = <<>> \o Tail(c.tasks)
  PROVE  /\ IsLowering(p, counts, d)
         /\ Elements(d.tasks) \subseteq Elements(c.tasks)
         /\ \A r \in QueryId : Lowers(c.tasks[1], r) => \A t \in Elements(d.tasks) : ~ Lowers(t, r)
<1> DEFINE s == c.tasks
           u == Tail(s)
           T == TaskType(p)
<1>1. s \in Seq(T) /\ s # <<>>
  BY DEF CallType
<1> HIDE DEF s, T
<1>2. LeftOnce(counts, s)
  BY DEF IsLowering, s
<1>3. /\ LeftOnce(counts, <<>> \o Tail(s))
      /\ \A r \in QueryId : Lowers(s[1], r) => \A t \in Elements(<<>> \o Tail(s)) : ~ Lowers(t, r)
  BY <1>1, <1>2, LeftOnceTail
<1>4. Elements(s) = {s[1]} \cup Elements(u)
  BY <1>1, ElementsFacts
<1>5. <<>> \o u = u
  <2>1. u \in Seq(T)
    BY <1>1, HeadTailProperties
  <2> HIDE DEF u
  <2> QED
    BY <2>1
<1>6. Elements(d.tasks) \subseteq Elements(c.tasks)
  BY <1>4, <1>5 DEF s
<1>7. IsLowering(p, counts, d)
  <2>1. LeftOnce(counts, d.tasks)
    BY <1>3 DEF s
  <2> HIDE DEF u
  <2> QED
    BY <1>6, <2>1 DEF IsLowering
<1> QED
  BY <1>3, <1>6, <1>7 DEF s

(* The query expressions of the calls stay different.                      *)
LEMMA QueryOnceFacts ==
  ASSUME NEW C, NEW D, NEW rest, Advances(C, D, rest), QueryOnce(C)
  PROVE  /\ DOMAIN D = DOMAIN C => QueryOnce(D)
         /\ \A f : /\ DOMAIN D = 1 .. Len(C) + 1 /\ D[Len(C) + 1] = f
                   /\ \A i \in DOMAIN C : C[i].query # f.query
                   => QueryOnce(D)
<1> DEFINE n == Len(C)
<1>1. /\ n \in Nat \ {0} /\ DOMAIN C = 1 .. n
      /\ \A i \in DOMAIN C : i \in DOMAIN D /\ D[i].query = C[i].query
  BY DEF Advances
<1>2. DOMAIN D = DOMAIN C => QueryOnce(D)
  BY <1>1 DEF QueryOnce
<1>3. ASSUME NEW f, DOMAIN D = 1 .. n + 1, D[n + 1] = f,
             \A i \in DOMAIN C : C[i].query # f.query
      PROVE  QueryOnce(D)
  <2>1. \A i \in DOMAIN D : i \in DOMAIN C \/ i = n + 1
    BY <1>1, <1>3
  <2> HIDE DEF n
  <2>2. ASSUME NEW i \in DOMAIN D, NEW j \in DOMAIN D, D[i].query = D[j].query PROVE i = j
    <3>1. CASE i \in DOMAIN C /\ j \in DOMAIN C
      BY <1>1, <2>2, <3>1 DEF QueryOnce
    <3>2. CASE i = n + 1 /\ j \in DOMAIN C
      BY <1>1, <1>3, <2>2, <3>2
    <3>3. CASE i \in DOMAIN C /\ j = n + 1
      BY <1>1, <1>3, <2>2, <3>3
    <3> QED
      BY <2>1, <3>1, <3>2, <3>3
  <2> QED
    BY <2>2 DEF QueryOnce
<1> QED
  BY <1>2, <1>3

(* The innermost call goes on.                                             *)
LEMMA LoweringTaken ==
  ASSUME PhasesTypeOK, LoweringGoesOn(program, calls, lowered, lowerings),
         calls # <<>>, ThisCall.tasks # <<>>
  PROVE  LoweringGoesOn(program, TakenUp(<<>>), lowered, lowerings)
<1> DEFINE D == TakenUp(<<>>)
           n == Len(calls)
<1>1. calls \in Seq(CallType(program)) /\ <<>> \in Seq(TaskType(program))
  BY EmptySeq DEF PhasesTypeOK
<1>2. DOMAIN D = DOMAIN calls /\ Advances(calls, D, <<>>)
  BY <1>1, AdvanceFacts
<1> HIDE DEF D
<1>3. /\ n \in DOMAIN calls
      /\ \A i \in DOMAIN calls : i # n => D[i] = calls[i]
      /\ D[n].query = calls[n].query /\ D[n].tasks = <<>> \o Tail(calls[n].tasks)
  BY <1>2 DEF Advances
<1>4. calls[n] \in CallType(program) /\ calls[n].tasks # <<>>
  BY InnermostCall
<1>5. \A i \in DOMAIN calls : IsLowering(program, lowerings, calls[i])
  BY DEF LoweringGoesOn
<1> HIDE DEF n
<1>6. IsLowering(program, lowerings, D[n])
  <2> DEFINE c == calls[n]
             d == D[n]
  <2>1. /\ c \in CallType(program) /\ c.tasks # <<>> /\ IsLowering(program, lowerings, c)
        /\ d.query = c.query /\ d.tasks = <<>> \o Tail(c.tasks)
    BY <1>3, <1>4, <1>5
  <2> HIDE DEF c, d
  <2>2. IsLowering(program, lowerings, d)
    BY <2>1, LoweringRest
  <2> QED
    BY <2>2 DEF d
<1>7. \A i \in DOMAIN D : IsLowering(program, lowerings, D[i])
  BY <1>2, <1>3, <1>5, <1>6
<1>8. QueryOnce(D)
  BY <1>2, QueryOnceFacts DEF LoweringGoesOn
<1>9. \A c : IsActive(D, c) <=> IsActive(calls, c)
  BY <1>2, ActiveFacts
<1> QED
  BY <1>7, <1>8, <1>9 DEF LoweringGoesOn, D

(* A call is added for q, which was not lowered, and the declaration `for`.*)
LEMMA LoweringInto ==
  ASSUME PhasesTypeOK, AreScoped(program, definitions, calls),
         LoweringGoesOn(program, calls, lowered, lowerings),
         calls # <<>>, ThisCall.tasks # <<>>,
         NEW q \in QueryId, NEW for \in Ctes(program) \cup {NoCte},
         lowerings[q] = 0, q \in Needed(program),
         \A r \in QueryId : IsNested(program, r, q) => r = ThisCall.query /\ Lowers(ThisTask, q),
         \A c \in Ctes(program) : CteQuery(program, c) = q <=> for = c
  PROVE  LoweringGoesOn(program, Append(TakenUp(<<>>), Frame(q, LowerTasks(q), for)),
                        lowered, Counted(lowerings, q))
<1> DEFINE f == Frame(q, LowerTasks(q), for)
           D == Append(TakenUp(<<>>), f)
           n == Len(calls)
           more == Counted(lowerings, q)
<1>1. /\ program \in Programs /\ calls \in Seq(CallType(program))
      /\ lowerings \in [QueryId -> Nat] /\ <<>> \in Seq(TaskType(program))
  BY EmptySeq DEF PhasesTypeOK
<1>2. /\ LowerTasks(q) \in Seq(TaskType(program))
      /\ \A t \in Elements(LowerTasks(q)) : Stands(program, q, t)
      /\ \A k, l \in DOMAIN LowerTasks(q) : \A r \in QueryId :
           Lowers(LowerTasks(q)[k], r) /\ Lowers(LowerTasks(q)[l], r) => k = l
      /\ \A t \in Elements(LowerTasks(q)) : t.do = "cte" => IsNamed(program, q, t.cte)
  BY <1>1, LowerTasksFacts
<1>3. f.query = q /\ f.tasks = LowerTasks(q) /\ f.for = for /\ f \in CallType(program)
  <2>1. Frame(q, LowerTasks(q), for) \in CallType(program)
    BY <1>1, <1>2, FrameFacts
  <2> QED
    BY <2>1 DEF Frame
<1> HIDE DEF f
<1>4. DOMAIN D = 1 .. n + 1 /\ D[n + 1] = f /\ Advances(calls, D, <<>>)
  BY <1>1, <1>3, AdvanceFacts
<1> HIDE DEF D
<1>5. /\ n \in DOMAIN calls /\ DOMAIN calls = 1 .. n /\ n \in Nat \ {0}
      /\ \A i \in DOMAIN calls : i # n => D[i] = calls[i]
      /\ D[n].query = calls[n].query /\ D[n].tasks = <<>> \o Tail(calls[n].tasks)
  BY <1>4 DEF Advances
<1>6. /\ ThisCall = calls[n] /\ calls[n].tasks # <<>> /\ ThisTask = calls[n].tasks[1]
  BY DEF ThisCall, ThisTask
<1> HIDE DEF n
<1>7. /\ more[q] = 1 /\ \A r \in QueryId : r # q => more[r] = lowerings[r]
      /\ CountsOnly(q, lowerings, more)
  BY <1>1, CountedFacts DEF CountsOnly
<1> HIDE DEF more
<1>8. /\ lowerings[program.root] = 1 /\ program.root \in QueryId
      /\ \A r \in QueryId : lowerings[r] \in {0, 1}
      /\ \A r \in QueryId : lowerings[r] = 1 => r \in Needed(program)
      /\ \A c \in Ctes(program) :
           lowerings[CteQuery(program, c)] = 1 <=> c \in lowered \/ IsActive(calls, c)
      /\ \A r, x \in QueryId : IsNested(program, r, x) /\ lowerings[x] = 1 => lowerings[r] = 1
      /\ QueryOnce(calls)
      /\ \A i \in DOMAIN calls : IsLowering(program, lowerings, calls[i])
  BY <1>1, ProgramsAssumption DEF LoweringGoesOn, Program
<1>9. \A i \in DOMAIN calls : /\ calls[i] \in CallType(program)
                              /\ calls[i].query \in QueryId /\ calls[i].query # q
  <2>1. \A i \in DOMAIN calls : calls[i] \in CallType(program)
    BY <1>1, <1>5, ElementOfSeq
  <2>2. \A i \in DOMAIN calls : calls[i].query \in QueryId
    BY <2>1 DEF CallType
  <2>3. \A i \in DOMAIN calls : lowerings[calls[i].query] = 1
    BY <1>8 DEF IsLowering
  <2> QED
    BY <2>1, <2>2, <2>3
<1>10. \A i \in DOMAIN calls : \A t \in Elements(calls[i].tasks) : Stands(program, calls[i].query, t)
  BY DEF AreScoped, CallStands
<1>11. ASSUME NEW i \in DOMAIN calls, NEW t \in Elements(calls[i].tasks), Lowers(t, q)
       PROVE  i = n /\ Lowers(ThisTask, q)
  <2>1. IsNested(program, calls[i].query, q)
    BY <1>10, <1>11 DEF Stands, Lowers
  <2>2. calls[i].query = calls[n].query /\ Lowers(ThisTask, q)
    BY <1>6, <1>9, <2>1
  <2> QED
    BY <1>5, <1>8, <2>2 DEF QueryOnce
<1>12. ASSUME NEW i \in DOMAIN calls, i # n PROVE IsLowering(program, more, D[i])
  <2>1. D[i] = calls[i]
    BY <1>5, <1>12
  <2>2. \A t \in Elements(calls[i].tasks) : ~ Lowers(t, q)
    BY <1>11, <1>12
  <2>3. IsLowering(program, more, calls[i])
    BY <1>1, <1>7, <1>8, <1>9, <1>10, <2>2, StillLowering
  <2> QED
    BY <2>1, <2>3
<1>13. IsLowering(program, more, D[n])
  <2> DEFINE c == calls[n]
             d == D[n]
  <2>1. /\ c \in CallType(program) /\ c.tasks # <<>> /\ IsLowering(program, lowerings, c)
        /\ d.query = c.query /\ d.tasks = <<>> \o Tail(c.tasks)
    BY <1>5, <1>6, <1>8, <1>9
  <2>2. /\ d.query \in QueryId /\ d.query # q
        /\ \A t \in Elements(c.tasks) : Stands(program, d.query, t)
        /\ \A t \in Elements(c.tasks) : Lowers(t, q) => Lowers(c.tasks[1], q)
    BY <1>5, <1>6, <1>9, <1>10, <1>11
  <2> HIDE DEF c, d
  <2>3. /\ IsLowering(program, lowerings, d)
        /\ Elements(d.tasks) \subseteq Elements(c.tasks)
        /\ \A r \in QueryId : Lowers(c.tasks[1], r) => \A t \in Elements(d.tasks) : ~ Lowers(t, r)
    BY <2>1, LoweringRest
  <2>4. \A t \in Elements(d.tasks) : Stands(program, d.query, t) /\ ~ Lowers(t, q)
    BY <2>2, <2>3
  <2>5. IsLowering(program, more, d)
    BY <1>1, <1>7, <2>2, <2>3, <2>4, StillLowering
  <2> QED
    BY <2>5 DEF d
<1>14. IsLowering(program, more, f)
  <2>1. ASSUME NEW t \in Elements(LowerTasks(q)), t.do = "lower" PROVE more[t.query] = 0
    <3>1. IsNested(program, q, t.query)
      BY <1>2, <2>1 DEF Stands
    <3>2. t.query \in QueryId /\ t.query # q
      BY <1>1, <3>1, NestedFacts
    <3>3. lowerings[t.query] # 1
      BY <1>8, <3>1, <3>2
    <3> QED
      BY <1>7, <1>8, <3>2, <3>3
  <2> QED
    BY <1>2, <1>3, <1>7, <2>1 DEF IsLowering, LeftOnce
<1>15. \A i \in DOMAIN D : IsLowering(program, more, D[i])
  <2>1. \A i \in DOMAIN D : i \in DOMAIN calls \/ i = n + 1
    BY <1>4, <1>5
  <2> QED
    BY <1>4, <1>12, <1>13, <1>14, <2>1
<1>16. QueryOnce(D)
  <2>1. \A i \in DOMAIN calls : calls[i].query # f.query
    BY <1>3, <1>9
  <2> QED
    BY <1>4, <1>8, <2>1, QueryOnceFacts DEF n
<1>17. \A c : IsActive(D, c) <=> IsActive(calls, c) \/ f.for = c
  BY <1>4, ActiveFacts DEF n
<1>18. \A c \in Ctes(program) : more[CteQuery(program, c)] = 1 <=> c \in lowered \/ IsActive(D, c)
  <2>1. \A c \in Ctes(program) : CteQuery(program, c) \in QueryId
    BY <1>1, CteQueryFacts
  <2> QED
    BY <1>3, <1>7, <1>8, <1>17, <2>1
<1>19. ASSUME NEW r \in QueryId, NEW x \in QueryId, IsNested(program, r, x), more[x] = 1
       PROVE  more[r] = 1
  <2>1. CASE x = q
    <3>1. r = calls[n].query
      BY <1>6, <1>19, <2>1
    <3>2. lowerings[r] = 1 /\ r # q
      BY <1>5, <1>8, <1>9, <3>1 DEF IsLowering
    <3> QED
      BY <1>7, <3>2
  <2>2. CASE x # q
    BY <1>7, <1>8, <1>19, <2>2
  <2> QED
    BY <2>1, <2>2
<1>20. /\ more[program.root] = 1
       /\ \A r \in QueryId : more[r] \in {0, 1}
       /\ \A r \in QueryId : more[r] = 1 => r \in Needed(program)
  BY <1>7, <1>8
<1> QED
  BY <1>15, <1>16, <1>18, <1>19, <1>20 DEF LoweringGoesOn, D, f, more

(* The innermost call returns.                                             *)
LEMMA LoweringPopped ==
  ASSUME PhasesTypeOK, LoweringGoesOn(program, calls, lowered, lowerings), calls # <<>>
  PROVE  LoweringGoesOn(program, Popped, lowered \cup ({ThisCall.for} \ {NoCte}), lowerings)
<1> DEFINE D == Popped
           n == Len(calls)
           done == lowered \cup ({ThisCall.for} \ {NoCte})
<1>1. /\ n \in Nat \ {0} /\ DOMAIN calls = 1 .. n /\ ThisCall = calls[n]
      /\ program \in Programs
  BY InnermostCall DEF PhasesTypeOK
<1>2. /\ DOMAIN D = 1 .. n - 1
      /\ \A i \in DOMAIN D : i \in DOMAIN calls /\ D[i] = calls[i]
  BY PoppedFacts
<1> HIDE DEF D
<1>3. \A c : IsActive(calls, c) <=> IsActive(D, c) \/ calls[n].for = c
  BY <1>1, <1>2, ActiveLess
<1>4. \A c \in Ctes(program) : c # NoCte
  BY <1>1, CteQueryFacts
<1>5. \A c \in Ctes(program) : c \in lowered \/ IsActive(calls, c) <=> c \in done \/ IsActive(D, c)
  BY <1>1, <1>3, <1>4
<1> HIDE DEF done
<1>6. QueryOnce(D)
  BY <1>2 DEF LoweringGoesOn, QueryOnce
<1>7. \A i \in DOMAIN D : IsLowering(program, lowerings, D[i])
  BY <1>2 DEF LoweringGoesOn
<1>8. LoweringGoesOn(program, D, done, lowerings)
  BY <1>5, <1>6, <1>7 DEF LoweringGoesOn
<1> QED
  BY <1>8 DEF D, done

(* What a set of query expressions that is closed under needs has.         *)
IsClosed(p, S) ==
  /\ p.root \in S
  /\ \A r \in S : \A item \in Elements(p.queries[r].items) :
       /\ item.name = None => item.query \in S
       /\ item.name # None /\ Meaning(p, r, item.name) # NoCte
            => CteQuery(p, Meaning(p, r, item.name)) \in S

(* The root is needed, and what is nested or named in what is needed.      *)
LEMMA NeededFacts ==
  ASSUME NEW p \in Programs
  PROVE  /\ p.root \in Needed(p)
         /\ \A q \in Needed(p) : \A r : IsNested(p, q, r) => r \in Needed(p)
         /\ \A q \in Needed(p) : \A c \in Ctes(p) : IsNamed(p, q, c) => CteQuery(p, c) \in Needed(p)
         /\ \A S \in SUBSET QueryId : IsClosed(p, S) => Needed(p) \subseteq S
<1>1. Needed(p) = {q \in QueryId : \A S \in SUBSET QueryId : IsClosed(p, S) => q \in S}
  BY DEF Needed, IsClosed
<1>2. p.root \in QueryId
  BY ProgramsAssumption DEF Program
<1>3. p.root \in Needed(p)
  BY <1>1, <1>2 DEF IsClosed
<1>4. ASSUME NEW q \in Needed(p), NEW r, IsNested(p, q, r) PROVE r \in Needed(p)
  <2>1. q \in QueryId
    BY <1>1
  <2>2. r \in QueryId
    BY <1>4, <2>1, NestedFacts
  <2>3. PICK i \in DOMAIN p.queries[q].items :
          p.queries[q].items[i].name = None /\ p.queries[q].items[i].query = r
    BY <1>4 DEF IsNested
  <2>4. p.queries[q].items[i] \in Elements(p.queries[q].items)
    BY DEF Elements
  <2>5. ASSUME NEW S \in SUBSET QueryId, IsClosed(p, S) PROVE r \in S
    <3>1. q \in S
      BY <1>1, <2>5
    <3> QED
      BY <2>3, <2>4, <2>5, <3>1 DEF IsClosed
  <2> QED
    BY <1>1, <2>2, <2>5
<1>5. ASSUME NEW q \in Needed(p), NEW c \in Ctes(p), IsNamed(p, q, c)
      PROVE  CteQuery(p, c) \in Needed(p)
  <2>1. PICK name \in Names(p, q) : Meaning(p, q, name) = c
    BY <1>5 DEF IsNamed
  <2>2. PICK item \in Elements(p.queries[q].items) : item.name = name
    BY <2>1 DEF Names
  <2>3. name # None /\ c # NoCte /\ CteQuery(p, c) \in QueryId
    BY <2>1, CteQueryFacts DEF Names
  <2>4. ASSUME NEW S \in SUBSET QueryId, IsClosed(p, S) PROVE CteQuery(p, c) \in S
    <3>1. q \in S
      BY <1>1, <2>4
    <3> QED
      BY <2>1, <2>2, <2>3, <2>4, <3>1 DEF IsClosed
  <2> QED
    BY <1>1, <2>3, <2>4
<1>6. ASSUME NEW S \in SUBSET QueryId, IsClosed(p, S) PROVE Needed(p) \subseteq S
  BY <1>1, <1>6
<1> QED
  BY <1>3, <1>4, <1>5, <1>6

(* What was left to lower still is, but for the task that is taken up.     *)
LEMMA ToLowerTaken ==
  ASSUME NEW C, NEW D, NEW rest, Advances(C, D, rest), NEW q, NEW t, ToLower(C, q, t)
  PROVE  t = C[Len(C)].tasks[1] \/ ToLower(D, q, t)
<1>1. /\ Len(C) \in DOMAIN D
      /\ \A i \in DOMAIN C : /\ i \in DOMAIN D /\ D[i].query = C[i].query
                             /\ i # Len(C) => D[i] = C[i]
      /\ Elements(D[Len(C)].tasks) = Elements(rest) \cup Elements(Tail(C[Len(C)].tasks))
      /\ Elements(C[Len(C)].tasks) = {C[Len(C)].tasks[1]} \cup Elements(Tail(C[Len(C)].tasks))
  BY DEF Advances
<1>2. PICK i \in DOMAIN C : C[i].query = q /\ t \in Elements(C[i].tasks)
  BY DEF ToLower
<1>3. CASE i # Len(C)
  BY <1>1, <1>2, <1>3 DEF ToLower
<1>4. CASE i = Len(C)
  <2>1. t = C[Len(C)].tasks[1] \/ t \in Elements(D[Len(C)].tasks)
    BY <1>1, <1>2, <1>4
  <2> QED
    BY <1>1, <1>2, <1>4, <2>1 DEF ToLower
<1> QED
  BY <1>3, <1>4

(* What query expressions ask for stays lowered, or left to lower, when    *)
(* what the task taken up asks for is lowered.                             *)
LEMMA AsksTaken ==
  ASSUME PhasesTypeOK, NEW C, NEW D, NEW rest, Advances(C, D, rest), NEW counts, NEW more,
         AsksAreLowered(C, counts),
         \A q \in QueryId : counts[q] = 1 => more[q] = 1,
         IsLowered(program, more, C[Len(C)].tasks[1]),
         \A q \in QueryId : more[q] = 1 =>
            counts[q] = 1 \/ \A t \in Elements(LowerTasks(q)) : ToLower(D, q, t)
  PROVE  AsksAreLowered(D, more)
<1>1. program \in Programs
  BY DEF PhasesTypeOK
<1>2. ASSUME NEW q \in QueryId, NEW t \in Elements(LowerTasks(q)), IsLowered(program, counts, t)
      PROVE  IsLowered(program, more, t)
  <2>1. Stands(program, q, t)
    BY <1>1, LowerTasksFacts
  <2>2. t.do = "lower" => t.query \in QueryId
    BY <1>1, <2>1, NestedFacts DEF Stands
  <2>3. t.do = "cte" => CteQuery(program, t.cte) \in QueryId
    BY <1>1, <2>1, CteQueryFacts DEF Stands, Asks
  <2> QED
    BY <1>2, <2>2, <2>3 DEF IsLowered
<1>3. ASSUME NEW q \in QueryId, counts[q] = 1, NEW t \in Elements(LowerTasks(q))
      PROVE  IsLowered(program, more, t) \/ ToLower(D, q, t)
  <2>1. IsLowered(program, counts, t) \/ ToLower(C, q, t)
    BY <1>3 DEF AsksAreLowered
  <2> QED
    BY <1>2, <2>1, ToLowerTaken
<1> QED
  BY <1>3 DEF AsksAreLowered

(* Nothing is left to lower by a call that returns.                        *)
LEMMA AsksPopped ==
  ASSUME NEW C, NEW D, NEW counts, AsksAreLowered(C, counts),
         Len(C) \in Nat \ {0}, DOMAIN C = 1 .. Len(C),
         DOMAIN D = 1 .. Len(C) - 1, \A i \in DOMAIN D : D[i] = C[i],
         C[Len(C)].tasks = <<>>
  PROVE  AsksAreLowered(D, counts)
<1>1. \A i \in DOMAIN C : i \in DOMAIN D \/ i = Len(C)
  OBVIOUS
<1>2. Elements(C[Len(C)].tasks) = {}
  BY DEF Elements
<1>3. \A q, t : ToLower(C, q, t) => ToLower(D, q, t)
  BY <1>1, <1>2 DEF ToLower
<1> QED
  BY <1>3 DEF AsksAreLowered

LEMMA PhasesLowering ==
  ASSUME PhasesInvariant, [PhasesNext]_phasesVars
  PROVE  LoweringIsKept'
<1>1. /\ PhasesTypeOK /\ program \in Programs /\ calls \in Seq(CallType(program))
      /\ lowerings \in [QueryId -> Nat]
  BY DEF PhasesInvariant, PhasesTypeOK
<1>2. program' = program
  BY PhasesTypes
<1>3. <<>> \in Seq(TaskType(program)) /\ NoCte \in Ctes(program) \cup {NoCte}
  BY EmptySeq
<1>4. /\ phase \notin {"lower", "lowered"} => lowered = {} /\ \A q \in QueryId : lowerings[q] = 0
      /\ phase = "lower" => /\ LoweringGoesOn(program, calls, lowered, lowerings)
                            /\ AsksAreLowered(calls, lowerings)
                            /\ AreScoped(program, definitions, calls)
  BY DEF PhasesInvariant, LoweringIsKept, CallsAreScoped
<1>5. \A q : LowerTasks(q)' = LowerTasks(q)
  BY <1>2 DEF LowerTasks, Tasks, ItemTask, UseCte, Nothing
<1>6. ASSUME phase' \in {"lower", "lowered"},
             LoweringGoesOn(program, calls', lowered', lowerings'),
             AsksAreLowered(calls', lowerings')
      PROVE  LoweringIsKept'
  <2>1. \A q \in QueryId : lowerings'[q] = 1 =>
          \A t \in Elements(LowerTasks(q)') :
            IsLowered(program', lowerings', t) \/ ToLower(calls', q, t)
    BY <1>2, <1>5, <1>6 DEF AsksAreLowered
  <2>2. AsksAreLowered(calls, lowerings)'
    BY <2>1 DEF AsksAreLowered
  <2> QED
    BY <1>2, <1>6, <2>2 DEF LoweringIsKept
<1>7. ASSUME phase' \notin {"lower", "lowered"}, phase \notin {"lower", "lowered"},
             UNCHANGED <<lowered, lowerings>>
      PROVE  LoweringIsKept'
  BY <1>4, <1>7 DEF LoweringIsKept
<1>8. CASE UNCHANGED phasesVars
  <2>1. /\ UNCHANGED <<phase, calls, lowered, lowerings>>
    BY <1>8 DEF phasesVars, loweringVars
  <2>2. phase \in {"lower", "lowered"} =>
          LoweringGoesOn(program, calls, lowered, lowerings) /\ AsksAreLowered(calls, lowerings)
    BY DEF PhasesInvariant, LoweringIsKept
  <2> QED
    BY <1>6, <1>7, <2>1, <2>2
(* A task of the innermost call is done with.                              *)
<1>9. ASSUME phase = "lower", phase' = "lower", calls # <<>>, ThisCall.tasks # <<>>,
             calls' = TakenUp(<<>>), UNCHANGED <<lowered, lowerings>>,
             IsLowered(program, lowerings, ThisTask)
      PROVE  LoweringIsKept'
  <2>1. Advances(calls, calls', <<>>)
    BY <1>1, <1>3, <1>9, AdvanceFacts
  <2>2. ThisTask = calls[Len(calls)].tasks[1]
    BY DEF ThisTask, ThisCall
  <2>3. AsksAreLowered(calls', lowerings)
    BY <1>1, <1>4, <1>9, <2>1, <2>2, AsksTaken
  <2>4. LoweringGoesOn(program, calls', lowered, lowerings)
    BY <1>1, <1>4, <1>9, LoweringTaken
  <2> QED
    BY <1>6, <1>9, <2>3, <2>4
(* A call is added.                                                        *)
<1>10. ASSUME phase = "lower", phase' = "lower", calls # <<>>, ThisCall.tasks # <<>>,
              NEW q \in QueryId, NEW for \in Ctes(program) \cup {NoCte},
              calls' = Append(TakenUp(<<>>), Frame(q, LowerTasks(q), for)),
              lowered' = lowered, lowerings' = Counted(lowerings, q),
              LoweringGoesOn(program, calls', lowered, lowerings'),
              lowerings[q] = 0, IsLowered(program, lowerings', ThisTask)
       PROVE  LoweringIsKept'
  <2> DEFINE f == Frame(q, LowerTasks(q), for)
             n == Len(calls) + 1
  <2>1. f.query = q /\ f.tasks = LowerTasks(q) /\ f \in CallType(program)
    <3>1. LowerTasks(q) \in Seq(TaskType(program))
      BY <1>1, LowerTasksFacts
    <3>2. Frame(q, LowerTasks(q), for) \in CallType(program)
      BY <1>1, <3>1, FrameFacts, Zenon
    <3> QED
      BY <3>2 DEF Frame
  <2>2. calls' = Append(TakenUp(<<>>), f)
    BY <1>10
  <2> HIDE DEF f
  <2>3. DOMAIN calls' = 1 .. n /\ calls'[n] = f /\ Advances(calls, calls', <<>>)
    BY <1>1, <1>3, <1>10, <2>1, <2>2, AdvanceFacts, ZenonT(40)
  <2>4. n \in DOMAIN calls'
    <3>1. Len(calls) \in Nat
      BY <1>1, LenProperties
    <3> QED
      BY <2>3, <3>1
  <2>5. \A t \in Elements(LowerTasks(q)) : ToLower(calls', q, t)
    BY <2>1, <2>3, <2>4 DEF ToLower
  <2>6. lowerings'[q] = 1 /\ \A r \in QueryId : r # q => lowerings'[r] = lowerings[r]
    BY <1>1, <1>10, CountedFacts
  <2>7. \A r \in QueryId : lowerings[r] = 1 => lowerings'[r] = 1
    BY <2>6
  <2>8. \A r \in QueryId : lowerings'[r] = 1 =>
          lowerings[r] = 1 \/ \A t \in Elements(LowerTasks(r)) : ToLower(calls', r, t)
    BY <2>5, <2>6
  <2>9. IsLowered(program, lowerings', calls[Len(calls)].tasks[1])
    BY <1>10 DEF ThisTask, ThisCall
  <2>10. AsksAreLowered(calls', lowerings')
    <3>1. PhasesTypeOK /\ AsksAreLowered(calls, lowerings)
      BY <1>1, <1>4, <1>10
    <3> QED
      BY <2>3, <2>7, <2>8, <2>9, <3>1, AsksTaken
  <2> QED
    BY <1>6, <1>10, <2>10
<1>11. CASE Bind
  <2>1. phase = "bind"
    BY <1>11 DEF Bind, Decide, PhasesInvariant, BoundFirst, Pending, Bound, Verdict
  <2> QED
    BY <1>7, <1>11, <2>1 DEF Bind, loweringVars
<1>12. CASE PassOver
  <2>1. /\ phase' = phase /\ lowered' = lowered /\ lowerings' = lowerings
        /\ calls # <<>> /\ ThisCall.tasks # <<>> /\ calls' = TakenUp(<<>>)
        /\ ThisTask.do = "nothing" /\ phase \in {"type", "lower"}
    BY <1>12 DEF PassOver, Does, loweringVars
  <2>2. IsLowered(program, lowerings, ThisTask)
    BY <2>1 DEF IsLowered
  <2>3. CASE phase = "type"
    BY <1>7, <2>1, <2>3
  <2>4. CASE phase = "lower"
    BY <1>9, <2>1, <2>2, <2>4
  <2> QED
    BY <2>1, <2>3, <2>4
<1>13. CASE StartTyping \/ TypeQuery \/ HintQuery \/ TypeCte \/ ReuseTyped \/ ReturnTyped \/ RejectTypes
  <2>1. /\ phase \in {"bind", "type"} /\ phase' \in {"type", "type error"}
        /\ UNCHANGED <<lowered, lowerings>>
    BY <1>13 DEF StartTyping, TypeQuery, HintQuery, TypeCte, ReuseTyped, ReturnTyped, RejectTypes,
                 Does, Done, loweringVars
  <2> QED
    BY <1>7, <2>1
<1>14. CASE StartLowering
  <2> DEFINE q == program.root
             f == Frame(q, LowerTasks(q), NoCte)
  <2>1. /\ phase = "type" /\ phase' = "lower" /\ calls' = <<f>>
        /\ lowered' = lowered /\ lowerings' = Counted(lowerings, q)
    BY <1>14 DEF StartLowering
  <2>2. /\ q \in QueryId /\ q \in Needed(program)
        /\ \A r \in QueryId : q \notin Parts(program, r)
    BY <1>1, ProgramsAssumption, NeededFacts, PartsFacts DEF Program
  <2>3. /\ LowerTasks(q) \in Seq(TaskType(program))
        /\ \A t \in Elements(LowerTasks(q)) : Stands(program, q, t)
        /\ \A k, l \in DOMAIN LowerTasks(q) : \A r \in QueryId :
             Lowers(LowerTasks(q)[k], r) /\ Lowers(LowerTasks(q)[l], r) => k = l
        /\ \A t \in Elements(LowerTasks(q)) : t.do = "cte" => IsNamed(program, q, t.cte)
    <3> HIDE DEF q
    <3> QED
      BY <1>1, <2>2, LowerTasksFacts
  <2>4. f.query = q /\ f.tasks = LowerTasks(q) /\ f.for = NoCte /\ f \in CallType(program)
    <3>1. Frame(q, LowerTasks(q), NoCte) \in CallType(program)
      <4> HIDE DEF q
      <4> QED
        BY <1>1, <1>3, <2>2, <2>3, FrameFacts
    <3> QED
      BY <3>1 DEF Frame
  <2>5. q = program.root
    OBVIOUS
  <2> HIDE DEF f, q
  <2>6. DOMAIN calls' = {1} /\ calls'[1] = f
    BY <2>1, <2>4, FirstCall
  <2>7. \A r \in QueryId : lowerings'[r] = IF r = q THEN 1 ELSE 0
    <3>1. lowerings[q] = 0 /\ \A r \in QueryId : lowerings[r] = 0
      BY <1>4, <2>1, <2>2
    <3>2. lowerings'[q] = lowerings[q] + 1 /\ \A r \in QueryId : r # q => lowerings'[r] = lowerings[r]
      BY <1>1, <2>1, <2>2, CountedFacts
    <3> QED
      BY <3>1, <3>2
  <2>8. \A r \in QueryId : ~ IsNested(program, r, q)
    BY <1>1, <2>2, NestedFacts
  <2>9. IsLowering(program, lowerings', f)
    <3>1. ASSUME NEW t \in Elements(LowerTasks(q)), t.do = "lower" PROVE lowerings'[t.query] = 0
      <4>1. IsNested(program, q, t.query)
        BY <2>3, <3>1 DEF Stands
      <4>2. t.query \in QueryId /\ t.query # q
        BY <1>1, <2>2, <4>1, NestedFacts
      <4> QED
        BY <2>7, <4>2
    <3> QED
      BY <2>2, <2>3, <2>4, <2>7, <3>1 DEF IsLowering, LeftOnce
  <2>10. \A c \in Ctes(program) :
           lowerings'[CteQuery(program, c)] = 1 <=> c \in lowered \/ IsActive(calls', c)
    <3>1. lowered = {}
      BY <1>4, <2>1
    <3>2. \A c \in Ctes(program) : /\ c # NoCte /\ CteQuery(program, c) \in QueryId
                                   /\ c.query \in QueryId
                                   /\ CteQuery(program, c) \in Parts(program, c.query)
      BY <1>1, CteQueryFacts
    <3>3. \A c \in Ctes(program) : ~ IsActive(calls', c)
      BY <2>4, <2>6, <3>2 DEF IsActive
    <3>4. \A c \in Ctes(program) : CteQuery(program, c) # q
      BY <2>2, <3>2
    <3> QED
      BY <2>7, <3>1, <3>2, <3>3, <3>4
  <2>11. LoweringGoesOn(program, calls', lowered', lowerings')
    <3>1. QueryOnce(calls') /\ \A i \in DOMAIN calls' : IsLowering(program, lowerings', calls'[i])
      BY <2>6, <2>9 DEF QueryOnce
    <3>2. \A r, x \in QueryId : IsNested(program, r, x) /\ lowerings'[x] = 1 => lowerings'[r] = 1
      BY <2>7, <2>8
    <3>3. /\ lowerings'[program.root] = 1
          /\ \A r \in QueryId : lowerings'[r] \in {0, 1}
          /\ \A r \in QueryId : lowerings'[r] = 1 => r \in Needed(program)
      BY <2>2, <2>5, <2>7
    <3> QED
      BY <2>1, <2>10, <3>1, <3>2, <3>3 DEF LoweringGoesOn
  <2>12. AsksAreLowered(calls', lowerings')
    <3>1. \A t \in Elements(LowerTasks(q)) : ToLower(calls', q, t)
      BY <2>4, <2>6 DEF ToLower
    <3> QED
      BY <2>7, <3>1 DEF AsksAreLowered
  <2> QED
    BY <1>6, <2>1, <2>11, <2>12
<1>15. CASE LowerQuery
  <2> DEFINE q == ThisTask.query
  <2>1. /\ phase = "lower" /\ phase' = "lower" /\ ThisTask.do = "lower"
        /\ calls' = Append(TakenUp(<<>>), Frame(q, LowerTasks(q), NoCte))
        /\ lowered' = lowered /\ lowerings' = Counted(lowerings, q)
    BY <1>15 DEF LowerQuery, Does
  <2>2. /\ q \in QueryId /\ calls # <<>> /\ ThisCall.tasks # <<>>
        /\ ThisCall.query \in QueryId /\ IsNested(program, ThisCall.query, q)
        /\ ThisTask \in Elements(ThisCall.tasks)
    BY <1>15, ThisTaskFacts DEF LowerQuery
  <2>3. IsLowering(program, lowerings, ThisCall)
    <3>1. Len(calls) \in DOMAIN calls /\ ThisCall = calls[Len(calls)]
      BY <1>1, <2>2, InnermostCall
    <3> QED
      BY <1>4, <2>1, <3>1 DEF LoweringGoesOn
  <2>4. lowerings[q] = 0
    BY <2>1, <2>2, <2>3 DEF IsLowering, LeftOnce
  <2>5. ThisCall.query \in Needed(program)
    BY <1>4, <2>1, <2>2, <2>3 DEF LoweringGoesOn, IsLowering
  <2>6. q \in Needed(program)
    BY <1>1, <2>2, <2>5, NeededFacts
  <2>7. Lowers(ThisTask, q)
    BY <2>1 DEF Lowers
  <2> HIDE DEF q
  <2>8. \A r \in QueryId : IsNested(program, r, q) => r = ThisCall.query /\ Lowers(ThisTask, q)
    BY <1>1, <2>2, <2>7, NestedFacts
  <2>9. \A c \in Ctes(program) : CteQuery(program, c) = q <=> NoCte = c
    <3>1. \A c \in Ctes(program) : c # NoCte
      BY <1>1, CteQueryFacts
    <3>2. \A c \in Ctes(program) : CteQuery(program, c) # q
      BY <1>1, <2>2, NestedFacts
    <3> QED
      BY <3>1, <3>2
  <2>10. LoweringGoesOn(program, calls', lowered, lowerings')
    BY <1>1, <1>3, <1>4, <2>1, <2>2, <2>4, <2>6, <2>8, <2>9, LoweringInto
  <2>11. IsLowered(program, lowerings', ThisTask)
    <3>1. lowerings'[q] = lowerings[q] + 1
      BY <1>1, <2>1, <2>2, CountedFacts
    <3>2. ThisTask.query = q
      BY DEF q
    <3> QED
      BY <2>1, <2>4, <3>1, <3>2 DEF IsLowered
  <2> QED
    BY <1>3, <1>10, <2>1, <2>2, <2>4, <2>10, <2>11
<1>16. CASE LowerCte
  <2> DEFINE c == ThisTask.cte
             q == CteQuery(program, c)
  <2>1. /\ phase = "lower" /\ phase' = "lower" /\ ThisTask.do = "cte" /\ c \notin lowered
        /\ calls' = Append(TakenUp(<<>>), Frame(q, LowerTasks(q), c))
        /\ lowered' = lowered /\ lowerings' = Counted(lowerings, q)
    BY <1>16 DEF LowerCte, Does
  <2>2. /\ c \in Ctes(program) /\ q \in QueryId /\ calls # <<>> /\ ThisCall.tasks # <<>>
        /\ ThisCall.query \in QueryId /\ ThisTask \in Elements(ThisCall.tasks)
        /\ ~ IsActive(calls, c)
    BY <1>16, ThisTaskFacts DEF LowerCte
  <2>3. IsLowering(program, lowerings, ThisCall)
    <3>1. Len(calls) \in DOMAIN calls /\ ThisCall = calls[Len(calls)]
      BY <1>1, <2>2, InnermostCall
    <3> QED
      BY <1>4, <2>1, <3>1 DEF LoweringGoesOn
  <2>4. lowerings[q] = 0
    BY <1>4, <2>1, <2>2 DEF LoweringGoesOn
  <2>5. ThisCall.query \in Needed(program)
    BY <1>4, <2>1, <2>2, <2>3 DEF LoweringGoesOn, IsLowering
  <2>6. q \in Needed(program)
    <3>1. IsNamed(program, ThisCall.query, c)
      BY <2>1, <2>2, <2>3 DEF IsLowering
    <3> QED
      BY <1>1, <2>2, <2>5, <3>1, NeededFacts
  <2>7. \A d \in Ctes(program) : CteQuery(program, d) = q <=> c = d
    BY <1>1, <2>2, CteQueryFacts
  <2>8. \A r \in QueryId : ~ IsNested(program, r, q)
    BY <1>1, <2>2, NestedFacts
  <2>9. q = CteQuery(program, ThisTask.cte)
    OBVIOUS
  <2> HIDE DEF c, q
  <2>10. LoweringGoesOn(program, calls', lowered, lowerings')
    BY <1>1, <1>4, <2>1, <2>2, <2>4, <2>6, <2>7, <2>8, LoweringInto
  <2>11. IsLowered(program, lowerings', ThisTask)
    <3>1. lowerings'[q] = lowerings[q] + 1
      BY <1>1, <2>1, <2>2, CountedFacts
    <3> QED
      BY <2>1, <2>4, <2>9, <3>1 DEF IsLowered
  <2> QED
    BY <1>10, <2>1, <2>2, <2>4, <2>10, <2>11
<1>17. CASE ReuseLowered
  <2>1. /\ phase = "lower" /\ phase' = phase /\ lowered' = lowered /\ lowerings' = lowerings
        /\ calls # <<>> /\ ThisCall.tasks # <<>> /\ calls' = TakenUp(<<>>)
        /\ ThisTask.do = "cte" /\ ThisTask.cte \in lowered
    BY <1>17 DEF ReuseLowered, Does, loweringVars
  <2>2. ThisTask.cte \in Ctes(program)
    BY <1>17, ThisTaskFacts DEF ReuseLowered
  <2>3. lowerings[CteQuery(program, ThisTask.cte)] = 1
    BY <1>4, <2>1, <2>2 DEF LoweringGoesOn
  <2>4. IsLowered(program, lowerings, ThisTask)
    BY <2>1, <2>3 DEF IsLowered
  <2> QED
    BY <1>9, <2>1, <2>4
<1>18. CASE ReturnLowered
  <2>1. /\ phase = "lower" /\ phase' \in {"lower", "lowered"}
        /\ calls # <<>> /\ ThisCall.tasks = <<>> /\ calls' = Popped
        /\ lowered' = lowered \cup ({ThisCall.for} \ {NoCte}) /\ lowerings' = lowerings
    BY <1>18 DEF ReturnLowered, Done
  <2>2. LoweringGoesOn(program, calls', lowered', lowerings')
    BY <1>1, <1>4, <2>1, LoweringPopped
  <2>3. /\ Len(calls) \in Nat \ {0} /\ DOMAIN calls = 1 .. Len(calls)
        /\ calls[Len(calls)].tasks = <<>>
    BY <1>1, <2>1, InnermostCall
  <2>4. DOMAIN calls' = 1 .. Len(calls) - 1 /\ \A i \in DOMAIN calls' : calls'[i] = calls[i]
    BY <1>1, <2>1, PoppedFacts
  <2>5. AsksAreLowered(calls', lowerings')
    BY <1>4, <2>1, <2>3, <2>4, AsksPopped
  <2> QED
    BY <1>6, <2>1, <2>2, <2>5
<1> QED
  BY <1>8, <1>11, <1>12, <1>13, <1>14, <1>15, <1>16, <1>17, <1>18 DEF PhasesNext

-----------------------------------------------------------------------------
(* The theorems.                                                           *)

LEMMA PhasesBase ==
  ASSUME PhasesInit
  PROVE  PhasesInvariant
<1>1. /\ program \in Programs /\ verdict = Pending /\ phase = "bind" /\ calls = <<>>
      /\ entries = [c \in Ctes(program) |-> "absent"]
      /\ definitions = {} /\ lowered = {}
      /\ typings = [q \in QueryId |-> 0] /\ lowerings = [q \in QueryId |-> 0]
  BY DEF PhasesInit, Init
<1>2. PhasesTypeOK
  <2>1. calls \in Seq(CallType(program))
    BY <1>1, EmptySeq
  <2>2. typings \in [QueryId -> Nat] /\ lowerings \in [QueryId -> Nat]
    BY <1>1
  <2>3. entries \in [Ctes(program) -> EntryStates]
    BY <1>1 DEF EntryStates
  <2> QED
    BY <1>1, <2>1, <2>2, <2>3 DEF PhasesTypeOK
<1>3. BoundFirst
  BY <1>1 DEF BoundFirst, Pending, Bound, Verdict
<1>4. CallsAreScoped
  BY <1>1 DEF CallsAreScoped
<1>5. TypingIsKept
  <2>1. \A c \in Ctes(program) : CteQuery(program, c) \in QueryId
    BY <1>1, CteQueryFacts
  <2>2. EntriesCount(program, entries, typings)
    BY <1>1, <2>1 DEF EntriesCount
  <2> QED
    BY <1>1, <2>2 DEF TypingIsKept
<1>6. LoweringIsKept
  BY <1>1 DEF LoweringIsKept
<1> QED
  BY <1>2, <1>3, <1>4, <1>5, <1>6 DEF PhasesInvariant

LEMMA PhasesStep ==
  ASSUME PhasesInvariant, [PhasesNext]_phasesVars
  PROVE  PhasesInvariant'
BY PhasesTypes, PhasesBound, PhasesScoped, PhasesTyping, PhasesLowering DEF PhasesInvariant

(* Whatever the program, every step of the type checker (src/typecheck.rs) *)
(* and of the lowerer (src/lower.rs) keeps the invariant: calls, entries   *)
(* and definitions fit one another.                                        *)
THEOREM InvariantHolds == PhasesSpec => []PhasesInvariant
<1>1. PhasesInit => PhasesInvariant
  BY PhasesBase
<1>2. PhasesInvariant /\ [PhasesNext]_phasesVars => PhasesInvariant'
  BY PhasesStep
<1> QED
  BY <1>1, <1>2, PTL DEF PhasesSpec

(* The variables have their types: a call is for a query expression, and   *)
(* only declarations of the program have entries, definitions and plans.   *)
THEOREM PhasesAreTyped == PhasesSpec => []PhasesTypeOK
<1>1. PhasesInvariant => PhasesTypeOK
  BY DEF PhasesInvariant
<1> QED
  BY <1>1, InvariantHolds, PTL

(* The `expect`s of type_cte and lower_cte never fail: the declaration     *)
(* looked up is registered, and type_cte never comes back to one that is   *)
(* being typed, because the binder has refused every cycle.                *)
THEOREM EveryLookupIsAnswered == PhasesSpec => []LookupsAreAnswered
<1>1. ASSUME PhasesInvariant PROVE LookupsAreAnswered
  <2> DEFINE c == ThisTask.cte
             q == ThisCall.query
  <2>1. ASSUME NEW p \in {"type", "lower"}, Does(p, "cte")
        PROVE  /\ phase = p /\ c \in Ctes(program) /\ ~ IsActive(calls, c)
               /\ Encloses(program, c.query, q)
               /\ Len(calls) \in DOMAIN calls /\ ThisCall = calls[Len(calls)]
    <3>1. /\ phase = p /\ c \in Ctes(program) /\ ~ IsActive(calls, c) /\ q \in QueryId
          /\ Asks(program, q, c) /\ calls # <<>>
      BY <1>1, <2>1, ThisTaskFacts
    <3>2. PhasesTypeOK /\ program \in Programs
      BY <1>1 DEF PhasesInvariant, PhasesTypeOK
    <3>3. Encloses(program, c.query, q)
      BY <3>1, <3>2, AskedFacts
    <3>4. Len(calls) \in DOMAIN calls /\ ThisCall = calls[Len(calls)]
      BY <3>1, <3>2, InnermostCall
    <3> QED
      BY <3>1, <3>3, <3>4
  <2>2. ASSUME NEW i \in DOMAIN calls, NEW K, AreScoped(program, K, calls), NEW d \in Ctes(program),
               Encloses(program, d.query, calls[i].query)
        PROVE  d \in K
    BY <2>2 DEF AreScoped, CallStands
  <2>3. ASSUME Does("type", "cte") PROVE entries[c] \in {"Unvisited", "Typed"}
    <3>1. AreScoped(program, Registered, calls)
      BY <1>1, <2>1, <2>3 DEF PhasesInvariant, CallsAreScoped
    <3>2. c \in Registered
      BY <2>1, <2>2, <2>3, <3>1
    <3>3. entries[c] # "Typing"
      BY <1>1, <2>1, <2>3 DEF PhasesInvariant, TypingIsKept, TypingGoesOn
    <3>4. entries[c] \in EntryStates
      BY <1>1, <2>1, <2>3 DEF PhasesInvariant, PhasesTypeOK
    <3> QED
      BY <3>2, <3>3, <3>4 DEF Registered, EntryStates
  <2>4. ASSUME Does("lower", "cte") PROVE c \in lowered \cup definitions
    <3>1. AreScoped(program, definitions, calls)
      BY <1>1, <2>1, <2>4 DEF PhasesInvariant, CallsAreScoped
    <3> QED
      BY <2>1, <2>2, <2>4, <3>1
  <2> QED
    BY <2>3, <2>4 DEF LookupsAreAnswered
<1> QED
  BY <1>1, InvariantHolds, PTL

(* The query of a declaration is typed once whatever names it, and before  *)
(* anything is lowered all that the root encloses is typed.                *)
THEOREM EveryDeclarationTypedOnce == PhasesSpec => []DeclarationTypedOnce
<1>1. ASSUME PhasesInvariant PROVE DeclarationTypedOnce
  <2>1. \A c \in Ctes(program) : typings[CteQuery(program, c)] <= 1
    <3>1. \A c \in Ctes(program) : typings[CteQuery(program, c)] \in {0, 1}
      BY <1>1 DEF PhasesInvariant, TypingIsKept, EntriesCount
    <3> QED
      BY <3>1
  <2>2. phase \in {"lower", "lowered"} => AllTyped
    BY <1>1 DEF PhasesInvariant, TypingIsKept
  <2> QED
    BY <2>1, <2>2 DEF DeclarationTypedOnce, AllTyped
<1> QED
  BY <1>1, InvariantHolds, PTL

(* When the lowerer is done, what evaluation needs has become nodes once,  *)
(* and nothing else has.                                                   *)
THEOREM NeededIsLoweredOnce == PhasesSpec => []LoweredWhenNeeded
<1>1. ASSUME PhasesInvariant, phase = "lowered" PROVE LoweredWhenNeeded
  <2>1. /\ LoweringGoesOn(program, calls, lowered, lowerings)
        /\ AsksAreLowered(calls, lowerings)
        /\ calls = <<>> /\ program \in Programs
    BY <1>1 DEF PhasesInvariant, LoweringIsKept, BoundFirst, PhasesTypeOK
  <2>2. \A q, t : ~ ToLower(calls, q, t)
    <3>1. DOMAIN calls = {}
      BY <2>1
    <3> QED
      BY <3>1 DEF ToLower
  <2> DEFINE S == {q \in QueryId : lowerings[q] = 1}
  <2>3. program.root \in S
    BY <2>1, ProgramsAssumption DEF LoweringGoesOn, Program
  <2>4. ASSUME NEW q \in S, NEW item \in Elements(program.queries[q].items)
        PROVE  /\ item.name = None => item.query \in S
               /\ item.name # None /\ Meaning(program, q, item.name) # NoCte
                    => CteQuery(program, Meaning(program, q, item.name)) \in S
    <3>1. PICK i \in DOMAIN program.queries[q].items : item = program.queries[q].items[i]
      BY DEF Elements
    <3> DEFINE t == LowerTasks(q)[i]
               m == Meaning(program, q, item.name)
    <3>2. /\ t \in Elements(LowerTasks(q))
          /\ item.name = None => t = Task("lower", item.query, NoCte)
          /\ item.name # None /\ m # NoCte => t = UseCte(m)
      BY <2>1, <3>1, LowerTasksFacts
    <3>3. IsLowered(program, lowerings, t)
      BY <2>1, <2>2, <3>2 DEF AsksAreLowered
    <3> HIDE DEF t, m
    <3>4. ASSUME item.name = None PROVE item.query \in S
      <4>1. item.query \in QueryId
        BY <2>1, <3>1, <3>4, SyntaxFacts
      <4>2. lowerings[item.query] = 1
        BY <3>2, <3>3, <3>4 DEF IsLowered, Task
      <4> QED
        BY <4>1, <4>2
    <3>5. ASSUME item.name # None, m # NoCte PROVE CteQuery(program, m) \in S
      <4>1. m \in Ctes(program)
        BY <2>1, <3>5, MeaningFacts DEF m
      <4>2. CteQuery(program, m) \in QueryId
        BY <2>1, <4>1, CteQueryFacts
      <4>3. lowerings[CteQuery(program, m)] = 1
        BY <3>2, <3>3, <3>5 DEF IsLowered, UseCte, Task
      <4> QED
        BY <4>2, <4>3
    <3> QED
      BY <3>4, <3>5 DEF m
  <2>5. IsClosed(program, S)
    BY <2>3, <2>4 DEF IsClosed
  <2>6. Needed(program) \subseteq S
    BY <2>1, <2>5, NeededFacts
  <2>7. \A q \in QueryId : lowerings[q] = IF q \in Needed(program) THEN 1 ELSE 0
    BY <2>1, <2>6 DEF LoweringGoesOn
  <2> QED
    BY <2>7 DEF LoweredWhenNeeded
<1>2. ASSUME PhasesInvariant PROVE LoweredWhenNeeded
  BY <1>1, <1>2 DEF LoweredWhenNeeded
<1> QED
  BY <1>2, InvariantHolds, PTL
=============================================================================
