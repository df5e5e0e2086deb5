-------------------------- MODULE ConsoleProofs ------------------------------
(* What holds of every page whose script is written in a certain way, for   *)
(* any number of handlers under way, of changes and of failures.            *)
EXTENDS Console, FiniteSetTheorems, SequenceTheorems, TLAPS

-----------------------------------------------------------------------------
(* The shape of the state. *)

Run(run) ==
  /\ run = [h |-> run.h, at |-> run.at, got |-> run.got, arg |-> run.arg, from |-> run.from,
            base |-> run.base, snap |-> run.snap]
  /\ run.h \in DOMAIN Script[page].code
  /\ run.at \in DOMAIN Code(run.h).calls
  /\ DOMAIN run.got \subseteq Data

Shape ==
  /\ page \in Pages /\ issued \in Nat
  /\ view = [r \in Data |-> view[r]]
  /\ db = [r \in Data |-> db[r]]
  /\ runs = [s \in Slots |-> runs[s]]
  /\ \A s \in Slots : Busy(s) => Run(runs[s])

(* Requests are about data of the page. *)
LEMMA CallsTyped ==
  ASSUME page \in Pages, NEW h \in DOMAIN Script[page].code
  PROVE  /\ Code(h).calls \in Seq(Requests(page))
         /\ Len(Code(h).calls) \in Nat
         /\ DOMAIN Code(h).calls = 1..Len(Code(h).calls)
         /\ \A k \in DOMAIN Code(h).calls : Code(h).calls[k] \in Requests(page) /\ Code(h).calls[k].on \subseteq Data
         /\ Code(h).calls # <<>> => 1 \in DOMAIN Code(h).calls
         /\ {Code(h).next, Code(h).also} \subseteq DOMAIN Script[page].code \cup {""}
<1>1. Code(h).calls \in Seq(Requests(page))
  BY ScriptAssumption DEF Pages, Code
<1>2. Len(Code(h).calls) \in Nat /\ DOMAIN Code(h).calls = 1..Len(Code(h).calls)
  BY <1>1
<1>3. \A k \in DOMAIN Code(h).calls : Code(h).calls[k] \in Requests(page)
  BY <1>1
<1>4. \A k \in DOMAIN Code(h).calls : Code(h).calls[k].on \subseteq Data
  BY <1>3 DEF Requests, Data
<1>5. Code(h).calls # <<>> => 1 \in DOMAIN Code(h).calls
  BY <1>1
<1>6. {Code(h).next, Code(h).also} \subseteq DOMAIN Script[page].code \cup {""}
  BY ScriptAssumption DEF Pages, Code
<1> QED BY <1>1, <1>2, <1>3, <1>4, <1>5, <1>6

LEMMA BegunNamed ==
  ASSUME NEW h, NEW state, NEW data, NEW base
  PROVE  /\ Begun(h, state, data, base).h = h
         /\ Begun(h, state, data, base).base = IF Writes(h) = {} THEN 0 ELSE base
BY DEF Begun

(* A handler that is begun is at its first request. *)
LEMMA BegunRuns ==
  ASSUME page \in Pages, NEW h \in DOMAIN Script[page].code, Code(h).calls # <<>>,
         NEW state, NEW data, NEW base
  PROVE  Run(Begun(h, state, data, base)) /\ Begun(h, state, data, base).h = h
<1>1. 1 \in DOMAIN Code(h).calls
  BY CallsTyped
<1>2. DOMAIN <<>> = {}
  OBVIOUS
<1> DEFINE run == Begun(h, state, data, base)
<1>3. run = [h |-> run.h, at |-> run.at, got |-> run.got, arg |-> run.arg, from |-> run.from,
             base |-> run.base, snap |-> run.snap]
  BY DEF Begun
<1>4. run.h = h /\ run.at = 1 /\ run.got = <<>>
  BY DEF Begun
<1> QED BY <1>1, <1>2, <1>3, <1>4 DEF Run

(* One more answer, and the next request, leave the rest of a run.          *)
LEMMA GotRuns ==
  ASSUME NEW run, Run(run), NEW r \in Data, NEW changes
  PROVE  LET more == Got(run, r, changes)
         IN  /\ Run(more)
             /\ more.h = run.h /\ more.at = run.at /\ more.snap = run.snap /\ more.base = run.base
             /\ more.arg = run.arg
             /\ DOMAIN more.got = DOMAIN run.got \cup {r}
             /\ more.got = [x \in DOMAIN run.got \cup {r} |-> IF x = r THEN changes ELSE run.got[x]]
<1> DEFINE more == Got(run, r, changes)
           got == [x \in DOMAIN run.got \cup {r} |-> IF x = r THEN changes ELSE run.got[x]]
<1>1. run = [h |-> run.h, at |-> run.at, got |-> run.got, arg |-> run.arg, from |-> run.from,
             base |-> run.base, snap |-> run.snap]
  BY DEF Run
<1>2. more = [h |-> run.h, at |-> run.at, got |-> got, arg |-> run.arg, from |-> run.from,
              base |-> run.base, snap |-> run.snap]
  BY <1>1 DEF Got
<1>3. /\ more.h = run.h /\ more.at = run.at /\ more.got = got /\ more.arg = run.arg
      /\ more.from = run.from /\ more.base = run.base /\ more.snap = run.snap
  BY <1>2
<1>4. DOMAIN more.got = DOMAIN run.got \cup {r}
  BY <1>3
<1> HIDE DEF more, got
<1>5. Run(more)
  BY <1>2, <1>3, <1>4 DEF Run
<1> QED BY <1>3, <1>4, <1>5 DEF more, got

LEMMA GotKeeps ==
  ASSUME NEW run, Run(run), NEW r \in Data, NEW changes
  PROVE  /\ Got(run, r, changes).h = run.h /\ Got(run, r, changes).at = run.at
         /\ Got(run, r, changes).base = run.base /\ Got(run, r, changes).arg = run.arg
         /\ Got(run, r, changes).snap = run.snap /\ r \in DOMAIN Got(run, r, changes).got
<1>1. run = [h |-> run.h, at |-> run.at, got |-> run.got, arg |-> run.arg, from |-> run.from,
             base |-> run.base, snap |-> run.snap]
  BY DEF Run
<1>2. PICK got : Got(run, r, changes) = [run EXCEPT !.got = got] /\ r \in DOMAIN got
  <2>1. r \in DOMAIN [x \in DOMAIN run.got \cup {r} |-> IF x = r THEN changes ELSE run.got[x]]
    OBVIOUS
  <2> QED BY <2>1 DEF Got
<1>3. Got(run, r, changes) = [h |-> run.h, at |-> run.at, got |-> got, arg |-> run.arg, from |-> run.from,
                              base |-> run.base, snap |-> run.snap]
  BY <1>1, <1>2
<1> QED BY <1>2, <1>3

LEMMA OnwardRuns ==
  ASSUME page \in Pages, NEW run, Run(run), run.at < Len(Code(run.h).calls), NEW got, DOMAIN got \subseteq Data
  PROVE  LET onward == Onward(run, got)
         IN  /\ Run(onward)
             /\ onward.h = run.h /\ onward.at = run.at + 1 /\ onward.got = got
             /\ onward.snap = run.snap /\ onward.base = run.base /\ onward.arg = run.arg
<1> DEFINE moved == [run EXCEPT !.at = @ + 1]
           onward == Onward(run, got)
<1>1. run = [h |-> run.h, at |-> run.at, got |-> run.got, arg |-> run.arg, from |-> run.from,
             base |-> run.base, snap |-> run.snap]
  BY DEF Run
<1>2. moved = [h |-> run.h, at |-> run.at + 1, got |-> run.got, arg |-> run.arg, from |-> run.from,
               base |-> run.base, snap |-> run.snap]
  BY <1>1
<1> HIDE DEF moved
<1>3. onward = [moved EXCEPT !.got = got]
  BY DEF moved, Onward
<1> HIDE DEF onward
<1>4. onward = [h |-> run.h, at |-> run.at + 1, got |-> got, arg |-> run.arg, from |-> run.from,
                base |-> run.base, snap |-> run.snap]
  BY <1>2, <1>3
<1>5. /\ onward.h = run.h /\ onward.at = run.at + 1 /\ onward.got = got /\ onward.arg = run.arg
      /\ onward.from = run.from /\ onward.base = run.base /\ onward.snap = run.snap
  BY <1>4
<1>6. run.h \in DOMAIN Script[page].code /\ run.at \in DOMAIN Code(run.h).calls
  BY DEF Run
<1>7. /\ Len(Code(run.h).calls) \in Nat
      /\ DOMAIN Code(run.h).calls = 1..Len(Code(run.h).calls)
  BY <1>6, CallsTyped
<1>8. run.at + 1 \in DOMAIN Code(run.h).calls
  BY <1>6, <1>7
<1>9. Run(onward)
  BY <1>4, <1>5, <1>6, <1>8 DEF Run
<1> QED BY <1>5, <1>9 DEF onward

(* A call that is not awaited begins at most that handler.                  *)
LEMMA CallsBegin ==
  ASSUME page \in Pages, NEW h, h \in DOMAIN Script[page].code \cup {""}, NEW state
  PROVE  \/ Calls(h, state) = <<>>
         \/ Calls(h, state) = <<h>> /\ h \in DOMAIN Script[page].code /\ Code(h).calls # <<>>
BY DEF Calls, Goes

(* Idle slots have different places, counted from one. *)
LEMMA Places ==
  /\ \A s \in Idle : Place(s) \in Nat \ {0}
  /\ \A s, q \in Idle : s < q => Place(s) < Place(q)
<1> DEFINE upTo(s) == {q \in Idle : q <= s}
<1>1. IsFiniteSet(Slots)
  BY ConsoleAssumption, FS_Interval DEF Slots
<1>2. Idle \subseteq Slots /\ \A s \in Slots : s \in Int
  BY ConsoleAssumption DEF Idle, Slots
<1>3. \A s : IsFiniteSet(upTo(s)) /\ Cardinality(upTo(s)) \in Nat
  BY <1>1, <1>2, FS_Subset, FS_CardinalityType
<1>4. \A s \in Idle : Cardinality(upTo(s)) # 0
  BY <1>2, <1>3, FS_EmptySet
<1>5. ASSUME NEW s \in Idle, NEW q \in Idle, s < q
      PROVE  Cardinality(upTo(s)) < Cardinality(upTo(q))
  <2>1. upTo(s) \subseteq upTo(q) /\ q \in upTo(q) /\ q \notin upTo(s)
    BY <1>2, <1>5
  <2> QED BY <1>3, <2>1, FS_Subset
<1> QED BY <1>3, <1>4, <1>5 DEF Place

-----------------------------------------------------------------------------
(* What handlers cost: the numbers of the changes they will ask for.        *)
Count(h) == Cardinality(Writes(h))

LEMMA CountType ==
  ASSUME page \in Pages, NEW h \in DOMAIN Script[page].code
  PROVE  IsFiniteSet(Writes(h)) /\ Count(h) \in Nat
<1>1. Writes(h) \subseteq 1..Len(Code(h).calls) /\ Len(Code(h).calls) \in Nat
  BY CallsTyped DEF Writes
<1>2. IsFiniteSet(1..Len(Code(h).calls))
  BY <1>1, FS_Interval
<1>3. IsFiniteSet(Writes(h))
  BY <1>1, <1>2, FS_Subset
<1> QED BY <1>3, FS_CardinalityType DEF Count

LEMMA Tagged ==
  ASSUME NEW S, IsFiniteSet(S), NEW i
  PROVE  IsFiniteSet(S \X {i}) /\ Cardinality(S \X {i}) = Cardinality(S)
<1>1. IsFiniteSet({i}) /\ Cardinality({i}) = 1
  BY FS_Singleton
<1>2. IsFiniteSet(S \X {i}) /\ Cardinality(S \X {i}) = Cardinality(S) * 1
  BY <1>1, FS_Product
<1> QED BY <1>2, FS_CardinalityType

LEMMA CostNone == ASSUME NEW st, DOMAIN st = {} PROVE Cost(st) = 0
<1>1. UNION {Writes(st[i]) \X {i} : i \in DOMAIN st} = {}
  OBVIOUS
<1> QED BY <1>1, FS_EmptySet DEF Cost

LEMMA CostOne ==
  ASSUME page \in Pages, NEW st, DOMAIN st = {1}, st[1] \in DOMAIN Script[page].code
  PROVE  Cost(st) = Count(st[1])
<1>1. UNION {Writes(st[i]) \X {i} : i \in DOMAIN st} = Writes(st[1]) \X {1}
  OBVIOUS
<1> QED BY <1>1, CountType, Tagged DEF Cost, Count

LEMMA CostTwo ==
  ASSUME page \in Pages, NEW st, DOMAIN st = {1, 2},
         st[1] \in DOMAIN Script[page].code, st[2] \in DOMAIN Script[page].code
  PROVE  Cost(st) = Count(st[1]) + Count(st[2])
<1> DEFINE A == Writes(st[1]) \X {1}
           B == Writes(st[2]) \X {2}
<1>1. UNION {Writes(st[i]) \X {i} : i \in DOMAIN st} = A \cup B
  OBVIOUS
<1>2. /\ IsFiniteSet(A) /\ Cardinality(A) = Count(st[1]) /\ Count(st[1]) \in Nat
      /\ IsFiniteSet(B) /\ Cardinality(B) = Count(st[2]) /\ Count(st[2]) \in Nat
  BY CountType, Tagged DEF Count
<1>3. Cardinality(A \cap B) = 0
  <2>1. A \cap B = {}
    OBVIOUS
  <2> QED BY <2>1, FS_EmptySet
<1> HIDE DEF A, B
<1>4. Cardinality(A \cup B) = Cardinality(A) + Cardinality(B) - Cardinality(A \cap B)
  BY <1>2, FS_Union
<1>5. Cost(st) = Cardinality(A \cup B)
  BY <1>1 DEF Cost
<1> QED BY <1>2, <1>3, <1>4, <1>5

LEMMA Pairs ==
  ASSUME NEW x, NEW y
  PROVE  LET pair == <<x>> \o <<y>>
         IN  Len(pair) = 2 /\ pair[1] = x /\ pair[2] = y /\ pair \in Seq({x, y})
<1>1. PICK both : both = {x, y}
  OBVIOUS
<1>2. <<x>> \in Seq(both) /\ <<y>> \in Seq(both) /\ Len(<<x>>) = 1 /\ Len(<<y>>) = 1
  BY <1>1
<1> QED BY <1>1, <1>2

(* What a control starts: at most its own handler and then the one it calls.*)
LEMMA StartedForms ==
  ASSUME page \in Pages, NEW h \in DOMAIN Script[page].code, NEW begun
  PROVE  LET a == Code(h).also
             st == Started(h, begun)
             Called == /\ a \in DOMAIN Script[page].code /\ Code(a).calls # <<>>
                       /\ Calls(a, begun) = <<a>>
         IN  /\ st \in Seq({h, a})
             /\ \/ Len(st) = 0 /\ Code(h).calls = <<>> /\ Calls(a, begun) = <<>>
                \/ Len(st) = 1 /\ st[1] = h /\ Code(h).calls # <<>> /\ Calls(a, begun) = <<>>
                \/ Len(st) = 1 /\ st[1] = a /\ Code(h).calls = <<>> /\ Called
                \/ Len(st) = 2 /\ st[1] = h /\ st[2] = a /\ Code(h).calls # <<>> /\ Called
<1> DEFINE a == Code(h).also
           Called == a \in DOMAIN Script[page].code /\ Code(a).calls # <<>> /\ Calls(a, begun) = <<a>>
<1>1. a \in DOMAIN Script[page].code \cup {""}
  BY CallsTyped
<1>2. /\ <<h>> \o <<>> = <<h>>
      /\ LET pair == <<h>> \o <<a>>
         IN  Len(pair) = 2 /\ pair[1] = h /\ pair[2] = a /\ pair \in Seq({h, a})
  BY Pairs
<1>3. PICK both : both = {h, a}
  OBVIOUS
<1>4. /\ <<>> \in Seq(both) /\ Len(<<>>) = 0
      /\ <<h>> \in Seq(both) /\ Len(<<h>>) = 1 /\ <<h>>[1] = h
      /\ <<a>> \in Seq(both) /\ Len(<<a>>) = 1 /\ <<a>>[1] = a
  BY <1>3
<1> HIDE DEF a
<1>5. CASE Calls(a, begun) = <<>>
  BY <1>2, <1>3, <1>4, <1>5 DEF Started, a
<1>6. CASE Called
  BY <1>2, <1>3, <1>4, <1>6 DEF Started, a
<1> QED BY <1>1, <1>5, <1>6, CallsBegin DEF a

(* The number before the first change of the i-th handler started.          *)
Base(st, i) == issued + Cost(SubSeq(st, 1, i - 1))

LEMMA SubSeqFirst ==
  ASSUME NEW S, NEW st \in Seq(S)
  PROVE  /\ DOMAIN SubSeq(st, 1, 0) = {}
         /\ Len(st) = 2 => DOMAIN SubSeq(st, 1, 1) = {1} /\ SubSeq(st, 1, 1)[1] = st[1]
<1>1. DOMAIN SubSeq(st, 1, 0) = {}
  <2>1. SubSeq(st, 1, 0) \in Seq(S) /\ Len(SubSeq(st, 1, 0)) = 0
    BY SubSeqProperties
  <2> QED BY <2>1, LenProperties
<1>2. ASSUME Len(st) = 2
      PROVE  DOMAIN SubSeq(st, 1, 1) = {1} /\ SubSeq(st, 1, 1)[1] = st[1]
  <2>1. \A i \in 1..1 : st[i] \in S
    BY <1>2
  <2>2. SubSeq(st, 1, 1) \in Seq(S) /\ Len(SubSeq(st, 1, 1)) = 1 /\ SubSeq(st, 1, 1)[1] = st[1]
    BY <2>1, SubSeqProperties
  <2>3. DOMAIN SubSeq(st, 1, 1) = 1..1
    BY <2>2, LenProperties
  <2> QED BY <2>2, <2>3
<1> QED BY <1>1, <1>2

LEMMA Bases ==
  ASSUME page \in Pages, issued \in Nat, NEW h \in DOMAIN Script[page].code, NEW begun
  PROVE  LET st == Started(h, begun)
         IN  /\ Cost(st) \in Nat /\ Len(st) \in 0..2
             /\ Writes(h) # {} => Cost(st) > 0
             /\ \A i \in 1..Len(st) :
                  /\ st[i] \in DOMAIN Script[page].code /\ Code(st[i]).calls # <<>>
                  /\ (i = 1 /\ st[i] = h) \/ (st[i] = Code(h).also /\ Calls(st[i], begun) = <<st[i]>>)
                  /\ Base(st, i) \in Nat /\ issued <= Base(st, i)
                  /\ Base(st, i) + Count(st[i]) <= issued + Cost(st)
                  /\ i # 1 => Base(st, 1) + Count(st[1]) <= Base(st, i)
<1>1. PICK st : st = Started(h, begun)
  OBVIOUS
<1>2. PICK a : a = Code(h).also
  OBVIOUS
<1> DEFINE Called == a \in DOMAIN Script[page].code /\ Code(a).calls # <<>> /\ Calls(a, begun) = <<a>>
<1>3. /\ st \in Seq({h, a})
      /\ \/ Len(st) = 0 /\ Code(h).calls = <<>>
         \/ Len(st) = 1 /\ st[1] = h /\ Code(h).calls # <<>>
         \/ Len(st) = 1 /\ st[1] = a /\ Code(h).calls = <<>> /\ Called
         \/ Len(st) = 2 /\ st[1] = h /\ st[2] = a /\ Code(h).calls # <<>> /\ Called
  BY <1>1, <1>2, StartedForms
<1>4. DOMAIN st = 1..Len(st)
  BY <1>3, LenProperties
<1>5. /\ Count(h) \in Nat /\ (Called => Count(a) \in Nat)
      /\ Writes(h) # {} => Count(h) > 0 /\ Code(h).calls # <<>>
  <2>1. Writes(h) # {} => Count(h) # 0
    BY CountType, FS_EmptySet DEF Count
  <2>2. Writes(h) # {} => Code(h).calls # <<>>
    BY DEF Writes
  <2> QED BY <2>1, <2>2, CountType
<1>6. Base(st, 1) = issued
  <2>1. Cost(SubSeq(st, 1, 0)) = 0
    BY <1>3, SubSeqFirst, CostNone
  <2>2. 1 - 1 = 0
    OBVIOUS
  <2> QED BY <2>1, <2>2 DEF Base
<1>7. CASE Len(st) = 0
  <2>1. Cost(st) = 0
    BY <1>4, <1>7, CostNone
  <2> QED BY <1>1, <1>3, <1>5, <1>7, <2>1
<1>8. CASE Len(st) = 1
  <2>1. DOMAIN st = {1} /\ st[1] \in DOMAIN Script[page].code
    BY <1>3, <1>4, <1>8
  <2>2. Cost(st) = Count(st[1])
    BY <2>1, CostOne
  <2>3. \A i \in 1..Len(st) : i = 1
    BY <1>8
  <2> QED BY <1>1, <1>2, <1>3, <1>5, <1>6, <1>8, <2>2, <2>3
<1>9. CASE Len(st) = 2
  <2>1. DOMAIN st = {1, 2} /\ st[1] = h /\ st[2] = a /\ Called
    BY <1>3, <1>4, <1>9
  <2>2. Cost(st) = Count(h) + Count(a)
    BY <2>1, CostTwo
  <2>3. Base(st, 2) = issued + Count(h)
    <3>1. DOMAIN SubSeq(st, 1, 1) = {1} /\ SubSeq(st, 1, 1)[1] = h
      BY <1>3, <1>9, <2>1, SubSeqFirst
    <3>2. Cost(SubSeq(st, 1, 1)) = Count(h)
      BY <3>1, CostOne
    <3>3. 2 - 1 = 1
      OBVIOUS
    <3> QED BY <3>2, <3>3 DEF Base
  <2>4. \A i \in 1..Len(st) : i = 1 \/ i = 2
    BY <1>9
  <2> QED BY <1>1, <1>2, <1>3, <1>5, <1>6, <1>9, <2>1, <2>2, <2>3, <2>4
<1> QED BY <1>3, <1>7, <1>8, <1>9

-----------------------------------------------------------------------------
(* Steps. *)

(* A control is used: the handlers it starts take idle slots, each with the *)
(* numbers of its own.                                                      *)
LEMMA StartForm ==
  ASSUME Shape, NEW h \in DOMAIN Script[page].code, NEW update, Start(h, update)
  PROVE  LET begun == After(ui, update)
             st == Started(h, begun)
         IN  /\ page \in Pages /\ page' = page /\ db' = db /\ ui' = Entered(Code(h).also, begun)
             /\ view' = Prepared(h, ui') /\ view' = [r \in Data |-> view'[r]]
             /\ issued' = issued + Cost(st) /\ issued' <= MaxChanges /\ issued' \in Nat
             /\ Len(st) <= Cardinality(Idle)
             /\ runs' = [s \in Slots |-> runs'[s]]
             /\ \A s \in Slots :
                  \/ runs'[s] = runs[s]
                  \/ /\ s \in Idle /\ Place(s) \in 1..Len(st)
                     /\ runs'[s] = Begun(st[Place(s)], ui', view, Base(st, Place(s)))
             /\ \A s \in Idle : Place(s) \in 1..Len(st) =>
                  runs'[s] = Begun(st[Place(s)], ui', view, Base(st, Place(s)))
             /\ acked' = acked /\ denied' = denied /\ faults' = faults
             /\ ui.here /\ Goes(h, ui)
<1> DEFINE begun == After(ui, update)
           st == Started(h, begun)
           first(s) == Begun(st[Place(s)], ui', view, Base(st, Place(s)))
           moved(s) == s \in Idle /\ Place(s) <= Len(st)
<1>1. /\ page \in Pages /\ page' = page /\ db' = db /\ ui' = Entered(Code(h).also, begun)
      /\ view' = Prepared(h, ui')
      /\ issued' = issued + Cost(st) /\ issued' <= MaxChanges
      /\ Len(st) <= Cardinality(Idle)
      /\ runs' = [s \in Slots |-> IF moved(s) THEN first(s) ELSE runs[s]]
      /\ acked' = acked /\ denied' = denied /\ faults' = faults
      /\ ui.here /\ Goes(h, ui)
  BY DEF Start, Shape, Base
<1>2. DOMAIN view = Data
  BY DEF Shape
<1>3. view' = [r \in Data |-> view'[r]]
  BY <1>1, <1>2 DEF Prepared
<1>4. Len(st) \in Nat
  <2>1. page \in Pages
    BY DEF Shape
  <2>2. st \in Seq({h, Code(h).also})
    BY <2>1, StartedForms
  <2> QED BY <2>2, LenProperties
<1>12. issued' \in Nat
  BY <1>1, Bases DEF Shape
<1> HIDE DEF st, begun, first
<1>5. ASSUME NEW s \in Slots, moved(s) PROVE Place(s) \in 1..Len(st)
  BY <1>4, <1>5, Places
<1>6. \A s \in Slots : IF moved(s) THEN runs'[s] = first(s) ELSE runs'[s] = runs[s]
  BY <1>1
<1>7. runs' = [s \in Slots |-> runs'[s]]
  BY <1>1
<1>8. \A s \in Slots : Place(s) \in 1..Len(st) => Place(s) <= Len(st)
  BY <1>4
<1>9. Idle \subseteq Slots
  BY DEF Idle
<1> HIDE DEF moved
<1>10. \A s \in Slots : runs'[s] = runs[s] \/ (s \in Idle /\ Place(s) \in 1..Len(st) /\ runs'[s] = first(s))
  BY <1>5, <1>6 DEF moved
<1>11. \A s \in Idle : Place(s) \in 1..Len(st) => runs'[s] = first(s)
  BY <1>6, <1>8, <1>9 DEF moved
<1> QED BY <1>1, <1>3, <1>7, <1>10, <1>11, <1>12 DEF first, st, begun

(* A request is answered: its run goes on, ends, or is replaced by the      *)
(* handler that it calls; earlier runs of that one may end.                 *)
LEMMA AnswerForm ==
  ASSUME Shape, NEW s \in Slots, Answer(s)
  PROVE  LET run == runs[s]
             then == Code(run.h).next
             got == IF Call(s).late THEN run.got ELSE <<>>
         IN  /\ page \in Pages /\ page' = page /\ db' = db /\ Busy(s) /\ Served(s) /\ Run(run)
             /\ view' = [r \in Data |-> view'[r]] /\ \A r \in Data : view'[r] = Held(s, r)
             /\ runs' = [q \in Slots |-> runs'[q]]
             /\ \A q \in Slots \ {s} :
                  \/ runs'[q] = runs[q]
                  \/ runs'[q] = Free /\ runs[q].h = then /\ then \in DOMAIN Script[page].code /\ Code(then).latest
             /\ \/ /\ run.at < Len(Code(run.h).calls) /\ runs'[s] = Onward(run, got)
                   /\ \A q \in Slots \ {s} : runs'[q] = runs[q]
                   /\ DOMAIN got \subseteq Data /\ ui' = ui /\ issued' = issued
                \/ /\ run.at = Len(Code(run.h).calls)
                   /\ \E end \in Code(run.h).ok :
                        LET state == IF ui.here THEN After(ui, end) ELSE ui
                        IN  /\ ui' = IF ui.here THEN Entered(then, state) ELSE ui
                            /\ \/ Calls(then, state) = <<>> /\ runs'[s] = Free /\ issued' = issued
                               \/ /\ Calls(then, state) = <<then>> /\ Goes(then, state)
                                  /\ then \in DOMAIN Script[page].code /\ Code(then).calls # <<>>
                                  /\ runs'[s] = Begun(then, ui', view', issued)
                                  /\ issued' = issued + Count(then) /\ Count(then) \in Nat
             /\ issued' \in Nat
             /\ acked' = (IF IsWrite(Call(s)) THEN acked \cup {Number(run)} ELSE acked)
             /\ denied' = denied /\ crossed' = crossed /\ faults' = faults
<1> DEFINE run == runs[s]
           then == Code(run.h).next
           got == IF Call(s).late THEN run.got ELSE <<>>
<1>1. /\ page \in Pages /\ page' = page /\ db' = db /\ view' = [x \in DOMAIN view |-> Held(s, x)]
      /\ Busy(s) /\ Served(s) /\ Run(run) /\ DOMAIN view = Data
      /\ acked' = (IF IsWrite(Call(s)) THEN acked \cup {Number(run)} ELSE acked)
      /\ denied' = denied /\ crossed' = crossed /\ faults' = faults
  BY DEF Answer, Shape
<1>2. view' = [r \in Data |-> view'[r]] /\ \A r \in Data : view'[r] = Held(s, r)
  BY <1>1
<1>3. /\ then \in DOMAIN Script[page].code \cup {""} /\ run.at \in 1..Len(Code(run.h).calls)
      /\ Len(Code(run.h).calls) \in Nat
  BY <1>1, CallsTyped DEF Run
<1>4. CASE run.at < Len(Code(run.h).calls)
  <2>1. runs' = [runs EXCEPT ![s] = Onward(run, got)] /\ ui' = ui /\ issued' = issued
    BY <1>4 DEF Answer, GoOn
  <2>2. DOMAIN got \subseteq Data
    <3>1. DOMAIN <<>> = {}
      OBVIOUS
    <3> QED BY <1>1, <3>1 DEF Run
  <2> HIDE DEF got
  <2>3. /\ runs' = [q \in Slots |-> runs'[q]] /\ runs'[s] = Onward(run, got)
        /\ \A q \in Slots \ {s} : runs'[q] = runs[q]
    BY <2>1 DEF Shape
  <2> QED BY <1>1, <1>2, <1>4, <2>1, <2>2, <2>3 DEF got, Shape
<1>5. CASE ~(run.at < Len(Code(run.h).calls))
  <2>1. PICK end \in Code(run.h).ok :
          LET state == IF ui.here THEN After(ui, end) ELSE ui
          IN  /\ ui' = IF ui.here THEN Entered(then, state) ELSE ui
              /\ runs' = [Left(then) EXCEPT ![s] =
                    IF Calls(then, state) = <<>> THEN Free ELSE Begun(then, ui', view', issued)]
              /\ issued' = issued + Cost(Calls(then, state))
    BY <1>5 DEF Answer, GoOn
  <2>2. PICK state : state = IF ui.here THEN After(ui, end) ELSE ui
    OBVIOUS
  <2>3. PICK more : more = IF Calls(then, state) = <<>> THEN Free ELSE Begun(then, ui', view', issued)
    OBVIOUS
  <2>4. runs' = [Left(then) EXCEPT ![s] = more]
    BY <2>1, <2>2, <2>3
  <2>5. DOMAIN Left(then) = Slots /\ \A q \in Slots : Left(then)[q] =
          IF Busy(q) /\ runs[q].h = then /\ Code(then).latest THEN Free ELSE runs[q]
    BY DEF Left
  <2>6. runs' = [q \in Slots |-> runs'[q]] /\ runs'[s] = more
    BY <2>4, <2>5
  <2>7. \A q \in Slots \ {s} :
          \/ runs'[q] = runs[q]
          \/ runs'[q] = Free /\ runs[q].h = then /\ then \in DOMAIN Script[page].code /\ Code(then).latest
    BY <2>4, <2>5 DEF Shape, Run
  <2>8. run.at = Len(Code(run.h).calls)
    <3>1. PICK n : n = Len(Code(run.h).calls)
      OBVIOUS
    <3>2. n \in Nat /\ run.at \in 1..n /\ ~(run.at < n)
      BY <1>3, <1>5, <3>1
    <3>3. run.at = n
      BY <3>2
    <3> QED BY <3>1, <3>3
  <2>9. CASE Calls(then, state) = <<>>
    <3>1. Cost(<<>>) = 0
      BY CostNone
    <3>2. issued' = issued + 0
      BY <2>1, <2>2, <2>9, <3>1
    <3>3. issued' = issued
      BY <3>2 DEF Shape
    <3> QED BY <1>1, <1>2, <2>1, <2>2, <2>3, <2>6, <2>7, <2>8, <2>9, <3>3 DEF Shape
  <2>10. CASE Calls(then, state) = <<then>> /\ then \in DOMAIN Script[page].code /\ Code(then).calls # <<>>
    <3>1. DOMAIN <<then>> = {1} /\ <<then>>[1] = then /\ <<then>> # <<>>
      OBVIOUS
    <3>2. Cost(<<then>>) = Count(then)
      BY <1>1, <2>10, <3>1, CostOne
    <3>3. issued' = issued + Count(then) /\ more = Begun(then, ui', view', issued)
      BY <2>1, <2>2, <2>3, <2>10, <3>1, <3>2
    <3>4. Goes(then, state)
      BY <2>10, <3>1 DEF Calls
    <3>5. Count(then) \in Nat
      BY <1>1, <2>10, CountType
    <3>6. issued' \in Nat
      BY <3>3, <3>5 DEF Shape
    <3> QED BY <1>1, <1>2, <2>1, <2>2, <2>6, <2>7, <2>8, <2>10, <3>3, <3>4, <3>5, <3>6
  <2> QED BY <1>1, <1>3, <2>9, <2>10, CallsBegin
<1> QED BY <1>4, <1>5

(* The state after a step, told from what it was before. *)
LEMMA ShapeNext ==
  ASSUME page \in Pages, page' = page, issued' \in Nat,
         view' = [r \in Data |-> view'[r]], db' = [r \in Data |-> db'[r]],
         runs' = [s \in Slots |-> runs'[s]],
         \A s \in Slots : runs'[s] = Free \/ Run(runs'[s])
  PROVE  Shape'
BY DEF Shape, Run, Code, Data, Busy, Pages

(* The handlers a page is mounted with have a request to await. *)
LEMMA Mounted ==
  ASSUME Init, NEW s \in Slots, Busy(s)
  PROVE  LET h == Script[page].mount[s]
         IN  /\ page \in Pages /\ s \in DOMAIN Script[page].mount
             /\ h \in DOMAIN Script[page].code /\ Code(h).calls # <<>>
             /\ runs[s] = Begun(h, ui, view, 0)
<1>1. page \in Pages /\ s <= Len(Script[page].mount) /\ runs[s] = Begun(Script[page].mount[s], ui, view, 0)
  BY DEF Init, Busy
<1>2. PICK begin : /\ begin = {h \in DOMAIN Script[page].code : Script[page].code[h].calls # <<>>}
                   /\ Script[page].mount \in Seq(begin)
  BY <1>1, ScriptAssumption DEF Pages
<1>3. Len(Script[page].mount) \in Nat /\ s \in Nat \ {0}
  BY <1>2, ConsoleAssumption DEF Slots
<1>4. s \in 1..Len(Script[page].mount)
  BY <1>1, <1>3
<1>5. s \in DOMAIN Script[page].mount /\ Script[page].mount[s] \in begin
  BY <1>2, <1>4
<1> QED BY <1>1, <1>2, <1>5 DEF Code

LEMMA ShapeInit == Init => Shape
<1> SUFFICES ASSUME Init PROVE Shape
  OBVIOUS
<1>1. page \in Pages /\ issued \in Nat
  BY DEF Init
<1>2. ASSUME NEW s \in Slots, Busy(s) PROVE Run(runs[s])
  BY <1>2, Mounted, BegunRuns
<1> QED BY <1>1, <1>2 DEF Shape, Init

LEMMA ShapeStart ==
  ASSUME Shape, NEW h \in DOMAIN Script[page].code, NEW update, Start(h, update)
  PROVE  Shape' /\ page' = page
<1>1. PICK st : st = Started(h, After(ui, update))
  OBVIOUS
<1>2. /\ page \in Pages /\ page' = page /\ db' = db /\ issued \in Nat /\ issued' \in Nat
      /\ view' = [r \in Data |-> view'[r]] /\ runs' = [s \in Slots |-> runs'[s]]
      /\ \A s \in Slots :
           \/ runs'[s] = runs[s]
           \/ /\ Place(s) \in 1..Len(st)
              /\ runs'[s] = Begun(st[Place(s)], ui', view, Base(st, Place(s)))
  BY <1>1, StartForm DEF Shape
<1>3. \A i \in 1..Len(st) : st[i] \in DOMAIN Script[page].code /\ Code(st[i]).calls # <<>>
  BY <1>1, <1>2, Bases
<1>4. ASSUME NEW s \in Slots PROVE runs'[s] = Free \/ Run(runs'[s])
  <2>1. CASE runs'[s] = runs[s]
    BY <2>1 DEF Shape, Busy
  <2>2. CASE /\ Place(s) \in 1..Len(st)
             /\ runs'[s] = Begun(st[Place(s)], ui', view, Base(st, Place(s)))
    BY <1>2, <1>3, <2>2, BegunRuns
  <2> QED BY <1>2, <2>1, <2>2
<1>5. db' = [r \in Data |-> db'[r]]
  BY <1>2 DEF Shape
<1> QED BY <1>2, <1>4, <1>5, ShapeNext

(* One run moves. *)
LEMMA ShapeMove ==
  ASSUME Shape, page' = page, issued' \in Nat, NEW s \in Slots,
         view' = [r \in Data |-> view'[r]], db' = [r \in Data |-> db'[r]],
         runs' = [q \in Slots |-> runs'[q]],
         \A q \in Slots \ {s} : runs'[q] \in {runs[q], Free},
         runs'[s] = Free \/ Run(runs'[s])
  PROVE  Shape'
<1>1. page \in Pages
  BY DEF Shape
<1>2. \A q \in Slots : runs'[q] = Free \/ Run(runs'[q])
  BY DEF Shape, Busy
<1> QED BY <1>1, <1>2, ShapeNext

(* A request is handled: what the control plane answers. *)
Handled(s, r) ==
  CASE Call(s).op = "get" -> db[r]
    [] Call(s).op = "add" -> db[r] \cup {Number(runs[s])}
    [] Call(s).op = "put" -> runs[s].snap[r] \cup {Number(runs[s])}

LEMMA ServeForm ==
  ASSUME Shape, NEW s \in Slots, NEW r \in Data, Serve(s, r)
  PROVE  /\ Shape' /\ page' = page /\ view' = view /\ ui' = ui /\ issued' = issued
         /\ acked' = acked /\ denied' = denied /\ crossed' = crossed /\ faults' = faults
         /\ page \in Pages /\ Busy(s) /\ Run(runs[s]) /\ r \in Call(s).on \ DOMAIN runs[s].got
         /\ db'[r] = Handled(s, r) /\ \A x \in Data \ {r} : db'[x] = db[x]
         /\ runs'[s] = Got(runs[s], r, Handled(s, r)) /\ \A q \in Slots \ {s} : runs'[q] = runs[q]
<1>1. /\ page' = page /\ view' = view /\ ui' = ui /\ issued' = issued
      /\ acked' = acked /\ denied' = denied /\ crossed' = crossed /\ faults' = faults
      /\ db' = [db EXCEPT ![r] = Handled(s, r)]
      /\ runs' = [runs EXCEPT ![s] = Got(runs[s], r, Handled(s, r))]
      /\ Busy(s) /\ page \in Pages /\ Run(runs[s]) /\ r \in Call(s).on \ DOMAIN runs[s].got
  BY DEF Serve, Shape, Handled
<1>2. Run(Got(runs[s], r, Handled(s, r)))
  BY <1>1, GotRuns
<1>3. /\ view' = [x \in Data |-> view'[x]] /\ db' = [x \in Data |-> db'[x]] /\ issued' \in Nat
      /\ runs' = [q \in Slots |-> runs'[q]] /\ runs'[s] = Got(runs[s], r, Handled(s, r))
      /\ \A q \in Slots \ {s} : runs'[q] = runs[q]
      /\ db'[r] = Handled(s, r) /\ \A x \in Data \ {r} : db'[x] = db[x]
  BY <1>1 DEF Shape
<1>4. Shape'
  BY <1>1, <1>2, <1>3, ShapeMove
<1> QED BY <1>1, <1>3, <1>4

LEMMA CatchForm ==
  ASSUME Shape, NEW s \in Slots, NEW r \in Data, Catch(s, r)
  PROVE  /\ Shape' /\ page' = page /\ view' = view /\ ui' = ui /\ issued' = issued /\ db' = db
         /\ acked' = acked /\ denied' = denied /\ crossed' = crossed
         /\ faults < MaxFaults /\ faults' = faults + 1
         /\ page \in Pages /\ Busy(s) /\ Run(runs[s]) /\ Call(s).soft \in {"keep", "empty"}
         /\ runs'[s] = Got(runs[s], r, Lost) /\ \A q \in Slots \ {s} : runs'[q] = runs[q]
<1>1. /\ page' = page /\ view' = view /\ ui' = ui /\ issued' = issued /\ db' = db
      /\ acked' = acked /\ denied' = denied /\ crossed' = crossed
      /\ faults < MaxFaults /\ faults' = faults + 1
      /\ runs' = [runs EXCEPT ![s] = Got(runs[s], r, Lost)]
      /\ Busy(s) /\ page \in Pages /\ Run(runs[s]) /\ Call(s).soft \in {"keep", "empty"}
  BY DEF Catch, Shape
<1>2. Run(Got(runs[s], r, Lost))
  BY <1>1, GotRuns
<1>3. /\ view' = [x \in Data |-> view'[x]] /\ db' = [x \in Data |-> db'[x]] /\ issued' \in Nat
      /\ runs' = [q \in Slots |-> runs'[q]] /\ runs'[s] = Got(runs[s], r, Lost)
      /\ \A q \in Slots \ {s} : runs'[q] = runs[q]
  BY <1>1 DEF Shape
<1>4. Shape'
  BY <1>1, <1>2, <1>3, ShapeMove
<1> QED BY <1>1, <1>3, <1>4

LEMMA ShapeAnswer ==
  ASSUME Shape, NEW s \in Slots, Answer(s)
  PROVE  Shape' /\ page' = page
<1>1. PICK run : run = runs[s]
  OBVIOUS
<1>2. PICK then : then = Code(run.h).next
  OBVIOUS
<1>3. PICK got : got = IF Call(s).late THEN run.got ELSE <<>>
  OBVIOUS
<1>4. /\ page \in Pages /\ page' = page /\ db' = db /\ Run(run) /\ issued' \in Nat
      /\ view' = [r \in Data |-> view'[r]] /\ runs' = [q \in Slots |-> runs'[q]]
      /\ \A q \in Slots \ {s} : runs'[q] \in {runs[q], Free}
      /\ \/ run.at < Len(Code(run.h).calls) /\ DOMAIN got \subseteq Data /\ runs'[s] = Onward(run, got)
         \/ runs'[s] = Free
         \/ /\ then \in DOMAIN Script[page].code /\ Code(then).calls # <<>>
            /\ runs'[s] = Begun(then, ui', view', issued)
  BY <1>1, <1>2, <1>3, AnswerForm
<1>5. runs'[s] = Free \/ Run(runs'[s])
  BY <1>4, OnwardRuns, BegunRuns
<1>6. db' = [r \in Data |-> db'[r]]
  BY <1>4 DEF Shape
<1> QED BY <1>4, <1>5, <1>6, ShapeMove

(* A request fails, or the session has ended: runs end.                     *)
LEMMA ShapeEnd ==
  ASSUME Shape, NEW s \in Slots, Fail(s) \/ Expel(s)
  PROVE  Shape' /\ page' = page
<1>1. page' = page /\ view' = view /\ db' = db /\ issued' = issued
  BY DEF Fail, Expel
<1>2. /\ view' = [r \in Data |-> view'[r]] /\ db' = [r \in Data |-> db'[r]] /\ issued' \in Nat
      /\ runs' = [q \in Slots |-> runs'[q]] /\ runs'[s] = Free
      /\ \A q \in Slots \ {s} : runs'[q] \in {runs[q], Free}
  BY <1>1 DEF Fail, Expel, Shape
<1> QED BY <1>1, <1>2, ShapeMove

LEMMA ShapeElsewhere ==
  ASSUME Shape, NEW r \in Data, Elsewhere(r)
  PROVE  Shape' /\ page' = page
<1>1. /\ page' = page /\ view' = view /\ runs' = runs /\ issued' = issued + 1
      /\ db' = [db EXCEPT ![r] = @ \cup {issued + 1}]
  BY DEF Elsewhere
<1>2. page \in Pages /\ issued' \in Nat
  BY <1>1 DEF Shape
<1>3. db' = [x \in Data |-> db'[x]]
  BY <1>1 DEF Shape
<1>4. view' = [x \in Data |-> view'[x]] /\ runs' = [q \in Slots |-> runs'[q]]
  BY <1>1 DEF Shape
<1>5. \A q \in Slots : runs'[q] = Free \/ Run(runs'[q])
  BY <1>1 DEF Shape, Busy
<1> QED BY <1>1, <1>2, <1>3, <1>4, <1>5, ShapeNext

LEMMA ShapeStep == ASSUME Shape, [Next]_vars PROVE Shape' /\ page' = page
<1>1. ASSUME NEW h \in DOMAIN Script[page].code, Use(h) \/ Tick(h) PROVE Shape' /\ page' = page
  <2>1. \E update : Start(h, update)
    BY <1>1 DEF Use, Tick
  <2> QED BY <2>1, ShapeStart
<1>2. ASSUME NEW s \in Slots, NEW r \in Data, Serve(s, r) \/ Catch(s, r) PROVE Shape' /\ page' = page
  BY <1>2, ServeForm, CatchForm
<1>3. ASSUME NEW s \in Slots, Answer(s) PROVE Shape' /\ page' = page
  BY <1>3, ShapeAnswer
<1>4. ASSUME NEW s \in Slots, Fail(s) \/ Expel(s) PROVE Shape' /\ page' = page
  BY <1>4, ShapeEnd
<1>5. ASSUME NEW r \in Data, Elsewhere(r) PROVE Shape' /\ page' = page
  BY <1>5, ShapeElsewhere
<1>6. CASE UNCHANGED vars
  BY <1>6 DEF vars, Shape, Run, Code, Data, Busy, Pages
<1> QED BY <1>1, <1>2, <1>3, <1>4, <1>5, <1>6 DEF Next

(* A run is always at a request of a handler of its page, and its answers   *)
(* are of data of the page, for every script: every other proof needs it.   *)
THEOREM ShapeHolds == Spec => []Shape
BY ShapeInit, ShapeStep, PTL DEF Spec

-----------------------------------------------------------------------------
(* Bounds: what is shown and what runs hold is within a store.  It is used  *)
(* with the control plane as the store, and with all changes numbered.      *)

(* What a run was answered is stored, or the request that was lost has a    *)
(* catch; a change that was answered is stored, and so is the copy it was   *)
(* computed from.                                                           *)
Within(run, store) ==
  LET call == Code(run.h).calls[run.at]
  IN  /\ \A r \in DOMAIN run.got :
           run.got[r] \subseteq store[r] \/ (run.got[r] = Lost /\ call.soft \in {"keep", "empty"})
      /\ IsWrite(call) => \A r \in DOMAIN run.got \cap call.on : Number(run) \in store[r]
      /\ \A k \in Writes(run.h) : \A r \in Code(run.h).calls[k].on : run.snap[r] \subseteq store[r]

(* Nothing is taken back. *)
Grows(old, new) == \A r \in Data : old[r] \subseteq new[r]

(* The data, the runs and the store are arguments, so that the same facts   *)
(* can be stated before and after a step.                                   *)
Bounds(data, under, store) ==
  /\ \A r \in Data : data[r].seen \subseteq store[r]
  /\ \A s \in Slots : under[s] # Free => Within(under[s], store)

LEMMA WithinGrows ==
  ASSUME page \in Pages, NEW run, Run(run), NEW old, NEW new, Within(run, old), Grows(old, new)
  PROVE  Within(run, new)
<1>1. run.h \in DOMAIN Script[page].code /\ DOMAIN run.got \subseteq Data
  BY DEF Run
<1>2. \A k \in DOMAIN Code(run.h).calls : Code(run.h).calls[k].on \subseteq Data
  BY <1>1, CallsTyped
<1> QED BY <1>1, <1>2 DEF Within, Grows, Writes

(* A handler that is begun has no answer, and copies what is shown.         *)
LEMMA WithinBegun ==
  ASSUME page \in Pages, NEW h \in DOMAIN Script[page].code, NEW state, NEW data, NEW base,
         NEW store, \A r \in Data : data[r].seen \subseteq store[r]
  PROVE  Within(Begun(h, state, data, base), store)
<1> DEFINE run == Begun(h, state, data, base)
           written == UNION {Code(h).calls[k].on : k \in Writes(h)}
<1>1. run.h = h /\ run.got = <<>> /\ run.snap = [r \in written |-> data[r].seen]
  BY DEF Begun
<1>2. DOMAIN run.got = {}
  BY <1>1
<1>3. ASSUME NEW k \in Writes(h), NEW r \in Code(h).calls[k].on
      PROVE  run.snap[r] \subseteq store[r]
  <2>1. r \in written
    OBVIOUS
  <2>2. r \in Data
    BY <1>3, CallsTyped DEF Writes
  <2>3. run.snap[r] = data[r].seen
    BY <1>1, <2>1
  <2> QED BY <2>2, <2>3
<1> HIDE DEF run
<1> QED BY <1>1, <1>2, <1>3 DEF Within, run

(* An answer that holds what is stored. *)
LEMMA WithinGot ==
  ASSUME page \in Pages, NEW run, Run(run), NEW old, NEW new, Within(run, old), Grows(old, new),
         NEW r \in Data, NEW changes, changes \subseteq new[r],
         IsWrite(Code(run.h).calls[run.at]) => Number(run) \in new[r]
  PROVE  Within(Got(run, r, changes), new)
<1> DEFINE more == Got(run, r, changes)
<1>1. /\ more.h = run.h /\ more.at = run.at /\ more.snap = run.snap /\ more.base = run.base
      /\ DOMAIN more.got = DOMAIN run.got \cup {r}
      /\ more.got = [x \in DOMAIN run.got \cup {r} |-> IF x = r THEN changes ELSE run.got[x]]
  BY GotRuns
<1>2. Number(more) = Number(run)
  BY <1>1 DEF Number, Asked
<1>3. Within(run, new)
  BY WithinGrows
<1> HIDE DEF more
<1>4. \A x \in DOMAIN more.got : x = r \/ (x \in DOMAIN run.got /\ more.got[x] = run.got[x])
  BY <1>1
<1>5. more.got[r] = changes
  BY <1>1
<1>6. Within(more, new)
  BY <1>1, <1>2, <1>3, <1>4, <1>5 DEF Within
<1> QED BY <1>6 DEF more

(* A request with a catch is lost. *)
LEMMA WithinLost ==
  ASSUME page \in Pages, Orderly(page), NEW run, Run(run), NEW store, Within(run, store), NEW r \in Data,
         Code(run.h).calls[run.at].soft \in {"keep", "empty"}
  PROVE  Within(Got(run, r, Lost), store)
<1> DEFINE more == Got(run, r, Lost)
           call == Code(run.h).calls[run.at]
<1>1. /\ more.h = run.h /\ more.at = run.at /\ more.snap = run.snap
      /\ DOMAIN more.got = DOMAIN run.got \cup {r}
      /\ more.got = [x \in DOMAIN run.got \cup {r} |-> IF x = r THEN Lost ELSE run.got[x]]
  BY GotRuns
<1>2. ~IsWrite(call)
  BY DEF Orderly, Run, IsWrite, Code
<1> HIDE DEF more
<1>3. \A x \in DOMAIN more.got : (x = r /\ more.got[x] = Lost) \/ (x \in DOMAIN run.got /\ more.got[x] = run.got[x])
  BY <1>1
<1>4. Within(more, store)
  BY <1>1, <1>2, <1>3 DEF Within
<1> QED BY <1>4 DEF more

(* The next request. *)
LEMMA WithinOnward ==
  ASSUME page \in Pages, Orderly(page), NEW run, Run(run), NEW store, Within(run, store),
         run.at < Len(Code(run.h).calls)
  PROVE  Within(Onward(run, IF Code(run.h).calls[run.at].late THEN run.got ELSE <<>>), store)
<1> DEFINE call == Code(run.h).calls[run.at]
           got == IF call.late THEN run.got ELSE <<>>
           onward == Onward(run, got)
<1>1. DOMAIN got \subseteq Data
  <2>1. DOMAIN <<>> = {}
    OBVIOUS
  <2> QED BY <2>1 DEF Run
<1> HIDE DEF got
<1>2. /\ Run(onward) /\ onward.h = run.h /\ onward.got = got /\ onward.snap = run.snap
  BY <1>1, OnwardRuns
<1> HIDE DEF onward
<1>3. onward.at \in DOMAIN Code(run.h).calls
  BY <1>2 DEF Run
<1>4. run.h \in DOMAIN Script[page].code /\ run.at \in DOMAIN Code(run.h).calls
  BY DEF Run
<1>5. CASE call.late
  <2>1. call.soft = "" /\ ~IsWrite(Code(run.h).calls[onward.at])
    BY <1>3, <1>4, <1>5 DEF Orderly, IsWrite, Code
  <2>2. \A r \in DOMAIN run.got : run.got[r] \subseteq store[r]
    BY <2>1 DEF Within
  <2>3. Within(onward, store)
    BY <1>2, <1>5, <2>1, <2>2 DEF Within, got
  <2> QED BY <2>3 DEF onward, got
<1>6. CASE ~call.late
  <2>1. DOMAIN onward.got = {}
    BY <1>2, <1>6 DEF got
  <2>2. Within(onward, store)
    BY <1>2, <2>1 DEF Within
  <2> QED BY <2>2 DEF onward, got
<1> QED BY <1>5, <1>6

(* What is shown after an answer is stored. *)
LEMMA HeldBound ==
  ASSUME Shape, Orderly(page), NEW store, Bounds(view, runs, store),
         NEW s \in Slots, Busy(s), Served(s), NEW r \in Data
  PROVE  Held(s, r).seen \subseteq store[r]
<1> DEFINE run == runs[s]
<1>1. page \in Pages /\ Run(run) /\ Within(run, store) /\ view[r].seen \subseteq store[r]
  BY DEF Shape, Bounds, Busy
<1>2. CASE ~ui.here \/ Call(s).late \/ r \notin DOMAIN run.got
  BY <1>1, <1>2 DEF Held
<1>3. CASE ~(~ui.here \/ Call(s).late \/ r \notin DOMAIN run.got) /\ IsWrite(Call(s)) /\ r \in Call(s).on
  <2>1. Held(s, r) = Written(s, r)
    BY <1>3 DEF Held
  <2>2. run.h \in DOMAIN Script[page].code /\ run.at \in Writes(run.h)
    BY <1>1, <1>3 DEF Run, Writes, Call
  <2>3. Number(run) \in store[r] /\ run.snap[r] \subseteq store[r]
    BY <1>1, <1>3, <2>2 DEF Within, Call
  <2>4. run.got[r] \subseteq store[r]
    <3>1. Call(s).soft = ""
      BY <1>3, <2>2 DEF Orderly, Code, Call, IsWrite, Writes
    <3> QED BY <1>1, <1>3, <3>1 DEF Within, Call
  <2>5. Written(s, r).seen \subseteq store[r]
    BY <1>1, <2>3, <2>4 DEF Written
  <2> QED BY <2>1, <2>5
<1>4. CASE ~(~ui.here \/ Call(s).late \/ r \notin DOMAIN run.got) /\ ~(IsWrite(Call(s)) /\ r \in Call(s).on)
  <2>1. Held(s, r) = Read(s, r)
    BY <1>4 DEF Held
  <2>2. run.got[r] \subseteq store[r] \/ (run.got[r] = Lost /\ Call(s).soft \in {"keep", "empty"})
    BY <1>1, <1>4 DEF Within, Call
  <2>3. Read(s, r).seen \subseteq store[r]
    BY <1>1, <2>2 DEF Read
  <2> QED BY <2>1, <2>3
<1> QED BY <1>2, <1>3, <1>4

(* The bounds after a step, told from what they were before. *)
LEMMA BoundsMove ==
  ASSUME Shape, NEW old, NEW new, Bounds(view, runs, old), Grows(old, new),
         \A r \in Data : view'[r].seen \subseteq new[r],
         \A s \in Slots : runs'[s] \in {runs[s], Free} \/ Within(runs'[s], new)
  PROVE  Bounds(view', runs', new)
<1> SUFFICES ASSUME NEW s \in Slots, runs'[s] # Free PROVE Within(runs'[s], new)
  BY DEF Bounds
<1>1. CASE runs'[s] = runs[s]
  <2>1. page \in Pages /\ Run(runs[s]) /\ Within(runs[s], old)
    BY <1>1 DEF Shape, Bounds, Busy
  <2>2. Within(runs[s], new)
    BY <2>1, WithinGrows
  <2> QED BY <1>1, <2>2
<1> QED BY <1>1

LEMMA BoundsStart ==
  ASSUME Shape, NEW h \in DOMAIN Script[page].code, NEW update, Start(h, update),
         NEW old, NEW new, Bounds(view, runs, old), Grows(old, new),
         "first" \notin Code(h).local \/ \A r \in Data : Writes(h) # {} => issued + 1 \in new[r]
  PROVE  Bounds(view', runs', new)
<1>1. PICK st : st = Started(h, After(ui, update))
  OBVIOUS
<1>2. /\ page \in Pages /\ issued \in Nat /\ view' = Prepared(h, ui') /\ DOMAIN view = Data
      /\ \A s \in Slots :
           \/ runs'[s] = runs[s]
           \/ /\ Place(s) \in 1..Len(st)
              /\ runs'[s] = Begun(st[Place(s)], ui', view, Base(st, Place(s)))
  BY <1>1, StartForm DEF Shape
<1>3. \A i \in 1..Len(st) : st[i] \in DOMAIN Script[page].code
  BY <1>1, <1>2, Bases
<1>4. \A r \in Data : view[r].seen \subseteq new[r]
  BY DEF Bounds, Grows
<1>5. ASSUME NEW r \in Data PROVE view'[r].seen \subseteq new[r]
  <2>1. \/ view'[r] = [of |-> Under(r, ui'), seen |-> {}]
        \/ view'[r] = view[r]
        \/ /\ "first" \in Code(h).local /\ Writes(h) # {}
           /\ view'[r] = [of |-> view[r].of, seen |-> view[r].seen \cup {issued + 1}]
    BY <1>2 DEF Prepared
  <2> QED BY <1>4, <2>1
<1>6. ASSUME NEW s \in Slots PROVE runs'[s] \in {runs[s], Free} \/ Within(runs'[s], new)
  <2>1. CASE /\ Place(s) \in 1..Len(st)
             /\ runs'[s] = Begun(st[Place(s)], ui', view, Base(st, Place(s)))
    BY <1>2, <1>3, <1>4, <2>1, WithinBegun
  <2> QED BY <1>2, <2>1
<1> QED BY <1>5, <1>6, BoundsMove

LEMMA BoundsServe ==
  ASSUME Shape, NEW s \in Slots, NEW r \in Data, Serve(s, r),
         NEW old, NEW new, Bounds(view, runs, old), Grows(old, new),
         Handled(s, r) \subseteq new[r], IsWrite(Call(s)) => Number(runs[s]) \in new[r]
  PROVE  Bounds(view', runs', new)
<1>1. /\ view' = view /\ page \in Pages /\ Busy(s) /\ Run(runs[s])
      /\ runs'[s] = Got(runs[s], r, Handled(s, r)) /\ \A q \in Slots \ {s} : runs'[q] = runs[q]
  BY ServeForm
<1>2. Within(runs[s], old) /\ \A x \in Data : view'[x].seen \subseteq new[x]
  BY <1>1 DEF Bounds, Grows, Busy
<1>3. IsWrite(Code(runs[s].h).calls[runs[s].at]) => Number(runs[s]) \in new[r]
  BY DEF Call
<1>4. Within(runs'[s], new)
  BY <1>1, <1>2, <1>3, WithinGot
<1> QED BY <1>1, <1>2, <1>4, BoundsMove

LEMMA BoundsCatch ==
  ASSUME Shape, Orderly(page), NEW s \in Slots, NEW r \in Data, Catch(s, r),
         NEW store, Bounds(view, runs, store)
  PROVE  Bounds(view', runs', store)
<1>1. /\ view' = view /\ page \in Pages /\ Busy(s) /\ Run(runs[s])
      /\ Code(runs[s].h).calls[runs[s].at].soft \in {"keep", "empty"}
      /\ runs'[s] = Got(runs[s], r, Lost) /\ \A q \in Slots \ {s} : runs'[q] = runs[q]
  BY CatchForm DEF Call
<1>2. Within(runs[s], store) /\ \A x \in Data : view'[x].seen \subseteq store[x]
  BY <1>1 DEF Bounds, Busy
<1>3. Within(runs'[s], store)
  BY <1>1, <1>2, WithinLost
<1> QED BY <1>1, <1>2, <1>3, BoundsMove DEF Grows

LEMMA BoundsAnswer ==
  ASSUME Shape, Orderly(page), NEW s \in Slots, Answer(s),
         NEW old, NEW new, Bounds(view, runs, old), Grows(old, new)
  PROVE  Bounds(view', runs', new)
<1>1. PICK run : run = runs[s]
  OBVIOUS
<1>2. PICK then : then = Code(run.h).next
  OBVIOUS
<1>3. PICK got : got = IF Code(run.h).calls[run.at].late THEN run.got ELSE <<>>
  OBVIOUS
<1>4. /\ page \in Pages /\ Busy(s) /\ Served(s) /\ Run(run)
      /\ \A r \in Data : view'[r] = Held(s, r)
      /\ \A q \in Slots \ {s} : runs'[q] \in {runs[q], Free}
      /\ \/ run.at < Len(Code(run.h).calls) /\ runs'[s] = Onward(run, got)
         \/ runs'[s] = Free
         \/ /\ then \in DOMAIN Script[page].code /\ Code(then).calls # <<>>
            /\ runs'[s] = Begun(then, ui', view', issued)
  BY <1>1, <1>2, <1>3, AnswerForm DEF Call
<1>5. \A r \in Data : view'[r].seen \subseteq new[r]
  BY <1>4, HeldBound DEF Grows
<1>6. runs'[s] = Free \/ Within(runs'[s], new)
  <2>1. CASE run.at < Len(Code(run.h).calls) /\ runs'[s] = Onward(run, got)
    <3>1. Within(run, old)
      BY <1>1, <1>4 DEF Bounds, Busy
    <3>2. Within(run, new)
      BY <1>4, <3>1, WithinGrows
    <3> QED BY <1>3, <1>4, <2>1, <3>2, WithinOnward
  <2> QED BY <1>4, <1>5, <2>1, WithinBegun
<1> QED BY <1>4, <1>5, <1>6, BoundsMove

LEMMA BoundsEnd ==
  ASSUME Shape, NEW s \in Slots, Fail(s) \/ Expel(s), NEW store, Bounds(view, runs, store)
  PROVE  Bounds(view', runs', store)
<1>1. view' = view /\ \A q \in Slots : runs'[q] \in {runs[q], Free}
  BY DEF Fail, Expel, Shape
<1> QED BY <1>1, BoundsMove DEF Grows, Bounds

LEMMA BoundsElsewhere ==
  ASSUME Shape, NEW r \in Data, Elsewhere(r),
         NEW old, NEW new, Bounds(view, runs, old), Grows(old, new)
  PROVE  Bounds(view', runs', new)
<1>1. view' = view /\ \A q \in Slots : runs'[q] = runs[q]
  BY DEF Elsewhere
<1>2. \A x \in Data : view'[x].seen \subseteq new[x]
  BY <1>1 DEF Bounds, Grows
<1> QED BY <1>1, <1>2, BoundsMove

LEMMA BoundsInit ==
  ASSUME Init, NEW store
  PROVE  Bounds(view, runs, store)
<1>1. \A r \in Data : view[r].seen \subseteq store[r]
  BY DEF Init
<1>2. ASSUME NEW s \in Slots, Busy(s) PROVE Within(runs[s], store)
  BY <1>1, <1>2, Mounted, WithinBegun
<1> QED BY <1>1, <1>2 DEF Bounds, Busy

-----------------------------------------------------------------------------
(* On a careful page nothing is shown that is not stored: what is shown     *)
(* once was, and what a run will show is.                                   *)
Stored == Careful(page) => Bounds(view, runs, db)

LEMMA StoredStep == ASSUME Shape, Stored, [Next]_vars PROVE Stored'
<1> SUFFICES ASSUME Careful(page), Bounds(view, runs, db) PROVE Bounds(view', runs', db')
  <2>1. page' = page
    BY ShapeStep
  <2>2. Careful(page)' <=> Careful(page)
    BY <2>1 DEF Careful
  <2>3. Bounds(view', runs', db') => Bounds(view, runs, db)'
    BY <2>1 DEF Bounds, Within, Data, Code, Writes, Number, Asked
  <2> QED BY <2>2, <2>3 DEF Stored
<1>1. Orderly(page) /\ Grows(db, db)
  BY OrderlyAssumption DEF Shape, Pages, Grows
<1>2. ASSUME NEW h \in DOMAIN Script[page].code, Use(h) \/ Tick(h) PROVE Bounds(view', runs', db')
  <2>1. PICK update : Start(h, update)
    BY <1>2 DEF Use, Tick
  <2>2. "first" \notin Code(h).local /\ db' = db
    BY <2>1, StartForm DEF Careful, Code
  <2> QED BY <1>1, <2>1, <2>2, BoundsStart
<1>3. ASSUME NEW s \in Slots, NEW r \in Data, Serve(s, r) PROVE Bounds(view', runs', db')
  <2>1. /\ db'[r] = Handled(s, r) /\ \A x \in Data \ {r} : db'[x] = db[x]
        /\ Run(runs[s])
    BY <1>3, ServeForm
  <2>2. Call(s).op \in {"get", "add"}
    <3>1. page \in Pages /\ Call(s) \in Requests(page)
      BY <2>1, CallsTyped DEF Shape, Run, Call
    <3>2. Call(s).op # "put"
      BY <2>1 DEF Careful, Run, Call, Code
    <3> QED BY <3>1, <3>2 DEF Requests
  <2>3. db[r] \subseteq Handled(s, r) /\ (IsWrite(Call(s)) => Number(runs[s]) \in Handled(s, r))
    BY <2>2 DEF Handled, IsWrite
  <2>4. Grows(db, db')
    BY <2>1, <2>3 DEF Grows
  <2> QED BY <1>3, <2>1, <2>3, <2>4, BoundsServe
<1>4. ASSUME NEW s \in Slots, NEW r \in Data, Catch(s, r) PROVE Bounds(view', runs', db')
  <2>1. db' = db
    BY <1>4, CatchForm
  <2> QED BY <1>1, <1>4, <2>1, BoundsCatch
<1>5. ASSUME NEW s \in Slots, Answer(s) PROVE Bounds(view', runs', db')
  <2>1. db' = db
    BY <1>5, AnswerForm
  <2> QED BY <1>1, <1>5, <2>1, BoundsAnswer
<1>6. ASSUME NEW s \in Slots, Fail(s) \/ Expel(s) PROVE Bounds(view', runs', db')
  <2>1. db' = db
    BY <1>6 DEF Fail, Expel
  <2> QED BY <1>6, <2>1, BoundsEnd
<1>7. ASSUME NEW r \in Data, Elsewhere(r) PROVE Bounds(view', runs', db')
  <2>1. Grows(db, db')
    BY <1>7 DEF Elsewhere, Shape, Grows
  <2> QED BY <1>7, <2>1, BoundsElsewhere
<1>8. CASE UNCHANGED vars
  BY <1>8 DEF vars
<1> QED BY <1>2, <1>3, <1>4, <1>5, <1>6, <1>7, <1>8 DEF Next

(* However requests fail and answers cross, a page that does not show a     *)
(* change before it was answered shows only what the control plane has      *)
(* stored: for all pages so written, any number of handlers under way, of   *)
(* changes and of failures.                                                 *)
THEOREM ShownIsStoredHolds == Spec => []ShownIsStored
<1>1. Init => Stored
  BY BoundsInit DEF Stored
<1>2. Shape /\ Stored => ShownIsStored
  <2> SUFFICES ASSUME Shape, Stored, page \notin Optimistic PROVE ShowsStored
    BY DEF ShownIsStored
  <2>1. Careful(page)
    BY CarefulAssumption DEF Shape
  <2> QED BY <2>1 DEF Stored, Bounds, ShowsStored
<1> QED BY ShapeHolds, StoredStep, <1>1, <1>2, PTL DEF Spec

-----------------------------------------------------------------------------
(* Numbers: each run has a span of its own among the numbers given out.     *)
Apart(a, b) ==
  \/ Writes(a.h) = {} \/ Writes(b.h) = {}
  \/ a.base + Count(a.h) <= b.base \/ b.base + Count(b.h) <= a.base

Below(run, top) == run.base \in Nat /\ (Writes(run.h) # {} => run.base + Count(run.h) <= top)

Spans(under, top) ==
  /\ \A s \in Slots : under[s] # Free => Below(under[s], top)
  /\ \A s, q \in Slots : under[s] # Free /\ under[q] # Free /\ s # q => Apart(under[s], under[q])

(* The number of a run's current change is one of its own.                  *)
LEMMA NumberRange ==
  ASSUME page \in Pages, NEW run, Run(run), run.base \in Nat
  PROVE  /\ Number(run) \in Nat /\ run.base <= Number(run) /\ Number(run) <= run.base + Count(run.h)
         /\ IsWrite(Code(run.h).calls[run.at]) => run.base < Number(run) /\ Writes(run.h) # {}
         /\ Writes(run.h) = {} => Number(run) = run.base
<1>1. /\ run.h \in DOMAIN Script[page].code /\ run.at \in DOMAIN Code(run.h).calls
      /\ Asked(run) \subseteq Writes(run.h)
  BY DEF Run, Asked
<1>2. /\ IsFiniteSet(Writes(run.h)) /\ IsFiniteSet(Asked(run)) /\ Cardinality(Asked(run)) \in Nat
      /\ Cardinality(Asked(run)) <= Count(run.h) /\ Count(run.h) \in Nat
  BY <1>1, CountType, FS_Subset, FS_CardinalityType DEF Count
<1>3. ASSUME IsWrite(Code(run.h).calls[run.at])
      PROVE  Cardinality(Asked(run)) # 0 /\ Writes(run.h) # {}
  <2>1. run.at \in Asked(run)
    <3>1. run.at \in Nat
      <4>1. PICK n \in Nat : DOMAIN Code(run.h).calls = 1..n
        BY <1>1, CallsTyped
      <4> QED BY <1>1, <4>1
    <3> QED BY <1>1, <1>3, <3>1 DEF Asked, Writes
  <2> QED BY <1>1, <1>2, <2>1, FS_EmptySet
<1>4. ASSUME Writes(run.h) = {} PROVE Cardinality(Asked(run)) = 0
  BY <1>1, <1>4, FS_EmptySet
<1> QED BY <1>2, <1>3, <1>4 DEF Number

LEMMA BelowMore ==
  ASSUME page \in Pages, NEW run, run.h \in DOMAIN Script[page].code, NEW old \in Nat, NEW new \in Nat, old <= new,
         Below(run, old)
  PROVE  Below(run, new)
BY CountType DEF Below

LEMMA SpansStart ==
  ASSUME Shape, NEW h \in DOMAIN Script[page].code, NEW update, Start(h, update), Spans(runs, issued)
  PROVE  Spans(runs', issued')
<1>1. PICK st : st = Started(h, After(ui, update))
  OBVIOUS
<1> DEFINE moved(s) == /\ s \in Idle /\ Place(s) \in 1..Len(st)
                       /\ runs'[s] = Begun(st[Place(s)], ui', view, Base(st, Place(s)))
<1>2. /\ page \in Pages /\ issued \in Nat /\ issued' = issued + Cost(st) /\ issued' \in Nat
      /\ \A s \in Slots : runs'[s] = runs[s] \/ moved(s)
  BY <1>1, StartForm DEF Shape
<1>3. /\ Cost(st) \in Nat /\ Len(st) \in 0..2
      /\ \A i \in 1..Len(st) :
           /\ st[i] \in DOMAIN Script[page].code
           /\ Base(st, i) \in Nat /\ issued <= Base(st, i)
           /\ Base(st, i) + Count(st[i]) <= issued + Cost(st)
           /\ i # 1 => Base(st, 1) + Count(st[1]) <= Base(st, i)
  BY <1>1, <1>2, Bases
<1>4. ASSUME NEW s \in Slots, moved(s)
      PROVE  /\ runs'[s].h = st[Place(s)] /\ runs'[s].base \in Nat /\ Count(runs'[s].h) \in Nat
             /\ Writes(runs'[s].h) # {} =>
                  /\ runs'[s].base = Base(st, Place(s)) /\ issued <= runs'[s].base
                  /\ runs'[s].base + Count(runs'[s].h) <= issued'
  <2>1. PICK i \in 1..Len(st) : i = Place(s)
    BY <1>4
  <2>2. runs'[s] = Begun(st[i], ui', view, Base(st, i))
    BY <1>4, <2>1
  <2>3. PICK run : run = runs'[s]
    OBVIOUS
  <2>4. run.h = st[i] /\ run.base = IF Writes(st[i]) = {} THEN 0 ELSE Base(st, i)
    <3>1. PICK g, b : g = st[i] /\ b = Base(st, i)
      OBVIOUS
    <3>2. run = Begun(g, ui', view, b)
      BY <2>2, <2>3, <3>1
    <3>3. run.h = g /\ run.base = IF Writes(g) = {} THEN 0 ELSE b
      BY <3>2, BegunNamed
    <3> QED BY <3>1, <3>3
  <2>5. Count(st[i]) \in Nat
    BY <1>2, <1>3, CountType
  <2>6. /\ run.h = st[i] /\ run.base \in Nat /\ Count(run.h) \in Nat
        /\ Writes(run.h) # {} =>
             run.base = Base(st, i) /\ issued <= run.base /\ run.base + Count(run.h) <= issued'
    BY <1>2, <1>3, <2>4, <2>5
  <2> QED BY <2>1, <2>3, <2>6
<1>5. ASSUME NEW s \in Slots, runs'[s] = runs[s], runs[s] # Free
      PROVE  runs[s].h \in DOMAIN Script[page].code /\ Count(runs[s].h) \in Nat /\ Below(runs[s], issued)
  BY <1>2, <1>5, CountType DEF Spans, Shape, Busy, Run
<1> HIDE DEF moved
<1>6. ASSUME NEW s \in Slots, runs'[s] # Free PROVE Below(runs'[s], issued')
  <2>1. CASE moved(s)
    BY <1>4, <2>1 DEF Below
  <2>2. CASE runs'[s] = runs[s]
    <3>1. issued <= issued'
      BY <1>2, <1>3
    <3>2. runs[s] # Free
      BY <1>6, <2>2
    <3>3. Below(runs[s], issued')
      BY <1>2, <1>5, <2>2, <3>1, <3>2, BelowMore
    <3> QED BY <2>2, <3>3
  <2> QED BY <1>2, <2>1, <2>2
<1>7. ASSUME NEW s \in Slots, NEW q \in Slots, runs'[s] # Free, runs'[q] # Free, s # q
      PROVE  Apart(runs'[s], runs'[q])
  <2>1. CASE runs'[s] = runs[s] /\ runs'[q] = runs[q]
    BY <1>7, <2>1 DEF Spans
  <2>2. ASSUME NEW x \in Slots, NEW y \in Slots, runs'[x] = runs[x], runs[x] # Free, moved(y)
        PROVE  Apart(runs'[x], runs'[y]) /\ Apart(runs'[y], runs'[x])
    <3>1. PICK a : a = runs'[x]
      OBVIOUS
    <3>2. PICK b : b = runs'[y]
      OBVIOUS
    <3>3. Below(a, issued) /\ Count(a.h) \in Nat
      BY <1>5, <2>2, <3>1
    <3>4. Writes(b.h) # {} => issued <= b.base /\ b.base \in Nat
      BY <1>4, <2>2, <3>2
    <3>5. Apart(a, b) /\ Apart(b, a)
      BY <1>2, <3>3, <3>4 DEF Apart, Below
    <3> QED BY <3>1, <3>2, <3>5
  <2>3. CASE moved(s) /\ moved(q)
    <3>1. s \in Idle /\ q \in Idle /\ Place(s) \in 1..Len(st) /\ Place(q) \in 1..Len(st)
      BY <2>3 DEF moved
    <3>2. Place(s) # Place(q)
      <4>1. s < q \/ q < s
        BY <1>7, ConsoleAssumption DEF Slots
      <4> QED BY <3>1, <4>1, Places
    <3>3. (Place(s) = 1 /\ Place(q) # 1) \/ (Place(q) = 1 /\ Place(s) # 1)
      BY <1>3, <3>1, <3>2
    <3>4. ASSUME Writes(runs'[s].h) # {}, Writes(runs'[q].h) # {}
          PROVE  /\ runs'[s].h = st[Place(s)] /\ runs'[q].h = st[Place(q)]
                 /\ runs'[s].base = Base(st, Place(s)) /\ runs'[q].base = Base(st, Place(q))
      BY <1>4, <1>7, <2>3, <3>4
    <3> QED BY <1>3, <3>1, <3>3, <3>4 DEF Apart
  <2> QED BY <1>2, <1>7, <2>1, <2>2, <2>3
<1> QED BY <1>6, <1>7 DEF Spans

(* One run moves: it keeps its numbers, ends or is replaced by one with the *)
(* next numbers.                                                            *)
LEMMA SpansMove ==
  ASSUME Shape, Spans(runs, issued), NEW s \in Slots, issued' \in Nat, issued <= issued',
         \A q \in Slots \ {s} : runs'[q] \in {runs[q], Free},
         \/ runs'[s] = Free
         \/ Busy(s) /\ runs'[s].h = runs[s].h /\ runs'[s].base = runs[s].base
         \/ /\ runs'[s].h \in DOMAIN Script[page].code
            /\ runs'[s].base = IF Writes(runs'[s].h) = {} THEN 0 ELSE issued
            /\ issued + Count(runs'[s].h) <= issued'
  PROVE  Spans(runs', issued')
<1>1. page \in Pages /\ issued \in Nat
  BY DEF Shape
<1>2. ASSUME NEW q \in Slots, Busy(q)
      PROVE  runs[q].h \in DOMAIN Script[page].code /\ Count(runs[q].h) \in Nat /\ Below(runs[q], issued)
  BY <1>1, <1>2, CountType DEF Spans, Shape, Busy, Run
<1>3. \A q \in Slots : Busy(q) => Below(runs[q], issued')
  BY <1>1, <1>2, BelowMore
<1>4. \A q \in Slots \ {s} : runs'[q] # Free => runs'[q] = runs[q] /\ Busy(q)
  BY DEF Busy
<1>5. ASSUME NEW p \in Slots, NEW q \in Slots, Busy(p), Busy(q), p # q PROVE Apart(runs[p], runs[q])
  BY <1>5 DEF Spans, Busy
<1>6. CASE runs'[s] = Free
  <2>1. \A q \in Slots : runs'[q] # Free => runs'[q] = runs[q] /\ Busy(q)
    BY <1>4, <1>6
  <2> QED BY <1>3, <1>5, <2>1 DEF Spans
<1>7. CASE Busy(s) /\ runs'[s].h = runs[s].h /\ runs'[s].base = runs[s].base
  <2>1. \A q \in Slots : runs'[q] # Free => runs'[q].h = runs[q].h /\ runs'[q].base = runs[q].base /\ Busy(q)
    BY <1>4, <1>7
  <2>2. \A q \in Slots : runs'[q] # Free => Below(runs'[q], issued')
    BY <1>3, <2>1 DEF Below
  <2>3. \A p, q \in Slots : runs'[p] # Free /\ runs'[q] # Free /\ p # q => Apart(runs'[p], runs'[q])
    BY <1>5, <2>1 DEF Apart
  <2> QED BY <2>2, <2>3 DEF Spans
<1>8. CASE /\ runs'[s].h \in DOMAIN Script[page].code
           /\ runs'[s].base = IF Writes(runs'[s].h) = {} THEN 0 ELSE issued
           /\ issued + Count(runs'[s].h) <= issued'
  <2>1. PICK run : run = runs'[s]
    OBVIOUS
  <2>2. Below(run, issued') /\ (Writes(run.h) # {} => run.base = issued)
    BY <1>1, <1>8, <2>1 DEF Below
  <2>3. ASSUME NEW q \in Slots, Busy(q) PROVE Apart(run, runs[q]) /\ Apart(runs[q], run)
    BY <1>1, <1>2, <2>2, <2>3 DEF Apart, Below
  <2>4. \A q \in Slots : runs'[q] # Free => Below(runs'[q], issued')
    BY <1>3, <1>4, <2>1, <2>2
  <2>5. \A p, q \in Slots : runs'[p] # Free /\ runs'[q] # Free /\ p # q => Apart(runs'[p], runs'[q])
    BY <1>4, <1>5, <2>1, <2>3
  <2> QED BY <2>4, <2>5 DEF Spans
<1> QED BY <1>6, <1>7, <1>8

-----------------------------------------------------------------------------
(* Fields: a selection is always one of the choices, and so is what data    *)
(* were asked for.                                                          *)
Fields(state) == DOMAIN state = DOMAIN Script[page].start /\ \A f \in Selections(page) : state[f] \in Choices
Fits(update) == \A f \in Selections(page) : f \in DOMAIN update => update[f] \in Choices

LEMMA FieldsAfter ==
  ASSUME page \in Pages, NEW state, Fields(state), NEW update, Fits(update)
  PROVE  Fields(After(state, update))
<1>1. Selections(page) \subseteq DOMAIN state
  BY SelectionAssumption DEF Pages, Fields
<1> QED BY <1>1 DEF Fields, Fits, After

LEMMA UpdatesFit ==
  ASSUME page \in Pages, NEW h \in DOMAIN Script[page].code, NEW update \in Updates(page, h)
  PROVE  Fits(update)
BY SelectionAssumption DEF Pages, Fits

LEMMA FieldsEntered ==
  ASSUME page \in Pages, NEW h, h \in DOMAIN Script[page].code \cup {""}, NEW state, Fields(state)
  PROVE  Fields(Entered(h, state))
<1>1. CASE Goes(h, state)
  <2>1. h \in DOMAIN Script[page].code
    BY <1>1 DEF Goes
  <2>2. Code(h).begin \in Updates(page, h)
    BY DEF Updates, Code
  <2>3. Fields(After(state, Code(h).begin))
    BY <2>1, <2>2, UpdatesFit, FieldsAfter
  <2> QED BY <1>1, <2>3 DEF Entered
<1>2. CASE ~Goes(h, state)
  BY <1>2 DEF Entered
<1> QED BY <1>1, <1>2

(* What a control assigns, before the first await. *)
LEMMA UseForm ==
  ASSUME NEW h \in DOMAIN Script[page].code, Use(h) \/ Tick(h)
  PROVE  \E update :
           /\ Start(h, update) /\ DOMAIN Code(h).begin \subseteq DOMAIN update
           /\ \A f \in DOMAIN update :
                \/ f \in DOMAIN Code(h).begin /\ update[f] = Code(h).begin[f]
                \/ f = Code(h).pick /\ f # "" /\ update[f] \in Chosen
           /\ \A f \in DOMAIN Code(h).begin : f # Code(h).pick => update[f] = Code(h).begin[f]
<1>1. CASE Start(h, Code(h).begin)
  BY <1>1
<1>2. CASE Code(h).pick # "" /\ \E a \in Chosen :
             Start(h, [f \in DOMAIN Code(h).begin \cup {Code(h).pick} |->
                         IF f = Code(h).pick THEN a ELSE Code(h).begin[f]])
  <2>1. PICK a \in Chosen :
             Start(h, [f \in DOMAIN Code(h).begin \cup {Code(h).pick} |->
                         IF f = Code(h).pick THEN a ELSE Code(h).begin[f]])
    BY <1>2
  <2>2. PICK update : update = [f \in DOMAIN Code(h).begin \cup {Code(h).pick} |->
                                  IF f = Code(h).pick THEN a ELSE Code(h).begin[f]]
    OBVIOUS
  <2>3. Start(h, update)
    BY <2>1, <2>2
  <2>4. /\ DOMAIN Code(h).begin \subseteq DOMAIN update
        /\ \A f \in DOMAIN update :
             \/ f \in DOMAIN Code(h).begin /\ update[f] = Code(h).begin[f]
             \/ f = Code(h).pick /\ f # "" /\ update[f] \in Chosen
        /\ \A f \in DOMAIN Code(h).begin : f # Code(h).pick => update[f] = Code(h).begin[f]
    BY <1>2, <2>2
  <2> QED BY <2>3, <2>4
<1> QED BY <1>1, <1>2 DEF Use, Tick

LEMMA FieldsUse ==
  ASSUME Shape, Fields(ui), NEW h \in DOMAIN Script[page].code, Use(h) \/ Tick(h)
  PROVE  Fields(ui')
<1>1. PICK update :
        /\ Start(h, update)
        /\ \A f \in DOMAIN update :
             \/ f \in DOMAIN Code(h).begin /\ update[f] = Code(h).begin[f]
             \/ f = Code(h).pick /\ f # "" /\ update[f] \in Chosen
  BY UseForm
<1>2. page \in Pages /\ Code(h).also \in DOMAIN Script[page].code \cup {""}
  BY CallsTyped DEF Shape
<1>3. Fits(Code(h).begin)
  BY <1>2, UpdatesFit DEF Updates, Code
<1>4. Fits(update)
  BY <1>1, <1>3 DEF Fits, Choices
<1>5. Fields(After(ui, update))
  BY <1>2, <1>4, FieldsAfter
<1>6. ui' = Entered(Code(h).also, After(ui, update))
  BY <1>1, StartForm
<1> QED BY <1>2, <1>5, <1>6, FieldsEntered

LEMMA FieldsAnswer ==
  ASSUME Shape, Fields(ui), NEW s \in Slots, Answer(s)
  PROVE  Fields(ui')
<1>1. PICK then : then = Code(runs[s].h).next
  OBVIOUS
<1>2. \/ ui' = ui
      \/ \E end \in Code(runs[s].h).ok : ui' = Entered(then, After(ui, end))
  <2>1. PICK got : got = IF Call(s).late THEN runs[s].got ELSE <<>>
    OBVIOUS
  <2>2. \/ ui' = ui
        \/ \E end \in Code(runs[s].h).ok :
             ui' = IF ui.here THEN Entered(then, IF ui.here THEN After(ui, end) ELSE ui) ELSE ui
    BY <1>1, <2>1, AnswerForm
  <2> QED BY <2>2
<1>3. page \in Pages /\ runs[s].h \in DOMAIN Script[page].code /\ then \in DOMAIN Script[page].code \cup {""}
  BY <1>1, AnswerForm, CallsTyped DEF Run
<1>4. ASSUME NEW end \in Code(runs[s].h).ok PROVE Fields(After(ui, end))
  <2>1. end \in Updates(page, runs[s].h)
    BY DEF Updates, Code
  <2> QED BY <1>3, <2>1, UpdatesFit, FieldsAfter
<1> QED BY <1>2, <1>3, <1>4, FieldsEntered

LEMMA FieldsFail ==
  ASSUME Shape, Fields(ui), NEW s \in Slots, Fail(s)
  PROVE  Fields(ui')
<1>1. page \in Pages /\ runs[s].h \in DOMAIN Script[page].code
  BY DEF Shape, Fail, Run
<1>2. ui' = ui \/ \E end \in Code(runs[s].h).err : ui' = After(ui, end)
  BY DEF Fail
<1>3. ASSUME NEW end \in Code(runs[s].h).err PROVE Fields(After(ui, end))
  <2>1. end \in Updates(page, runs[s].h)
    BY DEF Updates, Code
  <2> QED BY <1>1, <2>1, UpdatesFit, FieldsAfter
<1> QED BY <1>2, <1>3

(* Data shown, and those asked for, are of one of the choices. *)
Asks(data, under) ==
  /\ \A r \in Data : data[r].of \in Choices
  /\ \A s \in Slots : under[s] # Free => under[s].arg \in Choices

LEMMA BegunAsks ==
  ASSUME page \in Pages, NEW h \in DOMAIN Script[page].code, NEW state, Fields(state), NEW data, NEW base
  PROVE  Begun(h, state, data, base).arg \in Choices
<1>1. PICK f : f = Code(h).of
  OBVIOUS
<1>2. f # "" => f \in Selections(page)
  BY <1>1 DEF Selections, Code
<1>3. Begun(h, state, data, base).arg = IF f = "" THEN 0 ELSE state[f]
  BY <1>1 DEF Begun
<1> QED BY <1>2, <1>3 DEF Fields, Choices

LEMMA AsksUse ==
  ASSUME Shape, Fields(ui), Asks(view, runs), NEW h \in DOMAIN Script[page].code, Use(h) \/ Tick(h)
  PROVE  Asks(view', runs')
<1>1. PICK update : Start(h, update)
  BY UseForm
<1>2. PICK st : st = Started(h, After(ui, update))
  OBVIOUS
<1>3. /\ page \in Pages /\ issued \in Nat /\ view' = Prepared(h, ui') /\ DOMAIN view = Data
      /\ \A s \in Slots :
           \/ runs'[s] = runs[s]
           \/ /\ Place(s) \in 1..Len(st)
              /\ runs'[s] = Begun(st[Place(s)], ui', view, Base(st, Place(s)))
  BY <1>1, <1>2, StartForm DEF Shape
<1>4. \A i \in 1..Len(st) : st[i] \in DOMAIN Script[page].code
  BY <1>2, <1>3, Bases
<1>5. Fields(ui')
  BY FieldsUse
<1>6. ASSUME NEW r \in Data PROVE view'[r].of \in Choices
  <2>1. view'[r].of \in {Under(r, ui'), view[r].of}
    BY <1>3 DEF Prepared
  <2>2. Under(r, ui') \in Choices
    <3>1. PICK f : f = Script[page].under[r]
      OBVIOUS
    <3>2. f # "" => f \in Selections(page)
      BY <3>1 DEF Selections, Data
    <3>3. Under(r, ui') = IF f = "" THEN 0 ELSE ui'[f]
      BY <3>1 DEF Under
    <3> QED BY <1>5, <3>2, <3>3 DEF Fields, Choices
  <2> QED BY <2>1, <2>2 DEF Asks
<1>7. ASSUME NEW s \in Slots, runs'[s] # Free PROVE runs'[s].arg \in Choices
  <2>1. CASE runs'[s] = runs[s]
    BY <1>7, <2>1 DEF Asks
  <2>2. CASE /\ Place(s) \in 1..Len(st)
             /\ runs'[s] = Begun(st[Place(s)], ui', view, Base(st, Place(s)))
    BY <1>3, <1>4, <1>5, <2>2, BegunAsks
  <2> QED BY <1>3, <2>1, <2>2
<1> QED BY <1>6, <1>7 DEF Asks

LEMMA AsksAnswer ==
  ASSUME Shape, Fields(ui), Asks(view, runs), NEW s \in Slots, Answer(s)
  PROVE  Asks(view', runs')
<1>1. PICK run : run = runs[s]
  OBVIOUS
<1>2. PICK then : then = Code(run.h).next
  OBVIOUS
<1>3. PICK got : got = IF Call(s).late THEN run.got ELSE <<>>
  OBVIOUS
<1>4. /\ page \in Pages /\ Busy(s) /\ Run(run)
      /\ \A r \in Data : view'[r] = Held(s, r)
      /\ \A q \in Slots \ {s} : runs'[q] \in {runs[q], Free}
      /\ \/ run.at < Len(Code(run.h).calls) /\ DOMAIN got \subseteq Data /\ runs'[s] = Onward(run, got)
         \/ runs'[s] = Free
         \/ then \in DOMAIN Script[page].code /\ runs'[s] = Begun(then, ui', view', issued)
  BY <1>1, <1>2, <1>3, AnswerForm
<1>5. run.arg \in Choices
  BY <1>1, <1>4 DEF Asks, Busy
<1>6. ASSUME NEW r \in Data PROVE view'[r].of \in Choices
  <2>1. Held(s, r).of \in {view[r].of, run.arg}
    BY <1>1 DEF Held, Read, Written
  <2> QED BY <1>4, <1>5, <2>1 DEF Asks
<1>7. runs'[s] = Free \/ runs'[s].arg \in Choices
  <2>1. CASE run.at < Len(Code(run.h).calls) /\ DOMAIN got \subseteq Data /\ runs'[s] = Onward(run, got)
    BY <1>4, <1>5, <2>1, OnwardRuns
  <2>2. CASE then \in DOMAIN Script[page].code /\ runs'[s] = Begun(then, ui', view', issued)
    BY <1>4, <2>2, FieldsAnswer, BegunAsks
  <2> QED BY <1>4, <2>1, <2>2
<1> QED BY <1>4, <1>6, <1>7 DEF Asks

-----------------------------------------------------------------------------
(* Types. *)

All(top) == [r \in Data |-> 1..top]

Typed ==
  /\ Fields(ui) /\ Asks(view, runs) /\ Spans(runs, issued)
  /\ Bounds(view, runs, All(issued))
  /\ \A r \in Data : db[r] \subseteq 1..issued
  /\ acked \cup denied \subseteq 1..issued
  /\ crossed \in BOOLEAN /\ faults \in 0..MaxFaults

(* What was numbered stays numbered. *)
LEMMA AllGrows ==
  ASSUME NEW old \in Nat, NEW new \in Nat, old <= new
  PROVE  Grows(All(old), All(new)) /\ 1..old \subseteq 1..new /\ \A r \in Data : All(new)[r] = 1..new
BY DEF Grows, All

(* What a run asked for so far is numbered. *)
LEMMA Numbered ==
  ASSUME Shape, Typed, NEW s \in Slots, Busy(s)
  PROVE  /\ runs[s].base \in Nat /\ Number(runs[s]) \in Nat
         /\ (runs[s].base + 1)..Number(runs[s]) \subseteq 1..issued
         /\ IsWrite(Call(s)) => Number(runs[s]) \in 1..issued
<1>1. PICK run : run = runs[s]
  OBVIOUS
<1>2. page \in Pages /\ Run(run) /\ Below(run, issued) /\ issued \in Nat /\ run.base \in Nat
  BY <1>1 DEF Shape, Typed, Spans, Busy, Below
<1>3. Count(run.h) \in Nat
  BY <1>2, CountType DEF Run
<1>4. /\ Number(run) \in Nat /\ run.base <= Number(run) /\ Number(run) <= run.base + Count(run.h)
      /\ IsWrite(Code(run.h).calls[run.at]) => run.base < Number(run) /\ Writes(run.h) # {}
      /\ Writes(run.h) = {} => Number(run) = run.base
  BY <1>2, NumberRange
<1>5. (run.base + 1)..Number(run) \subseteq 1..issued
  BY <1>2, <1>3, <1>4 DEF Below
<1>6. IsWrite(Code(run.h).calls[run.at]) => Number(run) \in 1..issued
  BY <1>2, <1>3, <1>4 DEF Below
<1> QED BY <1>1, <1>2, <1>4, <1>5, <1>6 DEF Call

LEMMA TypedInit == Init => Typed
<1> SUFFICES ASSUME Init PROVE Typed
  OBVIOUS
<1>1. page \in Pages /\ issued = 0
  BY DEF Init
<1>2. Fields(ui)
  BY <1>1, SelectionAssumption DEF Fields, Init, Pages
<1>3. Asks(view, runs)
  <2>1. \A r \in Data : view[r].of \in Choices
    BY DEF Init, Choices
  <2>2. ASSUME NEW s \in Slots, Busy(s) PROVE runs[s].arg \in Choices
    BY <1>2, <2>2, Mounted, BegunAsks
  <2> QED BY <2>1, <2>2 DEF Asks, Busy
<1>4. Spans(runs, issued)
  <2>1. ASSUME NEW s \in Slots, Busy(s) PROVE runs[s].base = 0 /\ Writes(runs[s].h) = {}
    <3>1. PICK h : h = Script[page].mount[s]
      OBVIOUS
    <3>2. /\ s \in DOMAIN Script[page].mount /\ h \in DOMAIN Script[page].code
          /\ runs[s] = Begun(h, ui, view, 0)
      BY <2>1, <3>1, Mounted
    <3>3. Orderly(page)
      BY <1>1, OrderlyAssumption DEF Pages
    <3>4. \A k \in DOMAIN Code(h).calls : Code(h).calls[k].op = "get"
      BY <3>1, <3>2, <3>3 DEF Orderly, Code
    <3>5. runs[s].h = h /\ runs[s].base = 0
      BY <3>2, BegunNamed
    <3> QED BY <3>4, <3>5 DEF Writes, IsWrite
  <2>2. \A s \in Slots : runs[s] # Free => Below(runs[s], issued)
    BY <2>1 DEF Busy, Below
  <2>3. \A s, q \in Slots : runs[s] # Free /\ runs[q] # Free => Apart(runs[s], runs[q])
    BY <2>1 DEF Busy, Apart
  <2> QED BY <2>2, <2>3 DEF Spans
<1>5. Bounds(view, runs, All(issued))
  BY BoundsInit
<1>6. MaxFaults \in Nat
  BY ConsoleAssumption
<1>7. /\ \A r \in Data : db[r] \subseteq 1..issued
      /\ acked \cup denied \subseteq 1..issued /\ crossed \in BOOLEAN
  BY DEF Init
<1>8. faults \in 0..MaxFaults
  BY <1>6 DEF Init
<1> QED BY <1>2, <1>3, <1>4, <1>5, <1>7, <1>8 DEF Typed

LEMMA TypedStep == ASSUME Shape, Typed, [Next]_vars PROVE Typed'
<1>1. page' = page /\ page \in Pages /\ Orderly(page) /\ issued \in Nat /\ issued' \in Nat
  BY ShapeStep, OrderlyAssumption DEF Shape, Pages
<1>2. SUFFICES /\ Fields(ui') /\ Asks(view', runs') /\ Spans(runs', issued')
               /\ Bounds(view', runs', All(issued'))
               /\ \A r \in Data : db'[r] \subseteq 1..issued'
               /\ acked' \cup denied' \subseteq 1..issued'
               /\ crossed' \in BOOLEAN /\ faults' \in 0..MaxFaults
  <2>1. Fields(ui') => Fields(ui)'
    BY <1>1 DEF Fields, Selections
  <2>2. Asks(view', runs') => Asks(view, runs)'
    BY <1>1 DEF Asks, Data
  <2>3. Spans(runs', issued') => Spans(runs, issued)'
    BY <1>1 DEF Spans, Below, Apart, Count, Writes, Code
  <2>4. Bounds(view', runs', All(issued')) => Bounds(view, runs, All(issued))'
    BY <1>1 DEF Bounds, Within, All, Data, Code, Writes, Number, Asked
  <2>5. Data' = Data
    BY <1>1 DEF Data
  <2> QED BY <2>1, <2>2, <2>3, <2>4, <2>5 DEF Typed
<1>3. MaxFaults \in Nat /\ faults \in 0..MaxFaults
  BY ConsoleAssumption DEF Typed
<1>4. ASSUME NEW h \in DOMAIN Script[page].code, Use(h) \/ Tick(h) PROVE <1>2!1
  <2>1. PICK update : Start(h, update)
    BY <1>4, UseForm
  <2>2. /\ issued' = issued + Cost(Started(h, After(ui, update)))
        /\ db' = db /\ acked' = acked /\ denied' = denied /\ faults' = faults
        /\ Cost(Started(h, After(ui, update))) \in Nat
        /\ Writes(h) # {} => Cost(Started(h, After(ui, update))) > 0
    BY <1>1, <2>1, StartForm, Bases
  <2>3. issued <= issued' /\ (Writes(h) # {} => issued + 1 \in 1..issued')
    BY <1>1, <2>2
  <2>4. Grows(All(issued), All(issued')) /\ 1..issued \subseteq 1..issued' /\ \A r \in Data : All(issued')[r] = 1..issued'
    BY <1>1, <2>3, AllGrows
  <2>5. Bounds(view', runs', All(issued'))
    BY <2>1, <2>3, <2>4, BoundsStart DEF Typed
  <2>6. crossed' \in BOOLEAN
    BY <2>1 DEF Start, Typed
  <2>7. Fields(ui') /\ Asks(view', runs') /\ Spans(runs', issued')
    BY <1>4, <2>1, FieldsUse, AsksUse, SpansStart DEF Typed
  <2> QED BY <1>3, <2>2, <2>4, <2>5, <2>6, <2>7 DEF Typed
<1>5. ASSUME NEW s \in Slots, NEW r \in Data, Serve(s, r) PROVE <1>2!1
  <2>1. /\ view' = view /\ ui' = ui /\ issued' = issued /\ Busy(s) /\ Run(runs[s])
        /\ acked' = acked /\ denied' = denied /\ crossed' = crossed /\ faults' = faults
        /\ db'[r] = Handled(s, r) /\ \A x \in Data \ {r} : db'[x] = db[x]
        /\ runs'[s] = Got(runs[s], r, Handled(s, r)) /\ \A q \in Slots \ {s} : runs'[q] = runs[q]
        /\ r \in Call(s).on
    BY <1>5, ServeForm
  <2>2. Handled(s, r) \subseteq 1..issued
    <3>1. Call(s).op \in {"get", "add", "put"}
      BY <1>1, <2>1, CallsTyped DEF Run, Call, Requests
    <3>2. IsWrite(Call(s)) => Number(runs[s]) \in 1..issued
      BY <2>1, Numbered
    <3>3. ASSUME IsWrite(Call(s)) PROVE runs[s].snap[r] \subseteq 1..issued
      <4>1. runs[s].at \in Writes(runs[s].h) /\ r \in Code(runs[s].h).calls[runs[s].at].on
        BY <2>1, <3>3 DEF Run, Writes, Call
      <4>2. Within(runs[s], All(issued))
        BY <2>1 DEF Typed, Bounds, Busy
      <4> QED BY <4>1, <4>2 DEF Within, All
    <3> QED BY <3>1, <3>2, <3>3 DEF Handled, IsWrite, Typed
  <2>3. Bounds(view', runs', All(issued'))
    BY <1>1, <1>5, <2>1, <2>2, Numbered, AllGrows, BoundsServe DEF Typed
  <2>4. Run(Got(runs[s], r, Handled(s, r)))
    BY <2>1, GotRuns
  <2>5. runs'[s].h = runs[s].h /\ runs'[s].base = runs[s].base /\ runs'[s].arg = runs[s].arg
    BY <2>1, GotKeeps
  <2>6. Asks(view', runs')
    BY <2>1, <2>5 DEF Typed, Asks, Busy
  <2>7. Spans(runs', issued')
    BY <1>1, <2>1, <2>5, SpansMove DEF Typed
  <2> QED BY <1>3, <2>1, <2>2, <2>3, <2>6, <2>7 DEF Typed
<1>6. ASSUME NEW s \in Slots, NEW r \in Data, Catch(s, r) PROVE <1>2!1
  <2>1. /\ view' = view /\ ui' = ui /\ issued' = issued /\ db' = db /\ Busy(s) /\ Run(runs[s])
        /\ acked' = acked /\ denied' = denied /\ crossed' = crossed
        /\ faults < MaxFaults /\ faults' = faults + 1
        /\ runs'[s] = Got(runs[s], r, Lost) /\ \A q \in Slots \ {s} : runs'[q] = runs[q]
    BY <1>6, CatchForm
  <2>2. Bounds(view', runs', All(issued'))
    BY <1>1, <1>6, <2>1, BoundsCatch DEF Typed
  <2>3. runs'[s].h = runs[s].h /\ runs'[s].base = runs[s].base /\ runs'[s].arg = runs[s].arg
    BY <2>1, GotKeeps
  <2>4. Asks(view', runs')
    BY <2>1, <2>3 DEF Typed, Asks, Busy
  <2>5. Spans(runs', issued')
    BY <1>1, <2>1, <2>3, SpansMove DEF Typed
  <2>6. faults' \in 0..MaxFaults
    BY <1>3, <2>1
  <2> QED BY <2>1, <2>2, <2>4, <2>5, <2>6 DEF Typed
<1>7. ASSUME NEW s \in Slots, Answer(s) PROVE <1>2!1
  <2>1. PICK run : run = runs[s]
    OBVIOUS
  <2>2. PICK then : then = Code(run.h).next
    OBVIOUS
  <2>3. PICK got : got = IF Call(s).late THEN run.got ELSE <<>>
    OBVIOUS
  <2>4. /\ db' = db /\ Busy(s) /\ Run(run)
        /\ \A q \in Slots \ {s} : runs'[q] \in {runs[q], Free}
        /\ \/ /\ run.at < Len(Code(run.h).calls) /\ runs'[s] = Onward(run, got)
              /\ DOMAIN got \subseteq Data /\ issued' = issued
           \/ runs'[s] = Free /\ issued' = issued
           \/ /\ then \in DOMAIN Script[page].code /\ Count(then) \in Nat
              /\ runs'[s] = Begun(then, ui', view', issued) /\ issued' = issued + Count(then)
        /\ acked' = (IF IsWrite(Call(s)) THEN acked \cup {Number(run)} ELSE acked)
        /\ denied' = denied /\ crossed' = crossed /\ faults' = faults
    BY <1>7, <2>1, <2>2, <2>3, AnswerForm
  <2>5. issued <= issued'
    BY <1>1, <2>4
  <2>6. Grows(All(issued), All(issued')) /\ 1..issued \subseteq 1..issued'
    BY <1>1, <2>5, AllGrows
  <2>7. Bounds(view', runs', All(issued'))
    BY <1>1, <1>7, <2>6, BoundsAnswer DEF Typed
  <2>8. IsWrite(Call(s)) => Number(run) \in 1..issued
    BY <2>1, <2>4, Numbered
  <2>9. Spans(runs', issued')
    <3>1. CASE run.at < Len(Code(run.h).calls) /\ runs'[s] = Onward(run, got) /\ DOMAIN got \subseteq Data
      <4>1. runs'[s].h = run.h /\ runs'[s].base = run.base
        BY <1>1, <2>4, <3>1, OnwardRuns
      <4> QED BY <1>1, <2>1, <2>4, <2>5, <4>1, SpansMove DEF Typed
    <3>2. CASE runs'[s] = Free
      BY <1>1, <2>4, <2>5, <3>2, SpansMove DEF Typed
    <3>3. CASE /\ then \in DOMAIN Script[page].code /\ Count(then) \in Nat
               /\ runs'[s] = Begun(then, ui', view', issued) /\ issued' = issued + Count(then)
      <4>1. runs'[s].h = then /\ runs'[s].base = IF Writes(then) = {} THEN 0 ELSE issued
        BY <3>3, BegunNamed
      <4>2. issued + Count(runs'[s].h) <= issued'
        BY <1>1, <3>3, <4>1
      <4> QED BY <1>1, <2>4, <2>5, <3>3, <4>1, <4>2, SpansMove DEF Typed
    <3> QED BY <2>4, <3>1, <3>2, <3>3
  <2>10. Fields(ui') /\ Asks(view', runs')
    BY <1>7, FieldsAnswer, AsksAnswer DEF Typed
  <2> QED BY <1>3, <2>4, <2>6, <2>7, <2>8, <2>9, <2>10 DEF Typed
<1>8. ASSUME NEW s \in Slots, Fail(s) PROVE <1>2!1
  <2>1. /\ view' = view /\ db' = db /\ issued' = issued /\ acked' = acked /\ crossed' = crossed
        /\ faults < MaxFaults /\ faults' = faults + 1 /\ Busy(s)
        /\ denied' \subseteq denied \cup (runs[s].base + 1)..Number(runs[s])
        /\ runs'[s] = Free /\ \A q \in Slots \ {s} : runs'[q] \in {runs[q], Free}
    BY <1>8 DEF Fail, Shape
  <2>2. Spans(runs', issued')
    BY <1>1, <2>1, SpansMove DEF Typed
  <2>3. Asks(view', runs')
    BY <2>1 DEF Typed, Asks
  <2>4. denied' \subseteq 1..issued
    BY <2>1, Numbered DEF Typed
  <2>5. faults' \in 0..MaxFaults
    BY <1>3, <2>1
  <2>6. Fields(ui')
    BY <1>8, FieldsFail DEF Typed
  <2>7. Bounds(view', runs', All(issued'))
    BY <1>8, <2>1, BoundsEnd DEF Typed
  <2> QED BY <2>1, <2>2, <2>3, <2>4, <2>5, <2>6, <2>7 DEF Typed
<1>9. ASSUME NEW s \in Slots, Expel(s) PROVE <1>2!1
  <2>1. /\ view' = view /\ db' = db /\ issued' = issued /\ acked' = acked /\ crossed' = crossed
        /\ denied' = denied /\ ui' = [ui EXCEPT !.here = FALSE]
        /\ faults < MaxFaults /\ faults' = faults + 1
        /\ \A q \in Slots : runs'[q] = Free
    BY <1>9 DEF Expel
  <2>2. Fields(ui')
    <3>1. \A f \in Selections(page) : f # "here" /\ f \in DOMAIN ui /\ ui[f] \in Choices
      BY <1>1, SelectionAssumption DEF Pages, Fields, Typed
    <3>2. DOMAIN ui' = DOMAIN ui /\ \A f \in DOMAIN ui : f # "here" => ui'[f] = ui[f]
      BY <2>1
    <3>3. DOMAIN ui = DOMAIN Script[page].start
      BY DEF Fields, Typed
    <3>4. \A f \in Selections(page) : ui'[f] \in Choices
      BY <3>1, <3>2
    <3> QED BY <3>2, <3>3, <3>4 DEF Fields
  <2>3. Bounds(view', runs', All(issued'))
    BY <1>9, <2>1, BoundsEnd DEF Typed
  <2>4. faults' \in 0..MaxFaults
    BY <1>3, <2>1
  <2>5. Spans(runs', issued') /\ Asks(view', runs')
    BY <2>1 DEF Spans, Asks, Typed
  <2> QED BY <2>1, <2>2, <2>3, <2>4, <2>5 DEF Typed
<1>10. ASSUME NEW r \in Data, Elsewhere(r) PROVE <1>2!1
  <2>1. /\ view' = view /\ runs' = runs /\ ui' = ui /\ issued' = issued + 1 /\ acked' = acked
        /\ crossed' = crossed /\ denied' = denied /\ faults' = faults
        /\ db' = [db EXCEPT ![r] = @ \cup {issued + 1}]
    BY <1>10 DEF Elsewhere
  <2>2. issued <= issued' /\ issued + 1 \in 1..issued'
    BY <1>1, <2>1
  <2>3. Grows(All(issued), All(issued')) /\ 1..issued \subseteq 1..issued'
    BY <1>1, <2>2, AllGrows
  <2>4. Bounds(view', runs', All(issued'))
    BY <1>10, <2>3, BoundsElsewhere DEF Typed
  <2>5. Spans(runs', issued')
    <3>1. \A s \in Slots : runs[s] # Free => Below(runs[s], issued')
      BY <1>1, <2>2, BelowMore DEF Typed, Spans, Shape, Busy, Run
    <3> QED BY <2>1, <3>1 DEF Spans, Typed
  <2>6. \A x \in Data : db'[x] \subseteq 1..issued'
    <3>1. DOMAIN db = Data
      BY DEF Shape
    <3>2. \A x \in Data : db'[x] \subseteq db[x] \cup {issued + 1}
      BY <2>1, <3>1
    <3> QED BY <2>2, <2>3, <3>2 DEF Typed
  <2> QED BY <1>3, <2>1, <2>3, <2>4, <2>5, <2>6 DEF Typed
<1>11. CASE UNCHANGED vars
  BY <1>3, <1>11 DEF vars, Typed
<1> QED BY <1>4, <1>5, <1>6, <1>7, <1>8, <1>9, <1>10, <1>11 DEF Next

LEMMA TypedCorrect == ASSUME Shape, Typed PROVE TypeOK
<1>1. /\ page \in Pages /\ DOMAIN ui = DOMAIN Script[page].start /\ DOMAIN view = Data /\ DOMAIN runs = Slots
      /\ issued \in Nat /\ faults \in 0..MaxFaults /\ acked \cup denied \subseteq 1..issued /\ crossed \in BOOLEAN
  BY DEF Shape, Typed, Fields
<1>2. \A r \in Data : view[r].of \in {0} \cup Chosen /\ view[r].seen \subseteq 1..issued
  BY DEF Typed, Asks, Choices, Bounds, All
<1>3. db \in [Data -> SUBSET (1..issued)]
  BY DEF Shape, Typed
<1>4. ASSUME NEW s \in Slots, Busy(s)
      PROVE  /\ runs[s].h \in DOMAIN Script[page].code /\ runs[s].at \in 1..Len(Code(runs[s].h).calls)
             /\ DOMAIN runs[s].got \subseteq Data /\ Below(runs[s], issued) /\ Count(runs[s].h) \in Nat
  BY <1>1, <1>4, CallsTyped, CountType DEF Shape, Run, Typed, Spans, Busy
<1>5. \A s \in Slots : Busy(s) /\ Writes(runs[s].h) = {} => Numbers(runs[s]) = {}
  <2>1. Cardinality({}) = 0
    BY FS_EmptySet
  <2> QED BY <1>4, <2>1 DEF Numbers, Below
<1>6. ASSUME NEW s \in Slots, Busy(s) PROVE Numbers(runs[s]) \subseteq 1..issued
  <2>1. CASE Writes(runs[s].h) = {}
    BY <1>5, <1>6, <2>1
  <2>2. CASE Writes(runs[s].h) # {}
    <3>1. PICK b, n : b = runs[s].base /\ n = Count(runs[s].h)
      OBVIOUS
    <3>2. b \in Nat /\ n \in Nat /\ b + n <= issued
      BY <1>4, <1>6, <2>2, <3>1 DEF Below
    <3>3. Numbers(runs[s]) = b + 1 .. b + n
      BY <3>1 DEF Numbers, Count
    <3> QED BY <1>1, <3>2, <3>3
  <2> QED BY <2>1, <2>2
<1>7. ASSUME NEW s \in Slots, NEW q \in Slots, Busy(s), Busy(q), s # q
      PROVE  Numbers(runs[s]) \cap Numbers(runs[q]) = {}
  <2>1. Apart(runs[s], runs[q])
    BY <1>7 DEF Typed, Spans, Busy
  <2> QED BY <1>4, <1>5, <1>7, <2>1 DEF Numbers, Below, Count, Apart
<1> QED BY <1>1, <1>2, <1>3, <1>4, <1>6, <1>7 DEF TypeOK

(* Every run is at a request of its handler and has numbers of its own,     *)
(* what is shown and stored was numbered, every selection is a choice: for  *)
(* all scripts that are well formed.                                        *)
THEOREM TypeCorrect == Spec => []TypeOK
BY ShapeHolds, TypedInit, TypedStep, TypedCorrect, PTL DEF Spec

-----------------------------------------------------------------------------
(* On a page whose catches tell the truth no change reported as failed was  *)
(* made, nor will a run make it; what a run has not asked for yet is not    *)
(* stored.                                                                  *)
Tells == \E h \in DOMAIN Script[page].code : Code(h).tells

Pending(run, store) ==
  LET call == Code(run.h).calls[run.at]
  IN  /\ \A n \in Numbers(run) : n > Number(run) => \A r \in Data : n \notin store[r]
      /\ IsWrite(call) /\ call.on \cap DOMAIN run.got = {} => \A r \in Data : Number(run) \notin store[r]

(* The control plane, the runs and what was reported are arguments, so that *)
(* the same facts can be stated before and after a step.                    *)
Sound(store, under, reported) ==
  /\ \A r \in Data : reported \cap store[r] = {}
  /\ \A s \in Slots : under[s] # Free => reported \cap Numbers(under[s]) = {} /\ Pending(under[s], store)

Told == Truthful(page) => IF Tells THEN Sound(db, runs, denied) ELSE denied = {}

(* Numbers of a run that has none, and of one that has.                     *)
LEMMA NumbersOf ==
  ASSUME Shape, Typed, NEW s \in Slots, Busy(s)
  PROVE  /\ Count(runs[s].h) \in Nat /\ runs[s].base \in Nat /\ Numbers(runs[s]) \subseteq 1..issued
         /\ Numbers(runs[s]) = runs[s].base + 1 .. runs[s].base + Count(runs[s].h)
         /\ IsWrite(Call(s)) => Number(runs[s]) \in Numbers(runs[s])
         /\ \A q \in Slots : Busy(q) /\ q # s => Numbers(runs[s]) \cap Numbers(runs[q]) = {}
<1>1. page \in Pages /\ issued \in Nat /\ Run(runs[s]) /\ runs[s].h \in DOMAIN Script[page].code
  BY DEF Shape, Run
<1>2. Count(runs[s].h) \in Nat /\ Below(runs[s], issued) /\ runs[s].base \in Nat
  BY <1>1, CountType DEF Typed, Spans, Busy, Below
<1>3. Numbers(runs[s]) = runs[s].base + 1 .. runs[s].base + Count(runs[s].h)
  BY DEF Numbers, Count
<1>4. TypeOK
  BY TypedCorrect
<1>5. Numbers(runs[s]) \subseteq 1..issued /\ \A q \in Slots : Busy(q) /\ q # s => Numbers(runs[s]) \cap Numbers(runs[q]) = {}
  BY <1>4 DEF TypeOK
<1>6. IsWrite(Call(s)) => Number(runs[s]) \in Numbers(runs[s])
  <2>1. PICK run : run = runs[s]
    OBVIOUS
  <2>2. /\ Number(run) \in Nat /\ run.base <= Number(run) /\ Number(run) <= run.base + Count(run.h)
        /\ IsWrite(Code(run.h).calls[run.at]) => run.base < Number(run)
    BY <1>1, <1>2, <2>1, NumberRange
  <2>3. IsWrite(Code(run.h).calls[run.at]) => Number(run) \in run.base + 1 .. run.base + Count(run.h)
    BY <1>2, <2>1, <2>2
  <2> QED BY <1>3, <2>1, <2>3 DEF Call
<1> QED BY <1>2, <1>3, <1>5, <1>6

(* The next request of a run: if it writes, its number is the next one.     *)
LEMMA NumberOnward ==
  ASSUME page \in Pages, NEW run, Run(run), run.base \in Nat, run.at < Len(Code(run.h).calls),
         NEW got, DOMAIN got \subseteq Data
  PROVE  LET onward == Onward(run, got)
         IN  /\ Number(run) \in Nat /\ Number(onward) \in Nat /\ Number(run) <= Number(onward)
             /\ IsWrite(Code(onward.h).calls[onward.at]) =>
                  Number(onward) = Number(run) + 1 /\ Number(onward) \in Numbers(onward)
             /\ Numbers(onward) = Numbers(run)
<1>1. PICK onward : onward = Onward(run, got)
  OBVIOUS
<1>2. Run(onward) /\ onward.h = run.h /\ onward.at = run.at + 1 /\ onward.base = run.base
  BY <1>1, OnwardRuns
<1>3. PICK n \in Nat : n = Len(Code(run.h).calls) /\ DOMAIN Code(run.h).calls = 1..n
  BY CallsTyped DEF Run
<1>4. run.h \in DOMAIN Script[page].code /\ run.at \in 1..n /\ onward.at \in 1..n /\ Writes(run.h) \subseteq 1..n
  BY <1>2, <1>3 DEF Run, Writes
<1>5. Asked(onward) = IF IsWrite(Code(run.h).calls[onward.at]) THEN Asked(run) \cup {run.at + 1} ELSE Asked(run)
  BY <1>2, <1>3, <1>4 DEF Asked, Writes
<1>6. run.at + 1 \notin Asked(run)
  BY <1>4 DEF Asked
<1>7. IsFiniteSet(Asked(run)) /\ Cardinality(Asked(run)) \in Nat
  BY <1>4, CountType, FS_Subset, FS_CardinalityType DEF Asked
<1>8. Cardinality(Asked(run) \cup {run.at + 1}) = Cardinality(Asked(run)) + 1
  BY <1>6, <1>7, FS_AddElement
<1>9. /\ Number(run) \in Nat /\ Number(onward) \in Nat /\ Number(run) <= Number(onward)
      /\ IsWrite(Code(run.h).calls[onward.at]) => Number(onward) = Number(run) + 1
  BY <1>2, <1>5, <1>7, <1>8 DEF Number
<1>10. Numbers(onward) = Numbers(run)
  BY <1>2 DEF Numbers
<1>11. ASSUME IsWrite(Code(onward.h).calls[onward.at]) PROVE Number(onward) \in Numbers(onward)
  <2>1. /\ Number(onward) <= onward.base + Count(onward.h) /\ onward.base < Number(onward)
    BY <1>2, <1>11, NumberRange
  <2>2. Count(onward.h) \in Nat
    BY <1>2, <1>4, CountType
  <2> QED BY <1>2, <1>9, <2>1, <2>2 DEF Numbers, Count
<1> QED BY <1>1, <1>2, <1>9, <1>10, <1>11

LEMMA SoundMove ==
  ASSUME Sound(db, runs, denied), db' = db, denied' = denied,
         \A s \in Slots : \/ runs'[s] \in {runs[s], Free}
                          \/ denied \cap Numbers(runs'[s]) = {} /\ Pending(runs'[s], db)
  PROVE  Sound(db', runs', denied')
BY DEF Sound

(* The numbers of a handler that is begun are new. *)
LEMMA BegunSound ==
  ASSUME Shape, Typed, NEW h \in DOMAIN Script[page].code, Code(h).calls # <<>>, NEW state, NEW data,
         NEW base \in Nat, issued <= base
  PROVE  denied \cap Numbers(Begun(h, state, data, base)) = {} /\ Pending(Begun(h, state, data, base), db)
<1>1. PICK run : run = Begun(h, state, data, base)
  OBVIOUS
<1>2. /\ page \in Pages /\ issued \in Nat /\ Run(run) /\ run.h = h /\ Count(h) \in Nat
      /\ run.base = IF Writes(h) = {} THEN 0 ELSE base
      /\ run.h \in DOMAIN Script[page].code
  BY <1>1, BegunRuns, BegunNamed, CountType DEF Shape
<1>3. run.base \in Nat
  BY <1>2
<1>4. /\ Number(run) <= run.base + Count(h)
      /\ IsWrite(Code(run.h).calls[run.at]) => run.base < Number(run) /\ Writes(run.h) # {}
      /\ Number(run) \in Nat
  BY <1>2, <1>3, NumberRange
<1>5. Numbers(run) = run.base + 1 .. run.base + Count(h)
  BY <1>2 DEF Numbers, Count
<1>6. Numbers(run) \cap 1..issued = {}
  <2>1. CASE Writes(h) = {}
    <3>1. Count(h) = 0
      BY <2>1, FS_EmptySet DEF Count
    <3> QED BY <1>3, <1>5, <3>1
  <2>2. CASE Writes(h) # {}
    BY <1>2, <1>5, <2>2
  <2> QED BY <2>1, <2>2
<1>7. IsWrite(Code(run.h).calls[run.at]) => Number(run) \in Numbers(run)
  BY <1>2, <1>3, <1>4, <1>5
<1>8. \A r \in Data : \A n \in Numbers(run) : n \notin db[r]
  BY <1>6 DEF Typed
<1>9. denied \cap Numbers(run) = {}
  BY <1>6 DEF Typed
<1> QED BY <1>1, <1>7, <1>8, <1>9 DEF Pending

LEMMA SoundStart ==
  ASSUME Shape, Typed, Sound(db, runs, denied), NEW h \in DOMAIN Script[page].code, NEW update, Start(h, update)
  PROVE  Sound(db', runs', denied')
<1>1. PICK st : st = Started(h, After(ui, update))
  OBVIOUS
<1>2. /\ page \in Pages /\ issued \in Nat /\ db' = db /\ denied' = denied
      /\ \A s \in Slots :
           \/ runs'[s] = runs[s]
           \/ /\ Place(s) \in 1..Len(st)
              /\ runs'[s] = Begun(st[Place(s)], ui', view, Base(st, Place(s)))
  BY <1>1, StartForm DEF Shape
<1>3. \A i \in 1..Len(st) :
        /\ st[i] \in DOMAIN Script[page].code /\ Code(st[i]).calls # <<>>
        /\ Base(st, i) \in Nat /\ issued <= Base(st, i)
  BY <1>1, <1>2, Bases
<1>4. ASSUME NEW s \in Slots, Place(s) \in 1..Len(st),
             runs'[s] = Begun(st[Place(s)], ui', view, Base(st, Place(s)))
      PROVE  denied \cap Numbers(runs'[s]) = {} /\ Pending(runs'[s], db)
  BY <1>3, <1>4, BegunSound
<1> QED BY <1>2, <1>4, SoundMove

(* A run with one more answer has the same numbers. *)
LEMMA GotNumbers ==
  ASSUME NEW run, Run(run), NEW r \in Data, NEW changes
  PROVE  /\ Number(Got(run, r, changes)) = Number(run) /\ Numbers(Got(run, r, changes)) = Numbers(run)
         /\ r \in DOMAIN Got(run, r, changes).got
<1>1. PICK more : more = Got(run, r, changes)
  OBVIOUS
<1>2. more.h = run.h /\ more.at = run.at /\ more.base = run.base
  BY <1>1, GotKeeps
<1>3. r \in DOMAIN Got(run, r, changes).got
  BY GotKeeps
<1>4. Number(more) = Number(run) /\ Numbers(more) = Numbers(run)
  BY <1>2 DEF Number, Numbers, Asked
<1> QED BY <1>1, <1>3, <1>4

LEMMA SoundServe ==
  ASSUME Shape, Typed, Truthful(page), Tells, Sound(db, runs, denied), NEW s \in Slots, NEW r \in Data, Serve(s, r)
  PROVE  Sound(db', runs', denied')
<1>1. /\ denied' = denied /\ page \in Pages /\ Busy(s) /\ Run(runs[s]) /\ r \in Call(s).on
      /\ db'[r] = Handled(s, r) /\ \A x \in Data \ {r} : db'[x] = db[x]
      /\ runs'[s] = Got(runs[s], r, Handled(s, r)) /\ \A q \in Slots \ {s} : runs'[q] = runs[q]
  BY ServeForm
<1>2. Call(s).op \in {"get", "add"}
  <2>1. Call(s) \in Requests(page)
    BY <1>1, CallsTyped DEF Run, Call
  <2>2. Call(s).op # "put"
    BY <1>1 DEF Truthful, Tells, Run, Call, Code
  <2> QED BY <2>1, <2>2 DEF Requests
<1>3. \A x \in Data : \A n \in db'[x] : n \in db[x] \/ (IsWrite(Call(s)) /\ n = Number(runs[s]))
  BY <1>1, <1>2 DEF Handled, IsWrite
<1>4. /\ IsWrite(Call(s)) => Number(runs[s]) \in Numbers(runs[s])
      /\ \A q \in Slots : Busy(q) /\ q # s => Numbers(runs[s]) \cap Numbers(runs[q]) = {}
      /\ \A q \in Slots : Busy(q) /\ IsWrite(Call(q)) => Number(runs[q]) \in Numbers(runs[q])
  BY <1>1, NumbersOf
<1>5. \A q \in Slots : Busy(q) => denied \cap Numbers(runs[q]) = {} /\ Pending(runs[q], db)
  BY DEF Sound, Busy
<1>6. \A x \in Data : denied \cap db'[x] = {}
  BY <1>1, <1>3, <1>4, <1>5 DEF Sound
<1>7. ASSUME NEW q \in Slots \ {s}, Busy(q) PROVE Pending(runs[q], db')
  <2>1. \A n \in Numbers(runs[q]), x \in Data : n \in db'[x] => n \in db[x]
    BY <1>3, <1>4, <1>7
  <2>2. IsWrite(Code(runs[q].h).calls[runs[q].at]) => Number(runs[q]) \in Numbers(runs[q])
    BY <1>4, <1>7 DEF Call
  <2> QED BY <1>5, <1>7, <2>1, <2>2 DEF Pending
<1>8. denied \cap Numbers(runs'[s]) = {} /\ Pending(runs'[s], db')
  <2>1. PICK run : run = runs[s]
    OBVIOUS
  <2>2. PICK more : more = runs'[s]
    OBVIOUS
  <2>3. /\ more.h = run.h /\ more.at = run.at /\ Number(more) = Number(run) /\ Numbers(more) = Numbers(run)
        /\ r \in DOMAIN more.got
    BY <1>1, <2>1, <2>2, GotKeeps, GotNumbers
  <2>4. r \in Code(more.h).calls[more.at].on
    BY <1>1, <2>1, <2>3 DEF Call
  <2>5. ASSUME NEW n \in Numbers(more), n > Number(more), NEW x \in Data PROVE n \notin db'[x]
    <3>1. n \in Numbers(run) /\ n > Number(run)
      BY <2>3, <2>5
    <3>2. n \notin db[x]
      BY <1>1, <1>5, <2>1, <3>1 DEF Pending
    <3>3. n # Number(run)
      <4>1. Number(run) \in Nat
        BY <1>1, <2>1, Numbered
      <4> QED BY <3>1, <4>1
    <3> QED BY <1>3, <2>1, <3>2, <3>3
  <2>6. Pending(more, db')
    BY <2>4, <2>3, <2>5 DEF Pending
  <2>7. denied \cap Numbers(more) = {}
    BY <1>1, <1>5, <2>1, <2>3
  <2> QED BY <2>2, <2>6, <2>7
<1> QED BY <1>1, <1>5, <1>6, <1>7, <1>8 DEF Sound, Busy

LEMMA SoundCatch ==
  ASSUME Shape, Typed, Orderly(page), Sound(db, runs, denied), NEW s \in Slots, NEW r \in Data, Catch(s, r)
  PROVE  Sound(db', runs', denied')
<1>1. /\ denied' = denied /\ db' = db /\ Busy(s) /\ Run(runs[s]) /\ Call(s).soft \in {"keep", "empty"}
      /\ runs'[s] = Got(runs[s], r, Lost) /\ \A q \in Slots \ {s} : runs'[q] = runs[q]
  BY CatchForm
<1>2. PICK run : run = runs[s]
  OBVIOUS
<1>3. PICK more : more = runs'[s]
  OBVIOUS
<1>4. /\ more.h = run.h /\ more.at = run.at /\ Number(more) = Number(run) /\ Numbers(more) = Numbers(run)
  BY <1>1, <1>2, <1>3, GotKeeps, GotNumbers
<1>5. ~IsWrite(Code(more.h).calls[more.at])
  <2>1. run.h \in DOMAIN Script[page].code /\ run.at \in DOMAIN Script[page].code[run.h].calls
    BY <1>1, <1>2 DEF Run, Code
  <2>2. Script[page].code[run.h].calls[run.at].soft # ""
    BY <1>1, <1>2 DEF Call, Code
  <2>3. Script[page].code[run.h].calls[run.at].op = "get"
    BY <2>1, <2>2 DEF Orderly
  <2> QED BY <1>4, <2>3 DEF IsWrite, Code
<1>6. denied \cap Numbers(run) = {} /\ Pending(run, db)
  BY <1>1, <1>2 DEF Sound, Busy
<1>7. denied \cap Numbers(more) = {} /\ Pending(more, db)
  BY <1>4, <1>5, <1>6 DEF Pending
<1> QED BY <1>1, <1>3, <1>7, SoundMove

LEMMA SoundAnswer ==
  ASSUME Shape, Typed, Sound(db, runs, denied), NEW s \in Slots, Answer(s)
  PROVE  Sound(db', runs', denied')
<1>1. PICK run : run = runs[s]
  OBVIOUS
<1>2. PICK then : then = Code(run.h).next
  OBVIOUS
<1>3. PICK got : got = IF Call(s).late THEN run.got ELSE <<>>
  OBVIOUS
<1>4. /\ page \in Pages /\ db' = db /\ denied' = denied /\ Busy(s) /\ Run(run)
      /\ \A q \in Slots \ {s} : runs'[q] \in {runs[q], Free}
      /\ \/ run.at < Len(Code(run.h).calls) /\ DOMAIN got \subseteq Data /\ runs'[s] = Onward(run, got)
         \/ runs'[s] = Free
         \/ /\ then \in DOMAIN Script[page].code /\ Code(then).calls # <<>>
            /\ runs'[s] = Begun(then, ui', view', issued)
  BY <1>1, <1>2, <1>3, AnswerForm
<1>5. run.base \in Nat /\ denied \cap Numbers(run) = {} /\ Pending(run, db)
  BY <1>1, <1>4, Numbered DEF Sound, Busy
<1>6. CASE run.at < Len(Code(run.h).calls) /\ DOMAIN got \subseteq Data /\ runs'[s] = Onward(run, got)
  <2>1. PICK onward : onward = Onward(run, got)
    OBVIOUS
  <2>2. /\ Number(run) \in Nat /\ Number(onward) \in Nat /\ Number(run) <= Number(onward)
        /\ IsWrite(Code(onward.h).calls[onward.at]) =>
             Number(onward) = Number(run) + 1 /\ Number(onward) \in Numbers(onward)
        /\ Numbers(onward) = Numbers(run)
    BY <1>4, <1>5, <1>6, <2>1, NumberOnward
  <2>3. ASSUME NEW n \in Numbers(onward), n > Number(onward), NEW r \in Data PROVE n \notin db[r]
    <3>1. n \in Nat
      BY <1>5, <2>2, <2>3 DEF Numbers
    <3>2. n > Number(run)
      BY <2>2, <2>3, <3>1
    <3> QED BY <1>5, <2>2, <3>2 DEF Pending
  <2>4. ASSUME IsWrite(Code(onward.h).calls[onward.at]), NEW r \in Data PROVE Number(onward) \notin db[r]
    <3>1. Number(onward) \in Numbers(run) /\ Number(onward) > Number(run)
      BY <2>2, <2>4
    <3> QED BY <1>5, <3>1 DEF Pending
  <2>5. denied \cap Numbers(onward) = {} /\ Pending(onward, db)
    BY <1>5, <2>2, <2>3, <2>4 DEF Pending
  <2> QED BY <1>4, <1>6, <2>1, <2>5, SoundMove
<1>7. CASE runs'[s] = Free
  BY <1>4, <1>7, SoundMove
<1>8. CASE /\ then \in DOMAIN Script[page].code /\ Code(then).calls # <<>>
           /\ runs'[s] = Begun(then, ui', view', issued)
  <2>1. issued \in Nat /\ issued <= issued
    BY DEF Shape
  <2>2. denied \cap Numbers(runs'[s]) = {} /\ Pending(runs'[s], db)
    BY <1>8, <2>1, BegunSound
  <2> QED BY <1>4, <2>2, SoundMove
<1> QED BY <1>4, <1>6, <1>7, <1>8

(* What a catch reports was asked for by its run alone and did not happen.  *)
LEMMA SoundFail ==
  ASSUME Shape, Typed, Truthful(page), Sound(db, runs, denied), NEW s \in Slots, Fail(s)
  PROVE  Sound(db', runs', denied')
<1>1. PICK run : run = runs[s]
  OBVIOUS
<1>2. PICK call : call = Code(run.h).calls[run.at]
  OBVIOUS
<1>3. PICK lost : lost = (run.base + 1)..Number(run)
  OBVIOUS
<1>4. /\ db' = db /\ Busy(s) /\ call.soft = "" /\ page \in Pages /\ Run(run)
      /\ \/ denied' = denied
         \/ /\ denied' = denied \cup lost /\ Code(run.h).tells
            /\ ~(IsWrite(call) /\ call.on \subseteq DOMAIN run.got)
      /\ runs'[s] = Free /\ \A q \in Slots \ {s} : runs'[q] = runs[q]
  BY <1>1, <1>2, <1>3 DEF Fail, Shape, Call, Served
<1>5. CASE denied' = denied
  BY <1>4, <1>5, SoundMove
<1>6. CASE /\ denied' = denied \cup lost /\ Code(run.h).tells
           /\ ~(IsWrite(call) /\ call.on \subseteq DOMAIN run.got)
  <2>1. /\ Count(run.h) \in Nat /\ run.base \in Nat /\ Numbers(run) = run.base + 1 .. run.base + Count(run.h)
        /\ \A q \in Slots : Busy(q) /\ q # s => Numbers(run) \cap Numbers(runs[q]) = {}
    BY <1>1, <1>4, NumbersOf
  <2>2. /\ Number(run) \in Nat /\ run.base <= Number(run) /\ Number(run) <= run.base + Count(run.h)
    BY <1>4, <2>1, NumberRange
  <2>3. lost \subseteq Numbers(run)
    BY <1>3, <2>1, <2>2
  <2>4. /\ run.h \in DOMAIN Script[page].code /\ run.at \in DOMAIN Code(run.h).calls
        /\ \A k \in DOMAIN Code(run.h).calls : k \in Nat
    <3>1. run.h \in DOMAIN Script[page].code /\ run.at \in DOMAIN Code(run.h).calls
      BY <1>4 DEF Run
    <3>2. PICK n \in Nat : DOMAIN Code(run.h).calls = 1..n
      BY <1>4, <3>1, CallsTyped
    <3> QED BY <3>1, <3>2
  <2>5. \A k \in Writes(run.h) : ~(run.at > k)
    BY <1>2, <1>4, <1>6, <2>4 DEF Truthful, Writes, IsWrite, Code
  <2>6. CASE ~IsWrite(call)
    <3>1. Asked(run) = {}
      <4>1. \A k \in Writes(run.h) : k # run.at
        BY <1>2, <2>6 DEF Writes
      <4>2. \A k \in Writes(run.h) : k \in Nat /\ run.at \in Nat
        BY <2>4 DEF Writes
      <4> QED BY <2>5, <4>1, <4>2 DEF Asked
    <3>2. Number(run) = run.base
      BY <2>1, <3>1, FS_EmptySet DEF Number
    <3>3. lost = {}
      BY <1>3, <2>1, <3>2
    <3>4. denied' = denied
      BY <1>6, <3>3
    <3> QED BY <1>4, <3>4, SoundMove
  <2>7. CASE IsWrite(call)
    <3>1. run.at \in Writes(run.h) /\ run.at \in Nat
      BY <1>2, <2>4, <2>7 DEF Writes
    <3>2. Asked(run) = {run.at}
      <4>1. \A k \in Writes(run.h) : k \in Nat
        BY <2>4 DEF Writes
      <4> QED BY <2>5, <3>1, <4>1 DEF Asked
    <3>3. Number(run) = run.base + 1
      BY <3>2, FS_Singleton DEF Number
    <3>4. lost = {Number(run)}
      BY <1>3, <2>1, <3>3
    <3>5. call.on \cap DOMAIN run.got = {}
      <4>1. \A r, q \in call.on : r = q
        BY <1>2, <1>6, <2>4, <2>7 DEF Truthful, IsWrite, Code
      <4> QED BY <1>6, <2>7, <4>1
    <3>6. \A r \in Data : Number(run) \notin db[r]
      BY <1>1, <1>2, <1>4, <2>7, <3>5 DEF Sound, Pending, Busy
    <3>7. \A r \in Data : denied' \cap db[r] = {}
      BY <1>6, <3>4, <3>6 DEF Sound
    <3>8. \A q \in Slots \ {s} : Busy(q) => denied' \cap Numbers(runs[q]) = {}
      BY <1>6, <2>1, <2>3 DEF Sound, Busy
    <3> QED BY <1>4, <3>7, <3>8 DEF Sound, Busy
  <2> QED BY <2>6, <2>7
<1> QED BY <1>4, <1>5, <1>6

LEMMA SoundElsewhere ==
  ASSUME Shape, Typed, Sound(db, runs, denied), NEW r \in Data, Elsewhere(r)
  PROVE  Sound(db', runs', denied')
<1>1. /\ denied' = denied /\ runs' = runs /\ DOMAIN db = Data /\ issued \in Nat
      /\ db' = [db EXCEPT ![r] = @ \cup {issued + 1}]
  BY DEF Elsewhere, Shape
<1>2. \A x \in Data : db'[x] \subseteq db[x] \cup {issued + 1}
  BY <1>1
<1>3. \A x \in Data : denied \cap db'[x] = {}
  BY <1>1, <1>2 DEF Sound, Typed
<1>4. ASSUME NEW s \in Slots, Busy(s) PROVE Pending(runs[s], db')
  <2>1. /\ Numbers(runs[s]) \subseteq 1..issued
        /\ IsWrite(Code(runs[s].h).calls[runs[s].at]) => Number(runs[s]) \in Numbers(runs[s])
    BY <1>4, NumbersOf DEF Call
  <2>2. issued + 1 \notin Numbers(runs[s])
    BY <1>1, <2>1
  <2>3. Pending(runs[s], db)
    BY <1>4 DEF Sound, Busy
  <2> QED BY <1>2, <2>1, <2>2, <2>3 DEF Pending
<1> QED BY <1>1, <1>3, <1>4 DEF Sound, Busy

LEMMA ToldStep == ASSUME Shape, Typed, Told, [Next]_vars PROVE Told'
<1>1. page' = page /\ page \in Pages /\ Orderly(page)
  BY ShapeStep, OrderlyAssumption DEF Shape, Pages
<1>2. CASE Truthful(page) /\ Tells
  <2>1. Sound(db, runs, denied)
    BY <1>2 DEF Told
  <2>2. ASSUME NEW h \in DOMAIN Script[page].code, Use(h) \/ Tick(h) PROVE Sound(db', runs', denied')
    BY <2>1, <2>2, UseForm, SoundStart
  <2>3. ASSUME NEW s \in Slots, NEW r \in Data, Serve(s, r) \/ Catch(s, r) PROVE Sound(db', runs', denied')
    BY <1>1, <1>2, <2>1, <2>3, SoundServe, SoundCatch
  <2>4. ASSUME NEW s \in Slots, Answer(s) \/ Fail(s) PROVE Sound(db', runs', denied')
    BY <1>2, <2>1, <2>4, SoundAnswer, SoundFail
  <2>5. ASSUME NEW s \in Slots, Expel(s) PROVE Sound(db', runs', denied')
    BY <2>1, <2>5 DEF Expel, Sound
  <2>6. ASSUME NEW r \in Data, Elsewhere(r) PROVE Sound(db', runs', denied')
    BY <2>1, <2>6, SoundElsewhere
  <2>7. ASSUME UNCHANGED vars PROVE Sound(db', runs', denied')
    BY <2>1, <2>7 DEF vars
  <2>8. Sound(db', runs', denied')
    BY <2>2, <2>3, <2>4, <2>5, <2>6, <2>7 DEF Next
  <2>9. Sound(db', runs', denied') => Sound(db, runs, denied)'
    BY <1>1 DEF Sound, Pending, Numbers, Number, Asked, Writes, Code, Data
  <2>10. Tells'
    BY <1>1, <1>2 DEF Tells, Code
  <2> QED BY <2>8, <2>9, <2>10 DEF Told
<1>3. CASE Truthful(page) /\ ~Tells
  <2>1. denied = {}
    BY <1>3 DEF Told
  <2>2. ASSUME NEW h, NEW update, Start(h, update) PROVE denied' = denied
    BY <2>2 DEF Start
  <2>3. ASSUME NEW h \in DOMAIN Script[page].code, Use(h) \/ Tick(h) PROVE denied' = denied
    BY <2>2, <2>3, UseForm
  <2>4. ASSUME NEW s \in Slots, NEW r \in Data, Serve(s, r) \/ Catch(s, r) PROVE denied' = denied
    BY <2>4 DEF Serve, Catch
  <2>5. ASSUME NEW s \in Slots, Answer(s) PROVE denied' = denied
    BY <2>5 DEF Answer
  <2>6. ASSUME NEW s \in Slots, Expel(s) PROVE denied' = denied
    BY <2>6 DEF Expel
  <2>7. ASSUME NEW s \in Slots, Fail(s) PROVE denied' = denied
    BY <1>3, <2>7 DEF Fail, Tells, Shape, Run
  <2>8. ASSUME NEW r \in Data, Elsewhere(r) PROVE denied' = denied
    BY <2>8 DEF Elsewhere
  <2>9. ASSUME UNCHANGED vars PROVE denied' = denied
    BY <2>9 DEF vars
  <2>10. denied' = denied
    BY <2>3, <2>4, <2>5, <2>6, <2>7, <2>8, <2>9 DEF Next
  <2>11. ~Tells'
    BY <1>1, <1>3 DEF Tells, Code
  <2> QED BY <2>1, <2>10, <2>11 DEF Told
<1>4. CASE ~Truthful(page)
  <2>1. ~Truthful(page)'
    BY <1>1, <1>4 DEF Truthful
  <2> QED BY <2>1 DEF Told
<1> QED BY <1>2, <1>3, <1>4

(* Nothing that the page tells its user has failed was done, nor will be:   *)
(* for every page whose catches tell the truth, whatever requests fail      *)
(* before or after they took effect.                                        *)
THEOREM FailureTruthfulHolds == Spec => []FailureTruthful
<1>1. Init => Told
  <2> SUFFICES ASSUME Init PROVE Told
    OBVIOUS
  <2>1. Shape /\ Typed /\ denied = {} /\ \A r \in Data : db[r] = {}
    BY ShapeInit, TypedInit DEF Init
  <2>2. ASSUME NEW s \in Slots, Busy(s) PROVE Pending(runs[s], db)
    BY <2>1 DEF Pending
  <2> QED BY <2>1, <2>2 DEF Told, Sound, Busy
<1>2. Shape /\ Told => FailureTruthful
  <2> SUFFICES ASSUME Shape, Told, page \notin Misleading, NEW r \in Data PROVE denied \cap db[r] = {}
    BY DEF FailureTruthful
  <2>1. Truthful(page)
    BY TruthfulAssumption DEF Shape
  <2> QED BY <2>1 DEF Told, Sound
<1> QED BY ShapeHolds, TypedInit, TypedStep, ToldStep, <1>1, <1>2, PTL DEF Spec

-----------------------------------------------------------------------------
(* Handlers behind a flag: at most one of them is under way, and the flag   *)
(* is set meanwhile.                                                        *)

Alone(lock, flag) ==
  /\ flag \in DOMAIN ui
  /\ \A s, q \in Slots : Busy(s) /\ Busy(q) /\ runs[s].h \in lock /\ runs[q].h \in lock =>
       s = q /\ ui[flag] = TRUE

(* A handler that is not behind the flag leaves it. *)
LEMMA FlagKept ==
  ASSUME page \in Pages, NEW lock, NEW flag, Locked(page, lock, flag),
         NEW h, h \in DOMAIN Script[page].code \cup {""}, h \notin lock,
         NEW state, flag \in DOMAIN state
  PROVE  flag \in DOMAIN Entered(h, state) /\ Entered(h, state)[flag] = state[flag]
<1>1. CASE Goes(h, state)
  <2>1. h \in DOMAIN Script[page].code
    BY <1>1 DEF Goes
  <2>2. flag \notin DOMAIN Code(h).begin
    BY <2>1 DEF Locked, Code
  <2> QED BY <1>1, <2>2 DEF Entered, After
<1>2. CASE ~Goes(h, state)
  BY <1>2 DEF Entered
<1> QED BY <1>1, <1>2

LEMMA AloneStart ==
  ASSUME Shape, NEW lock, NEW flag, Locked(page, lock, flag), Alone(lock, flag),
         NEW h \in DOMAIN Script[page].code, NEW update, Start(h, update),
         IF h \in lock THEN flag \in DOMAIN update /\ update[flag] = TRUE /\ ui[flag] # TRUE
         ELSE flag \notin DOMAIN update
  PROVE  Alone(lock, flag)'
<1>1. PICK begun : begun = After(ui, update)
  OBVIOUS
<1>2. PICK st : st = Started(h, begun)
  OBVIOUS
<1>3. PICK a : a = Code(h).also
  OBVIOUS
<1> DEFINE moved(s) == /\ s \in Idle /\ Place(s) \in 1..Len(st)
                       /\ runs'[s] = Begun(st[Place(s)], ui', view, Base(st, Place(s)))
<1>4. /\ page \in Pages /\ issued \in Nat /\ ui' = Entered(a, begun)
      /\ \A s \in Slots : runs'[s] = runs[s] \/ moved(s)
  BY <1>1, <1>2, <1>3, StartForm DEF Shape
<1>5. a \notin lock /\ a \in DOMAIN Script[page].code \cup {""}
  BY <1>3, <1>4, CallsTyped DEF Locked, Code
<1>6. flag \in DOMAIN begun /\ begun[flag] = IF h \in lock THEN TRUE ELSE ui[flag]
  BY <1>1 DEF Alone, After
<1>7. flag \in DOMAIN ui' /\ ui'[flag] = IF h \in lock THEN TRUE ELSE ui[flag]
  <2>1. flag \in DOMAIN Entered(a, begun) /\ Entered(a, begun)[flag] = begun[flag]
    <3>1. page \in Pages /\ flag \in DOMAIN begun
      BY <1>4, <1>6
    <3> QED BY <1>5, <3>1, FlagKept
  <2> QED BY <1>4, <1>6, <2>1
<1>8. ASSUME NEW s \in Slots, moved(s), runs'[s].h \in lock
      PROVE  Place(s) = 1 /\ h \in lock
  <2>1. PICK i \in 1..Len(st) : i = Place(s)
    BY <1>8
  <2>2. PICK g : g = st[i]
    OBVIOUS
  <2>3. (i = 1 /\ g = h) \/ g = a
    BY <1>2, <1>3, <1>4, <2>2, Bases
  <2>4. runs'[s].h = g
    BY <1>8, <2>1, <2>2, BegunNamed
  <2> QED BY <1>5, <1>8, <2>1, <2>3, <2>4
<1> HIDE DEF moved
<1>9. ASSUME NEW s \in Slots, NEW q \in Slots, runs'[s] # Free, runs'[q] # Free,
             runs'[s].h \in lock, runs'[q].h \in lock
      PROVE  s = q /\ ui'[flag] = TRUE
  <2>1. CASE h \in lock
    <3>1. \A p \in Slots : Busy(p) => runs[p].h \notin lock
      BY <2>1 DEF Alone
    <3>2. moved(s) /\ moved(q)
      BY <1>4, <1>9, <3>1 DEF Busy
    <3>3. Place(s) = 1 /\ Place(q) = 1 /\ s \in Idle /\ q \in Idle
      BY <1>8, <1>9, <3>2 DEF moved
    <3>4. s \in Int /\ q \in Int
      BY ConsoleAssumption DEF Slots
    <3>5. s = q
      BY <3>3, <3>4, Places
    <3> QED BY <1>7, <2>1, <3>5
  <2>2. CASE h \notin lock
    <3>1. ~moved(s) /\ ~moved(q)
      BY <1>8, <1>9, <2>2
    <3>2. runs'[s] = runs[s] /\ runs'[q] = runs[q]
      BY <1>4, <3>1
    <3> QED BY <1>7, <1>9, <2>2, <3>2 DEF Alone, Busy
  <2> QED BY <2>1, <2>2
<1> QED BY <1>7, <1>9 DEF Alone, Busy, Slots

(* One run goes on, ends, or is replaced by a handler that is not behind    *)
(* the flag; the flag is left unless it was that run's.                     *)
LEMMA AloneMove ==
  ASSUME NEW lock, NEW flag, Alone(lock, flag), NEW s \in Slots, Busy(s),
         \A q \in Slots \ {s} : runs'[q] \in {runs[q], Free},
         flag \in DOMAIN ui',
         \/ /\ runs'[s] = Free \/ runs'[s].h \notin lock \/ runs'[s].h = runs[s].h
            /\ ui'[flag] = ui[flag]
         \/ runs[s].h \in lock /\ (runs'[s] = Free \/ runs'[s].h \notin lock)
  PROVE  Alone(lock, flag)'
<1> SUFFICES ASSUME NEW p \in Slots, NEW q \in Slots, runs'[p] # Free, runs'[q] # Free,
                    runs'[p].h \in lock, runs'[q].h \in lock
             PROVE  p = q /\ ui'[flag] = TRUE
  BY DEF Alone, Busy, Slots
<1>1. CASE /\ runs'[s] = Free \/ runs'[s].h \notin lock \/ runs'[s].h = runs[s].h
           /\ ui'[flag] = ui[flag]
  <2>1. Busy(p) /\ Busy(q) /\ runs[p].h \in lock /\ runs[q].h \in lock
    BY <1>1 DEF Busy
  <2> QED BY <1>1, <2>1 DEF Alone
<1>2. CASE runs[s].h \in lock /\ (runs'[s] = Free \/ runs'[s].h \notin lock)
  <2>1. p # s /\ Busy(p) /\ runs[p].h \in lock
    BY <1>2 DEF Busy
  <2> QED BY <1>2, <2>1 DEF Alone
<1> QED BY <1>1, <1>2

LEMMA AloneAnswer ==
  ASSUME Shape, NEW lock, NEW flag, Locked(page, lock, flag), Alone(lock, flag), NEW s \in Slots, Answer(s)
  PROVE  Alone(lock, flag)'
<1>1. PICK run : run = runs[s]
  OBVIOUS
<1>2. PICK then : then = Code(run.h).next
  OBVIOUS
<1>3. PICK got : got = IF Call(s).late THEN run.got ELSE <<>>
  OBVIOUS
<1>4. /\ page \in Pages /\ Busy(s) /\ Run(run) /\ run.h \in DOMAIN Script[page].code /\ flag \in DOMAIN ui
      /\ \A q \in Slots \ {s} : runs'[q] \in {runs[q], Free}
      /\ \/ /\ run.at < Len(Code(run.h).calls) /\ runs'[s] = Onward(run, got)
            /\ DOMAIN got \subseteq Data /\ ui' = ui
         \/ /\ \E end \in Code(run.h).ok :
                  LET state == IF ui.here THEN After(ui, end) ELSE ui
                  IN  ui' = IF ui.here THEN Entered(then, state) ELSE ui
            /\ runs'[s] = Free \/ runs'[s] = Begun(then, ui', view', issued)
  BY <1>1, <1>2, <1>3, AnswerForm DEF Run, Alone
<1>5. CASE /\ run.at < Len(Code(run.h).calls) /\ runs'[s] = Onward(run, got)
           /\ DOMAIN got \subseteq Data /\ ui' = ui
  <2>1. runs'[s].h = run.h
    BY <1>4, <1>5, OnwardRuns
  <2> QED BY <1>1, <1>4, <1>5, <2>1, AloneMove
<1>6. CASE /\ \E end \in Code(run.h).ok :
                LET state == IF ui.here THEN After(ui, end) ELSE ui
                IN  ui' = IF ui.here THEN Entered(then, state) ELSE ui
           /\ runs'[s] = Free \/ runs'[s] = Begun(then, ui', view', issued)
  <2>1. then \in DOMAIN Script[page].code \cup {""} /\ then \notin lock
    BY <1>2, <1>4, CallsTyped DEF Locked, Code
  <2>2. runs'[s] = Free \/ runs'[s].h \notin lock
    <3>1. Begun(then, ui', view', issued).h = then
      BY BegunNamed
    <3> QED BY <1>6, <2>1, <3>1
  <2>3. PICK end \in Code(run.h).ok :
          LET state == IF ui.here THEN After(ui, end) ELSE ui
          IN  ui' = IF ui.here THEN Entered(then, state) ELSE ui
    BY <1>6
  <2>4. PICK state : state = IF ui.here THEN After(ui, end) ELSE ui
    OBVIOUS
  <2>5. flag \in DOMAIN state /\ (run.h \notin lock => state[flag] = ui[flag])
    BY <1>4, <2>3, <2>4 DEF Locked, Code, After
  <2>6. flag \in DOMAIN Entered(then, state) /\ Entered(then, state)[flag] = state[flag]
    <3>1. page \in Pages /\ flag \in DOMAIN state
      BY <1>4, <2>5
    <3> QED BY <2>1, <3>1, FlagKept
  <2>7. ui' = Entered(then, state) \/ ui' = ui
    BY <2>3, <2>4
  <2>8. flag \in DOMAIN ui' /\ (run.h \notin lock => ui'[flag] = ui[flag])
    BY <1>4, <2>5, <2>6, <2>7
  <2> QED BY <1>1, <1>4, <2>2, <2>8, AloneMove
<1> QED BY <1>4, <1>5, <1>6

LEMMA AloneStep ==
  ASSUME Shape, NEW lock, NEW flag, Locked(page, lock, flag), Alone(lock, flag), [Next]_vars
  PROVE  Alone(lock, flag)'
<1>1. ASSUME NEW h \in DOMAIN Script[page].code, Use(h) PROVE Alone(lock, flag)'
  <2>1. PICK update : /\ Start(h, update)
                      /\ \/ update = Code(h).begin
                         \/ \E a \in Chosen : update = [f \in DOMAIN Code(h).begin \cup {Code(h).pick} |->
                                                        IF f = Code(h).pick THEN a ELSE Code(h).begin[f]]
    BY <1>1 DEF Use
  <2>2. Code(h).pick # flag
    BY DEF Locked, Code
  <2>3. CASE h \in lock
    <3>1. flag \in DOMAIN Code(h).begin /\ Code(h).begin[flag] = TRUE
      BY <2>3 DEF Locked, Code
    <3>2. ui[flag] # TRUE
      BY <1>1, <2>3 DEF Locked, Use, Enabled
    <3>3. flag \in DOMAIN update /\ update[flag] = TRUE
      BY <2>1, <2>2, <3>1
    <3> QED BY <2>1, <2>3, <3>2, <3>3, AloneStart
  <2>4. CASE h \notin lock
    <3>1. flag \notin DOMAIN Code(h).begin
      BY <2>4 DEF Locked, Code
    <3>2. flag \notin DOMAIN update
      BY <2>1, <2>2, <3>1
    <3> QED BY <2>1, <2>4, <3>2, AloneStart
  <2> QED BY <2>3, <2>4
<1>2. ASSUME NEW h \in DOMAIN Script[page].code, Tick(h) PROVE Alone(lock, flag)'
  <2>1. h \notin lock /\ flag \notin DOMAIN Code(h).begin
    BY <1>2 DEF Tick, Locked, Code
  <2> QED BY <1>2, <2>1, AloneStart DEF Tick
<1>3. ASSUME NEW s \in Slots, NEW r \in Data, Serve(s, r) \/ Catch(s, r) PROVE Alone(lock, flag)'
  <2>1. PICK changes : runs' = [runs EXCEPT ![s] = Got(runs[s], r, changes)]
    BY <1>3 DEF Serve, Catch
  <2>2. Busy(s) /\ ui' = ui /\ flag \in DOMAIN ui /\ Run(runs[s])
    BY <1>3 DEF Serve, Catch, Alone, Shape
  <2>3. Got(runs[s], r, changes).h = runs[s].h
    BY <2>2 DEF Got, Run
  <2>4. runs'[s].h = runs[s].h /\ \A q \in Slots \ {s} : runs'[q] = runs[q]
    BY <2>1, <2>3 DEF Shape
  <2> QED BY <2>2, <2>4, AloneMove
<1>4. ASSUME NEW s \in Slots, Fail(s) PROVE Alone(lock, flag)'
  <2>1. /\ Busy(s) /\ flag \in DOMAIN ui /\ runs[s].h \in DOMAIN Script[page].code
        /\ runs'[s] = Free /\ \A q \in Slots \ {s} : runs'[q] = runs[q]
    BY <1>4 DEF Fail, Shape, Run, Alone
  <2>2. ui' = ui \/ \E end \in Code(runs[s].h).err : ui' = After(ui, end)
    BY <1>4 DEF Fail
  <2>3. flag \in DOMAIN ui' /\ (runs[s].h \notin lock => ui'[flag] = ui[flag])
    BY <2>1, <2>2 DEF After, Locked, Code
  <2> QED BY <2>1, <2>3, AloneMove
<1>5. ASSUME NEW s \in Slots, Expel(s) PROVE Alone(lock, flag)'
  BY <1>5 DEF Expel, Alone, Busy, Slots
<1>6. ASSUME NEW r \in Data, Elsewhere(r) PROVE Alone(lock, flag)'
  BY <1>6 DEF Elsewhere, Alone, Busy, Slots
<1>7. CASE UNCHANGED vars
  BY <1>7 DEF vars, Alone, Busy, Slots
<1> QED BY <1>1, <1>2, <1>3, <1>4, <1>5, <1>6, <1>7, AloneAnswer DEF Next

Locking ==
  page \in DOMAIN Locks => \A lock \in Locks[page] : \E flag : Locked(page, lock, flag) /\ Alone(lock, flag)

(* A decision is not resolved, a member not invited, an organisation not    *)
(* deleted twice at once, for any number of handlers under way: whatever is *)
(* behind one flag runs alone.                                              *)
THEOREM NoTwinHolds == Spec => []NoTwin
<1>1. Init => Locking
  <2> SUFFICES ASSUME Init, page \in DOMAIN Locks, NEW lock \in Locks[page]
               PROVE  \E flag : Locked(page, lock, flag) /\ Alone(lock, flag)
    BY DEF Locking
  <2>1. PICK flag \in Script[page].busy : Locked(page, lock, flag)
    BY LocksAssumption DEF Init
  <2>2. flag \in DOMAIN ui
    BY <2>1 DEF Init, Locked
  <2>3. ASSUME NEW s \in Slots, Busy(s) PROVE runs[s].h \notin lock
    <3>1. s <= Len(Script[page].mount) /\ runs[s] = Begun(Script[page].mount[s], ui, view, 0)
      BY <2>3 DEF Init, Busy
    <3>2. PICK begin : Script[page].mount \in Seq(begin)
      BY ScriptAssumption DEF Init, Pages
    <3>3. Len(Script[page].mount) \in Nat /\ DOMAIN Script[page].mount = 1..Len(Script[page].mount)
      BY <3>2
    <3>4. s \in DOMAIN Script[page].mount
      BY <3>1, <3>3, ConsoleAssumption DEF Slots
    <3>5. Script[page].mount[s] \notin lock
      BY <2>1, <3>4 DEF Locked
    <3>6. runs[s].h = Script[page].mount[s]
      BY <3>1, BegunNamed
    <3> QED BY <3>5, <3>6
  <2> QED BY <2>1, <2>2, <2>3 DEF Alone
<1>2. Shape /\ Locking /\ [Next]_vars => Locking'
  <2> SUFFICES ASSUME Shape, Locking, [Next]_vars PROVE Locking'
    OBVIOUS
  <2>1. page' = page
    BY ShapeStep
  <2>2. ASSUME page \in DOMAIN Locks, NEW lock \in Locks[page]
        PROVE  \E flag : Locked(page, lock, flag) /\ Alone(lock, flag)'
    BY <2>2, AloneStep DEF Locking
  <2> QED BY <2>1, <2>2 DEF Locking
<1>3. Locking => NoTwin
  <2> SUFFICES ASSUME Locking, page \in DOMAIN Locks, NEW lock \in Locks[page]
               PROVE  Cardinality({s \in Slots : Busy(s) /\ runs[s].h \in lock}) <= 1
    BY DEF NoTwin
  <2> DEFINE under == {s \in Slots : Busy(s) /\ runs[s].h \in lock}
  <2>1. \A s, q \in under : s = q
    BY DEF Locking, Alone
  <2>2. CASE under = {}
    BY <2>2, FS_EmptySet
  <2>3. CASE under # {}
    <3>1. PICK s : under = {s}
      BY <2>1, <2>3
    <3> HIDE DEF under
    <3>2. Cardinality(under) = 1
      BY <3>1, FS_Singleton
    <3> QED BY <3>2 DEF under
  <2> QED BY <2>2, <2>3
<1> QED BY <1>1, <1>2, <1>3, ShapeHolds, PTL DEF Spec

-----------------------------------------------------------------------------
(* Flags: while one is set on the page, a handler that will reset it is     *)
(* under way.                                                               *)
Minds(by) == \E s \in Slots : Busy(s) /\ runs[s].h \in by
Minded(flag, by) == ui.here => ui[flag] = FALSE \/ Minds(by)
Sets(update, flag) == flag \in DOMAIN update /\ update[flag] # FALSE

LEMMA LeastNat == ASSUME NEW S, S \subseteq Nat, S # {}
  PROVE \E n \in S : \A m \in S : n <= m
<1> DEFINE Less == {p \in Nat \X Nat : p[1] < p[2]}
<1>1. IsWellFoundedOn(Less, Nat)
  BY NatLessThanWellFounded DEF OpToRel
<1>2. \E n \in S : \A m \in S : <<m, n>> \notin Less
  <2> HIDE DEF Less
  <2> QED BY <1>1, WFMin
<1>3. PICK n \in S : \A m \in S : <<m, n>> \notin Less
  BY <1>2
<1>4. \A m \in S : ~(m < n)
  <2>1. \A m \in S : m < n => <<m, n>> \in Less
    OBVIOUS
  <2> QED BY <1>3, <2>1
<1>5. \A m \in S : n <= m
  BY <1>4
<1> QED BY <1>3, <1>5

(* Every place up to the number of idle slots is that of one of them; a     *)
(* control starts at most two handlers.                                     *)
LEMMA Placed ==
  ASSUME NEW n \in 0..2, n <= Cardinality(Idle), NEW i \in 1..n
  PROVE  \E s \in Idle : Place(s) = i
<1>1. IsFiniteSet(Idle) /\ Idle \subseteq Nat
  <2>1. IsFiniteSet(Slots)
    BY ConsoleAssumption, FS_Interval DEF Slots
  <2>2. Idle \subseteq Slots /\ Slots \subseteq Nat
    BY ConsoleAssumption DEF Idle, Slots
  <2> QED BY <2>1, <2>2, FS_Subset
<1>2. Idle # {} /\ Cardinality(Idle) \in Nat
  <2>1. Cardinality(Idle) # 0 /\ Cardinality(Idle) \in Nat
    BY <1>1, FS_CardinalityType
  <2> QED BY <1>1, <2>1, FS_EmptySet
<1>3. PICK s \in Idle : \A q \in Idle : s <= q
  BY <1>1, <1>2, LeastNat
<1>4. {q \in Idle : q <= s} = {s}
  <2>1. \A q \in Idle : s \in Nat /\ q \in Nat /\ s <= q
    BY <1>1, <1>3
  <2>2. \A q \in Idle : q <= s <=> q = s
    BY <2>1
  <2> QED BY <2>2
<1>5. Place(s) = 1
  BY <1>4, FS_Singleton DEF Place
<1>6. CASE i = 1
  BY <1>5, <1>6
<1>7. CASE i = 2
  <2>1. Cardinality(Idle) > 1
    BY <1>2, <1>7
  <2>2. Idle # {s} /\ Idle \ {s} # {}
    BY <1>3, <2>1, FS_Singleton
  <2>3. PICK t \in Idle \ {s} : \A q \in Idle \ {s} : t <= q
    BY <1>1, <2>2, LeastNat
  <2>4. {q \in Idle : q <= t} = {s} \cup {t} /\ t \notin {s}
    <3>1. /\ t \in Nat /\ s \in Nat /\ s <= t
          /\ \A q \in Idle : q \in Nat /\ (q = s \/ t <= q)
      BY <1>1, <1>3, <2>3
    <3>2. \A q \in Idle : q <= t <=> q = s \/ q = t
      BY <3>1
    <3> QED BY <2>3, <3>2
  <2>5. Cardinality({s} \cup {t}) = 1 + 1
    <3>1. PICK one : one = {s}
      OBVIOUS
    <3>2. IsFiniteSet(one) /\ Cardinality(one) = 1
      BY <3>1, FS_Singleton
    <3>3. Cardinality(one \cup {t}) = Cardinality(one) + 1
      BY <2>4, <3>1, <3>2, FS_AddElement
    <3> QED BY <3>1, <3>2, <3>3
  <2>6. Place(t) = 2
    BY <2>4, <2>5 DEF Place
  <2> QED BY <1>7, <2>3, <2>6
<1> QED BY <1>6, <1>7

(* A run is under way. *)
LEMMA RunBusy == ASSUME NEW run, Run(run) PROVE run # Free
<1>1. run = [h |-> run.h, at |-> run.at, got |-> run.got, arg |-> run.arg, from |-> run.from,
             base |-> run.base, snap |-> run.snap]
  BY DEF Run
<1>2. "at" \in DOMAIN run
  BY <1>1
<1>3. "at" \notin DOMAIN Free
  BY DEF Free
<1> QED BY <1>2, <1>3

(* What the condition says of one handler. *)
LEMMA CoverStates ==
  ASSUME page \in Pages, NEW flag, NEW by \in SUBSET DOMAIN Script[page].code, Covered(page, flag, by)
  PROVE  /\ flag \in DOMAIN Script[page].start /\ "here" \in DOMAIN Script[page].start
         /\ \A h \in by : h # "" /\ Code(h).calls # <<>> /\ ~Code(h).latest
         /\ \A h \in DOMAIN Script[page].code :
              /\ Code(h).pick # flag /\ Code(h).pick # "here"
              /\ \A update \in Updates(page, h) : "here" \in DOMAIN update => update["here"] = FALSE
              /\ Sets(Code(h).begin, flag) => h \in by
              /\ \A update \in Code(h).ok \cup Code(h).err : ~Sets(update, flag)
<1>1. \A h \in DOMAIN Script[page].code :
        Code(h).pick # "here" /\ \A update \in Updates(page, h) : "here" \in DOMAIN update => update["here"] = FALSE
  BY LeavingAssumption DEF Pages, Code
<1>2. "here" \in DOMAIN Script[page].start
  BY LeavingAssumption DEF Pages
<1> QED BY <1>1, <1>2 DEF Covered, Code, Sets

LEMMA CoverOk ==
  ASSUME page \in Pages, NEW flag, NEW by \in SUBSET DOMAIN Script[page].code, Covered(page, flag, by),
         NEW h \in by, NEW update \in Code(h).ok
  PROVE  \/ flag \in DOMAIN update /\ update[flag] = FALSE
         \/ "here" \in DOMAIN update
         \/ /\ Code(h).next \in by
            /\ \A f \in DOMAIN Code(Code(h).next).when :
                 f \in DOMAIN update /\ f \in DOMAIN Script[page].start
                 /\ update[f] \in Code(Code(h).next).when[f]
BY DEF Covered, Code

LEMMA CoverErr ==
  ASSUME page \in Pages, NEW flag, NEW by \in SUBSET DOMAIN Script[page].code, Covered(page, flag, by),
         NEW h \in by, NEW update \in Code(h).err
  PROVE  \/ flag \in DOMAIN update /\ update[flag] = FALSE
         \/ "here" \in DOMAIN update
         \/ \A k \in DOMAIN Code(h).calls : Code(h).calls[k].soft # ""
BY DEF Covered, Code

(* After an update the flag is set only if it was or the update sets it; a  *)
(* page that is left stays so.                                              *)
LEMMA FlagAfter ==
  ASSUME NEW state, NEW update, NEW flag, flag \in DOMAIN state, "here" \in DOMAIN state,
         "here" \in DOMAIN update => update["here"] = FALSE
  PROVE  /\ After(state, update)[flag] = FALSE \/ state[flag] # FALSE \/ Sets(update, flag)
         /\ Sets(update, flag) \/ flag \notin DOMAIN update \/ After(state, update)[flag] = FALSE
         /\ "here" \in DOMAIN update => ~After(state, update).here
         /\ ~state.here => ~After(state, update).here
BY DEF After, Sets

LEMMA FlagEntered ==
  ASSUME page \in Pages, NEW flag, NEW by \in SUBSET DOMAIN Script[page].code, Covered(page, flag, by),
         NEW h, h \in DOMAIN Script[page].code \cup {""}, NEW state, Fields(state)
  PROVE  /\ \/ Entered(h, state)[flag] = FALSE
            \/ state[flag] # FALSE
            \/ Calls(h, state) = <<h>> /\ h \in by
         /\ ~state.here => ~Entered(h, state).here
<1>1. flag \in DOMAIN state /\ "here" \in DOMAIN state
  BY CoverStates DEF Fields
<1>2. CASE Goes(h, state)
  <2>1. h \in DOMAIN Script[page].code
    BY <1>2 DEF Goes
  <2>2. PICK update : update = Code(h).begin
    OBVIOUS
  <2>3. update \in Updates(page, h)
    BY <2>2 DEF Updates, Code
  <2>4. /\ "here" \in DOMAIN update => update["here"] = FALSE
        /\ Sets(update, flag) => h \in by /\ Code(h).calls # <<>>
    BY <2>1, <2>2, <2>3, CoverStates
  <2>5. /\ After(state, update)[flag] = FALSE \/ state[flag] # FALSE \/ Sets(update, flag)
        /\ ~state.here => ~After(state, update).here
    BY <1>1, <2>4, FlagAfter
  <2>6. Entered(h, state) = After(state, update)
    BY <1>2, <2>2 DEF Entered
  <2>7. Code(h).calls # <<>> => Calls(h, state) = <<h>>
    BY <1>2 DEF Calls
  <2> QED BY <2>4, <2>5, <2>6, <2>7
<1>3. CASE ~Goes(h, state)
  BY <1>3 DEF Entered
<1> QED BY <1>2, <1>3

(* Handlers under way stay so, or the page is left, or the flag is reset.   *)
LEMMA MindedStart ==
  ASSUME Shape, Typed, NEW flag, NEW by \in SUBSET DOMAIN Script[page].code, Covered(page, flag, by),
         Minded(flag, by), NEW h \in DOMAIN Script[page].code, Use(h) \/ Tick(h)
  PROVE  Minded(flag, by)'
<1>1. PICK update :
        /\ Start(h, update) /\ DOMAIN Code(h).begin \subseteq DOMAIN update
        /\ \A f \in DOMAIN update :
             \/ f \in DOMAIN Code(h).begin /\ update[f] = Code(h).begin[f]
             \/ f = Code(h).pick /\ f # "" /\ update[f] \in Chosen
  BY UseForm
<1>2. PICK begun : begun = After(ui, update)
  OBVIOUS
<1>3. PICK st : st = Started(h, begun)
  OBVIOUS
<1>4. PICK a : a = Code(h).also
  OBVIOUS
<1>5. /\ page \in Pages /\ issued \in Nat /\ ui' = Entered(a, begun) /\ ui.here
      /\ Len(st) <= Cardinality(Idle)
      /\ \A s \in Slots :
           \/ runs'[s] = runs[s]
           \/ s \in Idle
      /\ \A s \in Idle : Place(s) \in 1..Len(st) =>
           runs'[s] = Begun(st[Place(s)], ui', view, Base(st, Place(s)))
  <2>1. Start(h, update)
    BY <1>1
  <2> QED BY <1>2, <1>3, <1>4, <2>1, StartForm DEF Shape
<1>6. Len(st) \in 0..2 /\ \A i \in 1..Len(st) : st[i] \in DOMAIN Script[page].code /\ Code(st[i]).calls # <<>>
  BY <1>3, <1>5, Bases
<1>7. ASSUME NEW i \in 1..Len(st), st[i] \in by PROVE Minds(by)'
  <2>1. PICK s \in Idle : Place(s) = i
    BY <1>5, <1>6, Placed
  <2>2. PICK g : g = st[i]
    OBVIOUS
  <2>3. runs'[s] = Begun(g, ui', view, Base(st, i)) /\ s \in Slots
    BY <1>5, <1>7, <2>1, <2>2 DEF Idle
  <2>4. g \in DOMAIN Script[page].code /\ Code(g).calls # <<>>
    BY <1>6, <1>7, <2>2
  <2>5. Run(runs'[s]) /\ runs'[s].h = g
    BY <1>5, <2>3, <2>4, BegunRuns
  <2>6. runs'[s] # Free /\ runs'[s].h \in by
    BY <1>7, <2>2, <2>5, RunBusy
  <2> QED BY <2>3, <2>6 DEF Minds, Busy, Slots
<1>8. ASSUME Minds(by) PROVE Minds(by)'
  <2>1. PICK s \in Slots : Busy(s) /\ runs[s].h \in by
    BY <1>8 DEF Minds
  <2>2. runs'[s] = runs[s]
    BY <1>5, <2>1 DEF Idle
  <2> QED BY <2>1, <2>2 DEF Minds, Busy, Slots
<1>9. ASSUME ui[flag] = FALSE PROVE ui'[flag] = FALSE \/ Minds(by)'
  <2>1. flag \in DOMAIN ui /\ "here" \in DOMAIN ui
    BY <1>5, CoverStates DEF Typed, Fields
  <2>2. /\ Code(h).pick # flag /\ Code(h).pick # "here"
        /\ "here" \in DOMAIN Code(h).begin => Code(h).begin["here"] = FALSE
        /\ Sets(Code(h).begin, flag) => h \in by /\ Code(h).calls # <<>>
    <3>1. Code(h).begin \in Updates(page, h)
      BY DEF Updates, Code
    <3> QED BY <1>5, <3>1, CoverStates
  <2>3. /\ "here" \in DOMAIN update => update["here"] = FALSE
        /\ Sets(update, flag) => h \in by /\ Code(h).calls # <<>>
    BY <1>1, <2>2 DEF Sets
  <2>4. CASE Sets(update, flag)
    <3>1. 1 \in 1..Len(st) /\ st[1] = h
      <4>1. page \in Pages /\ Code(h).calls # <<>>
        BY <1>5, <2>3, <2>4
      <4>2. (Len(st) = 1 \/ Len(st) = 2) /\ st[1] = h
        BY <1>3, <4>1, StartedForms
      <4> QED BY <4>2
    <3> QED BY <1>7, <2>3, <2>4, <3>1
  <2>5. CASE ~Sets(update, flag)
    <3>1. begun[flag] = FALSE
      BY <1>2, <1>9, <2>1, <2>3, <2>5, FlagAfter
    <3>2. Fields(begun) /\ a \in DOMAIN Script[page].code \cup {""}
      <4>1. a \in DOMAIN Script[page].code \cup {""}
        BY <1>4, <1>5, CallsTyped
      <4>2. DOMAIN begun = DOMAIN ui
        BY <1>2 DEF After
      <4>3. Fits(Code(h).begin)
        BY <1>5, UpdatesFit DEF Updates, Code
      <4>4. Fits(update)
        BY <1>1, <4>3 DEF Fits, Choices
      <4>5. Fields(begun)
        BY <1>2, <1>5, <4>4, FieldsAfter DEF Typed
      <4> QED BY <4>1, <4>5
    <3>3. ui'[flag] = FALSE \/ (Calls(a, begun) = <<a>> /\ a \in by)
      BY <1>5, <3>1, <3>2, FlagEntered
    <3>4. ASSUME Calls(a, begun) = <<a>>, a \in by PROVE Minds(by)'
      <4>1. \E i \in 1..Len(st) : st[i] = a
        <5>1. <<a>> # <<>>
          OBVIOUS
        <5>2. Calls(Code(h).also, begun) # <<>>
          BY <1>4, <3>4, <5>1
        <5>3. \/ Len(st) = 1 /\ st[1] = a
              \/ Len(st) = 2 /\ st[2] = a
          <6>1. page \in Pages
            BY <1>5
          <6>2. PICK r : r = Calls(Code(h).also, begun)
            OBVIOUS
          <6>3. r # <<>>
            BY <5>2, <6>2
          <6> QED BY <1>3, <1>4, <3>4, <6>1, <6>2, <6>3, StartedForms
        <5> QED BY <5>3
      <4> QED BY <1>7, <3>4, <4>1
    <3> QED BY <3>3, <3>4
  <2> QED BY <2>4, <2>5
<1> QED BY <1>5, <1>8, <1>9 DEF Minded

LEMMA MindedAnswer ==
  ASSUME Shape, Typed, NEW flag, NEW by \in SUBSET DOMAIN Script[page].code, Covered(page, flag, by),
         Minded(flag, by), NEW s \in Slots, Answer(s)
  PROVE  Minded(flag, by)'
<1>1. PICK run : run = runs[s]
  OBVIOUS
<1>2. PICK then : then = Code(run.h).next
  OBVIOUS
<1>3. PICK got : got = IF Call(s).late THEN run.got ELSE <<>>
  OBVIOUS
<1>4. /\ page \in Pages /\ Busy(s) /\ Run(run)
      /\ \A q \in Slots \ {s} :
           \/ runs'[q] = runs[q]
           \/ runs[q].h = then /\ then \in DOMAIN Script[page].code /\ Code(then).latest
      /\ \/ /\ run.at < Len(Code(run.h).calls) /\ runs'[s] = Onward(run, got)
            /\ DOMAIN got \subseteq Data /\ ui' = ui
         \/ \E end \in Code(run.h).ok :
              LET state == IF ui.here THEN After(ui, end) ELSE ui
              IN  /\ ui' = IF ui.here THEN Entered(then, state) ELSE ui
                  /\ \/ Calls(then, state) = <<>>
                     \/ /\ then \in DOMAIN Script[page].code /\ Code(then).calls # <<>>
                        /\ runs'[s] = Begun(then, ui', view', issued)
  BY <1>1, <1>2, <1>3, AnswerForm
<1>5. run.h \in DOMAIN Script[page].code /\ then \in DOMAIN Script[page].code \cup {""}
  <2>1. run.h \in DOMAIN Script[page].code
    BY <1>4 DEF Run
  <2> QED BY <1>2, <1>4, <2>1, CallsTyped
<1>6. ASSUME NEW q \in Slots \ {s}, Busy(q), runs[q].h \in by PROVE Minds(by)'
  <2>1. runs'[q] = runs[q]
    <3>1. page \in Pages
      BY <1>4
    <3>2. ~Code(runs[q].h).latest
      BY <1>6, <3>1, CoverStates
    <3> QED BY <1>4, <3>2
  <2> QED BY <1>6, <2>1 DEF Minds, Busy, Slots
<1>7. CASE /\ run.at < Len(Code(run.h).calls) /\ runs'[s] = Onward(run, got)
           /\ DOMAIN got \subseteq Data /\ ui' = ui
  <2>1. Run(runs'[s]) /\ runs'[s].h = run.h
    BY <1>4, <1>7, OnwardRuns
  <2>2. Busy(s)' /\ runs'[s].h = runs[s].h
    BY <1>1, <2>1, RunBusy DEF Busy
  <2>3. Minds(by) => Minds(by)'
    BY <1>6, <2>2 DEF Minds, Slots
  <2> QED BY <1>7, <2>3 DEF Minded
<1>8. CASE \E end \in Code(run.h).ok :
             LET state == IF ui.here THEN After(ui, end) ELSE ui
             IN  /\ ui' = IF ui.here THEN Entered(then, state) ELSE ui
                 /\ \/ Calls(then, state) = <<>>
                    \/ /\ then \in DOMAIN Script[page].code /\ Code(then).calls # <<>>
                       /\ runs'[s] = Begun(then, ui', view', issued)
  <2>1. SUFFICES ASSUME ui'.here PROVE ui'[flag] = FALSE \/ Minds(by)'
    BY DEF Minded
  <2>0. PICK end \in Code(run.h).ok : \E state :
          /\ state = IF ui.here THEN After(ui, end) ELSE ui
          /\ ui' = IF ui.here THEN Entered(then, state) ELSE ui
          /\ \/ Calls(then, state) = <<>>
             \/ /\ then \in DOMAIN Script[page].code /\ Code(then).calls # <<>>
                /\ runs'[s] = Begun(then, ui', view', issued)
    BY <1>8
  <2>2. PICK state :
          /\ state = IF ui.here THEN After(ui, end) ELSE ui
          /\ ui' = IF ui.here THEN Entered(then, state) ELSE ui
          /\ \/ Calls(then, state) = <<>>
             \/ /\ then \in DOMAIN Script[page].code /\ Code(then).calls # <<>>
                /\ runs'[s] = Begun(then, ui', view', issued)
    BY <2>0
  <2>3. ui.here /\ state = After(ui, end) /\ ui' = Entered(then, state)
    BY <2>1, <2>2
  <2>4. /\ flag \in DOMAIN ui /\ "here" \in DOMAIN ui /\ end \in Updates(page, run.h)
        /\ "here" \in DOMAIN end => end["here"] = FALSE
        /\ ~Sets(end, flag)
    <3>1. flag \in DOMAIN ui /\ "here" \in DOMAIN ui
      BY <1>4, CoverStates DEF Typed, Fields
    <3>2. end \in Updates(page, run.h)
      BY <2>2 DEF Updates, Code
    <3> QED BY <1>4, <1>5, <2>2, <3>1, <3>2, CoverStates
  <2>5. Fields(state)
    <3>1. Fits(end)
      BY <1>4, <1>5, <2>4, UpdatesFit
    <3> QED BY <1>4, <2>3, <3>1, FieldsAfter DEF Typed
  <2>6. /\ state[flag] = FALSE \/ ui[flag] # FALSE
        /\ flag \notin DOMAIN end \/ state[flag] = FALSE
        /\ "here" \in DOMAIN end => ~state.here
    BY <2>3, <2>4, FlagAfter
  <2>7. /\ ui'[flag] = FALSE \/ state[flag] # FALSE \/ (Calls(then, state) = <<then>> /\ then \in by)
        /\ state.here
    BY <1>4, <1>5, <2>1, <2>3, <2>5, FlagEntered
  <2>8. ASSUME Calls(then, state) = <<then>>, then \in by PROVE Minds(by)'
    <3>1. <<then>> # <<>>
      OBVIOUS
    <3>2. /\ then \in DOMAIN Script[page].code /\ Code(then).calls # <<>>
          /\ runs'[s] = Begun(then, ui', view', issued)
      BY <2>2, <2>8, <3>1
    <3>3. Run(runs'[s]) /\ runs'[s].h = then
      BY <1>4, <3>2, BegunRuns
    <3> QED BY <2>8, <3>3, RunBusy DEF Minds, Busy, Slots
  <2>9. CASE state[flag] = FALSE
    BY <2>7, <2>8, <2>9
  <2>10. CASE state[flag] # FALSE
    <3>1. PICK q \in Slots : Busy(q) /\ runs[q].h \in by
      BY <2>3, <2>6, <2>10 DEF Minded, Minds
    <3>2. CASE q # s
      BY <1>6, <3>1, <3>2
    <3>3. CASE q = s
      <4>1. run.h \in by
        BY <1>1, <3>1, <3>3
      <4>2. /\ then \in by
            /\ \A f \in DOMAIN Code(then).when :
                 f \in DOMAIN end /\ f \in DOMAIN Script[page].start /\ end[f] \in Code(then).when[f]
        <5>1. /\ page \in Pages /\ end \in Code(run.h).ok /\ "here" \notin DOMAIN end
              /\ ~(flag \in DOMAIN end /\ end[flag] = FALSE)
          BY <1>4, <2>2, <2>6, <2>7, <2>10
        <5>2. PICK g \in by : g = run.h
          BY <4>1
        <5>3. end \in Code(g).ok
          BY <5>1, <5>2
        <5>4. /\ Code(g).next \in by
              /\ \A f \in DOMAIN Code(Code(g).next).when :
                   f \in DOMAIN end /\ f \in DOMAIN Script[page].start
                   /\ end[f] \in Code(Code(g).next).when[f]
          BY <5>1, <5>3, CoverOk
        <5> QED BY <1>2, <5>2, <5>4
      <4>3. then # "" /\ Code(then).calls # <<>>
        BY <1>4, <4>2, CoverStates
      <4>4. \A f \in DOMAIN Code(then).when : state[f] \in Code(then).when[f]
        BY <2>3, <4>2 DEF After, Typed, Fields
      <4>5. Calls(then, state) = <<then>>
        BY <4>3, <4>4 DEF Calls, Goes
      <4> QED BY <2>8, <4>2, <4>5
    <3> QED BY <3>2, <3>3
  <2> QED BY <2>9, <2>10
<1> QED BY <1>4, <1>7, <1>8

LEMMA MindedFail ==
  ASSUME Shape, Typed, NEW flag, NEW by \in SUBSET DOMAIN Script[page].code, Covered(page, flag, by),
         Minded(flag, by), NEW s \in Slots, Fail(s)
  PROVE  Minded(flag, by)'
<1>1. PICK run : run = runs[s]
  OBVIOUS
<1>2. /\ page \in Pages /\ Run(run) /\ run.h \in DOMAIN Script[page].code /\ run.at \in DOMAIN Code(run.h).calls
      /\ Code(run.h).calls[run.at].soft = "" /\ \A q \in Slots \ {s} : runs'[q] = runs[q]
  BY <1>1 DEF Fail, Shape, Run, Busy, Call
<1>3. CASE ~ui.here
  <2>1. ui' = ui
    BY <1>3 DEF Fail
  <2> QED BY <1>3, <2>1 DEF Minded
<1>4. CASE ui.here
  <2>1. PICK end \in Code(run.h).err : ui' = After(ui, end)
    BY <1>1, <1>4 DEF Fail
  <2>2. /\ flag \in DOMAIN ui /\ "here" \in DOMAIN ui
        /\ "here" \in DOMAIN end => end["here"] = FALSE
        /\ ~Sets(end, flag)
    <3>1. flag \in DOMAIN ui /\ "here" \in DOMAIN ui
      BY <1>2, CoverStates DEF Typed, Fields
    <3>2. end \in Updates(page, run.h)
      BY <2>1 DEF Updates, Code
    <3> QED BY <1>2, <2>1, <3>1, <3>2, CoverStates
  <2>3. /\ ui'[flag] = FALSE \/ ui[flag] # FALSE
        /\ flag \notin DOMAIN end \/ ui'[flag] = FALSE
        /\ "here" \in DOMAIN end => ~ui'.here
    BY <2>1, <2>2, FlagAfter
  <2>4. ASSUME ui'.here, ui'[flag] # FALSE PROVE Minds(by)'
    <3>1. PICK q \in Slots : Busy(q) /\ runs[q].h \in by
      BY <1>4, <2>3, <2>4 DEF Minded, Minds
    <3>2. q # s
      BY <1>1, <1>2, <2>1, <2>3, <2>4, <3>1, CoverErr
    <3>3. runs'[q] = runs[q]
      BY <1>2, <3>2
    <3> QED BY <3>1, <3>3 DEF Minds, Busy, Slots
  <2> QED BY <2>4 DEF Minded
<1> QED BY <1>3, <1>4

(* A step that leaves the page as it is, and who is under way. *)
LEMMA MindedKept ==
  ASSUME NEW flag, NEW by, Minded(flag, by), ui' = ui,
         \A q \in Slots : Busy(q) => Busy(q)' /\ runs'[q].h = runs[q].h
  PROVE  Minded(flag, by)'
<1>1. Minds(by) => Minds(by)'
  BY DEF Minds, Slots
<1> QED BY <1>1 DEF Minded

LEMMA MindedInit ==
  ASSUME Init, NEW flag, NEW by \in SUBSET DOMAIN Script[page].code, Covered(page, flag, by)
  PROVE  Minded(flag, by)
<1>1. page \in Pages /\ ui = Script[page].start
  BY DEF Init
<1>2. Script[page].start[flag] = FALSE \/ \E i \in DOMAIN Script[page].mount : Script[page].mount[i] \in by
  BY DEF Covered
<1>3. ASSUME NEW i \in DOMAIN Script[page].mount, Script[page].mount[i] \in by PROVE Minds(by)
  <2>1. PICK h : h = Script[page].mount[i]
    OBVIOUS
  <2>2. Len(Script[page].mount) \in Nat /\ i \in 1..Len(Script[page].mount) /\ Len(Script[page].mount) <= MaxRuns
    <3>1. PICK begin : /\ begin = {g \in DOMAIN Script[page].code : Script[page].code[g].calls # <<>>}
                       /\ Script[page].mount \in Seq(begin) /\ Len(Script[page].mount) <= MaxRuns
      BY <1>1, ScriptAssumption DEF Pages
    <3> QED BY <3>1
  <2>3. i \in Slots /\ i <= Len(Script[page].mount)
    BY <2>2, ConsoleAssumption DEF Slots
  <2>4. runs[i] = Begun(h, ui, view, 0)
    BY <2>1, <2>3 DEF Init
  <2>5. h \in DOMAIN Script[page].code /\ Code(h).calls # <<>>
    BY <1>1, <1>3, <2>1, CoverStates
  <2>6. Run(runs[i]) /\ runs[i].h = h
    BY <1>1, <2>4, <2>5, BegunRuns
  <2> QED BY <1>3, <2>1, <2>3, <2>6, RunBusy DEF Minds, Busy
<1> QED BY <1>1, <1>2, <1>3 DEF Minded

AllMinded ==
  \A flag \in Script[page].busy : \E by \in SUBSET DOMAIN Script[page].code :
    Covered(page, flag, by) /\ Minded(flag, by)

LEMMA MindedStep ==
  ASSUME Shape, Typed, [Next]_vars,
         NEW flag, NEW by \in SUBSET DOMAIN Script[page].code, Covered(page, flag, by), Minded(flag, by)
  PROVE  Minded(flag, by)'
<1>1. ASSUME NEW h \in DOMAIN Script[page].code, Use(h) \/ Tick(h) PROVE Minded(flag, by)'
  BY <1>1, MindedStart
<1>2. ASSUME NEW s \in Slots, NEW r \in Data, Serve(s, r) PROVE Minded(flag, by)'
  <2>1. /\ ui' = ui /\ Busy(s) /\ Run(runs[s]) /\ runs'[s] = Got(runs[s], r, Handled(s, r))
        /\ \A q \in Slots \ {s} : runs'[q] = runs[q]
    BY <1>2, ServeForm
  <2>2. runs'[s].h = runs[s].h /\ Run(runs'[s])
    <3>1. PICK changes : changes = Handled(s, r)
      OBVIOUS
    <3>2. Run(Got(runs[s], r, changes))
      BY <2>1, GotRuns
    <3>3. Got(runs[s], r, changes).h = runs[s].h
      BY <2>1, GotKeeps
    <3> QED BY <2>1, <3>1, <3>2, <3>3
  <2>3. Busy(s)'
    BY <2>2, RunBusy DEF Busy
  <2> QED BY <2>1, <2>2, <2>3, MindedKept DEF Busy
<1>3. ASSUME NEW s \in Slots, NEW r \in Data, Catch(s, r) PROVE Minded(flag, by)'
  <2>1. /\ ui' = ui /\ Busy(s) /\ Run(runs[s]) /\ runs'[s] = Got(runs[s], r, Lost)
        /\ \A q \in Slots \ {s} : runs'[q] = runs[q]
    BY <1>3, CatchForm
  <2>2. runs'[s].h = runs[s].h /\ Run(runs'[s])
    <3>1. PICK changes : changes = Lost
      OBVIOUS
    <3>2. Run(Got(runs[s], r, changes))
      BY <2>1, GotRuns
    <3>3. Got(runs[s], r, changes).h = runs[s].h
      BY <2>1, GotKeeps
    <3> QED BY <2>1, <3>1, <3>2, <3>3
  <2>3. Busy(s)'
    BY <2>2, RunBusy DEF Busy
  <2> QED BY <2>1, <2>2, <2>3, MindedKept DEF Busy
<1>4. ASSUME NEW s \in Slots, Answer(s) PROVE Minded(flag, by)'
  BY <1>4, MindedAnswer
<1>5. ASSUME NEW s \in Slots, Fail(s) PROVE Minded(flag, by)'
  BY <1>5, MindedFail
<1>6. ASSUME NEW s \in Slots, Expel(s) PROVE Minded(flag, by)'
  <2>1. "here" \in DOMAIN ui
    BY CoverStates DEF Shape, Typed, Fields
  <2>2. ~ui'.here
    BY <1>6, <2>1 DEF Expel
  <2> QED BY <2>2 DEF Minded
<1>7. ASSUME ui' = ui, runs' = runs PROVE Minded(flag, by)'
  BY <1>7, MindedKept DEF Busy
<1>8. ASSUME NEW r \in Data, Elsewhere(r) PROVE Minded(flag, by)'
  BY <1>7, <1>8 DEF Elsewhere
<1>9. ASSUME UNCHANGED vars PROVE Minded(flag, by)'
  BY <1>7, <1>9 DEF vars
<1> QED BY <1>1, <1>2, <1>3, <1>4, <1>5, <1>6, <1>8, <1>9 DEF Next

(* Whatever fails and in whatever order answers come, a page that comes to  *)
(* rest shows no spinner and holds no button locked, whatever the script,   *)
(* as long as every flag is covered by handlers that reset it or hand it on.*)
THEOREM NothingPendingHolds == Spec => []NothingPending
<1>1. Init => AllMinded
  <2> SUFFICES ASSUME Init, NEW flag \in Script[page].busy
               PROVE  \E by \in SUBSET DOMAIN Script[page].code : Covered(page, flag, by) /\ Minded(flag, by)
    BY DEF AllMinded
  <2>1. PICK by \in SUBSET DOMAIN Script[page].code : Covered(page, flag, by)
    BY PendingAssumption DEF Init
  <2> QED BY <2>1, MindedInit
<1>2. AllMinded /\ Shape /\ Typed /\ [Next]_vars => AllMinded'
  <2> SUFFICES ASSUME AllMinded, Shape, Typed, [Next]_vars PROVE AllMinded'
    OBVIOUS
  <2>1. page' = page
    BY ShapeStep
  <2> QED BY <2>1, MindedStep DEF AllMinded
<1>3. AllMinded => NothingPending
  <2> SUFFICES ASSUME AllMinded, Settled, NEW flag \in Script[page].busy PROVE ~ui[flag]
    BY DEF NothingPending
  <2>1. PICK by \in SUBSET DOMAIN Script[page].code : Minded(flag, by)
    BY DEF AllMinded
  <2>2. ui[flag] = FALSE
    BY <2>1 DEF Settled, Quiet, Minded, Minds
  <2> QED BY <2>2
<1> QED BY ShapeHolds, TypedInit, TypedStep, <1>1, <1>2, <1>3, PTL DEF Spec

-----------------------------------------------------------------------------
(* What a run was given it asked for, and under the selection it passed on. *)
Asking(run) ==
  /\ \A x \in DOMAIN run.got : \E k \in DOMAIN Code(run.h).calls : x \in Code(run.h).calls[k].on
  /\ Code(run.h).of = "" => run.arg = 0
Fetched == \A s \in Slots : Busy(s) => Asking(runs[s])

LEMMA BegunAsking ==
  ASSUME NEW h, NEW state, NEW data, NEW base
  PROVE  /\ Asking(Begun(h, state, data, base))
         /\ Begun(h, state, data, base).arg = IF Code(h).of = "" THEN 0 ELSE state[Code(h).of]
<1>1. PICK run : run = Begun(h, state, data, base)
  OBVIOUS
<1>2. run.h = h /\ run.got = <<>> /\ run.arg = IF Code(h).of = "" THEN 0 ELSE state[Code(h).of]
  BY <1>1 DEF Begun
<1>3. DOMAIN run.got = {}
  <2>1. DOMAIN <<>> = {}
    OBVIOUS
  <2> QED BY <1>2, <2>1
<1> QED BY <1>1, <1>2, <1>3 DEF Asking

LEMMA GotAsking ==
  ASSUME NEW run, Run(run), Asking(run), NEW r \in Data, NEW changes, r \in Code(run.h).calls[run.at].on
  PROVE  Asking(Got(run, r, changes))
<1>1. PICK more : more = Got(run, r, changes)
  OBVIOUS
<1>2. more.h = run.h /\ more.arg = run.arg /\ DOMAIN more.got = DOMAIN run.got \cup {r}
  <2>1. DOMAIN Got(run, r, changes).got = DOMAIN run.got \cup {r}
    BY GotRuns
  <2>2. Got(run, r, changes).h = run.h /\ Got(run, r, changes).arg = run.arg
    BY GotKeeps
  <2> QED BY <1>1, <2>1, <2>2
<1>3. run.at \in DOMAIN Code(run.h).calls
  BY DEF Run
<1> QED BY <1>1, <1>2, <1>3 DEF Asking

LEMMA OnwardAsking ==
  ASSUME page \in Pages, NEW run, Run(run), Asking(run), run.at < Len(Code(run.h).calls),
         NEW got, DOMAIN got \subseteq DOMAIN run.got
  PROVE  Asking(Onward(run, got))
<1>1. PICK more : more = Onward(run, got)
  OBVIOUS
<1>2. DOMAIN got \subseteq Data
  BY DEF Run
<1>3. more.h = run.h /\ more.arg = run.arg /\ more.got = got
  BY <1>1, <1>2, OnwardRuns
<1> QED BY <1>1, <1>3 DEF Asking

LEMMA FetchedMove ==
  ASSUME Fetched, page' = page,
         \A s \in Slots : runs'[s] \in {runs[s], Free} \/ Asking(runs'[s])
  PROVE  Fetched'
BY DEF Fetched, Asking, Busy, Code, Slots

LEMMA FetchedStep == ASSUME Shape, Fetched, [Next]_vars PROVE Fetched'
<1>1. page' = page
  BY ShapeStep
<1>2. ASSUME NEW h \in DOMAIN Script[page].code, Use(h) \/ Tick(h) PROVE Fetched'
  <2>1. PICK update : Start(h, update)
    BY <1>2 DEF Use, Tick
  <2>2. PICK st : st = Started(h, After(ui, update))
    OBVIOUS
  <2>3. \A s \in Slots : \/ runs'[s] = runs[s]
                         \/ runs'[s] = Begun(st[Place(s)], ui', view, Base(st, Place(s)))
    BY <2>1, <2>2, StartForm
  <2>4. ASSUME NEW s \in Slots PROVE runs'[s] \in {runs[s], Free} \/ Asking(runs'[s])
    <3>1. Asking(Begun(st[Place(s)], ui', view, Base(st, Place(s))))
      BY BegunAsking
    <3> QED BY <2>3, <3>1
  <2> QED BY <1>1, <2>4, FetchedMove
<1>3. ASSUME NEW s \in Slots, NEW r \in Data, Serve(s, r) PROVE Fetched'
  <2>1. PICK changes : changes = Handled(s, r)
    OBVIOUS
  <2>2. /\ Busy(s) /\ Run(runs[s]) /\ r \in Code(runs[s].h).calls[runs[s].at].on
        /\ runs'[s] = Got(runs[s], r, changes) /\ \A q \in Slots \ {s} : runs'[q] = runs[q]
    BY <1>3, <2>1, ServeForm DEF Call
  <2>3. Asking(runs'[s])
    BY <2>2, GotAsking DEF Fetched
  <2> QED BY <1>1, <2>2, <2>3, FetchedMove
<1>4. ASSUME NEW s \in Slots, NEW r \in Data, Catch(s, r) PROVE Fetched'
  <2>1. /\ Busy(s) /\ Run(runs[s]) /\ r \in Code(runs[s].h).calls[runs[s].at].on
        /\ runs'[s] = Got(runs[s], r, Lost) /\ \A q \in Slots \ {s} : runs'[q] = runs[q]
    BY <1>4, CatchForm DEF Call, Catch
  <2>2. PICK changes : changes = Lost
    OBVIOUS
  <2>3. Asking(runs'[s])
    BY <2>1, <2>2, GotAsking DEF Fetched
  <2> QED BY <1>1, <2>1, <2>3, FetchedMove
<1>5. ASSUME NEW s \in Slots, Answer(s) PROVE Fetched'
  <2>1. PICK run : run = runs[s]
    OBVIOUS
  <2>2. PICK then : then = Code(run.h).next
    OBVIOUS
  <2>3. PICK got : got = IF Call(s).late THEN run.got ELSE <<>>
    OBVIOUS
  <2>4. /\ page \in Pages /\ Busy(s) /\ Run(run)
        /\ \A q \in Slots \ {s} : runs'[q] \in {runs[q], Free}
        /\ \/ run.at < Len(Code(run.h).calls) /\ runs'[s] = Onward(run, got)
           \/ runs'[s] = Free
           \/ runs'[s] = Begun(then, ui', view', issued)
    BY <1>5, <2>1, <2>2, <2>3, AnswerForm
  <2>5. DOMAIN got \subseteq DOMAIN run.got
    <3>1. DOMAIN <<>> = {}
      OBVIOUS
    <3> QED BY <2>3, <3>1
  <2>6. Asking(run)
    BY <2>1, <2>4 DEF Fetched
  <2>7. runs'[s] \in {runs[s], Free} \/ Asking(runs'[s])
    <3>1. Asking(Begun(then, ui', view', issued))
      BY BegunAsking
    <3>2. run.at < Len(Code(run.h).calls) => Asking(Onward(run, got))
      BY <2>4, <2>5, <2>6, OnwardAsking
    <3> QED BY <2>4, <3>1, <3>2
  <2> QED BY <1>1, <2>4, <2>7, FetchedMove
<1>6. ASSUME NEW s \in Slots, Fail(s) \/ Expel(s) PROVE Fetched'
  <2>1. \A q \in Slots : runs'[q] \in {runs[q], Free}
    BY <1>6 DEF Fail, Expel, Shape
  <2> QED BY <1>1, <2>1, FetchedMove
<1>7. ASSUME NEW r \in Data, Elsewhere(r) PROVE Fetched'
  <2>1. runs' = runs
    BY <1>7 DEF Elsewhere
  <2> QED BY <1>1, <2>1, FetchedMove
<1>8. ASSUME UNCHANGED vars PROVE Fetched'
  BY <1>1, <1>8, FetchedMove DEF vars
<1> QED BY <1>2, <1>3, <1>4, <1>5, <1>6, <1>7, <1>8 DEF Next

LEMMA FetchedInit == Init => Fetched
<1> SUFFICES ASSUME Init, NEW s \in Slots, Busy(s) PROVE Asking(runs[s])
  BY DEF Fetched
<1>1. runs[s] = Begun(Script[page].mount[s], ui, view, 0)
  BY Mounted
<1>2. Asking(Begun(Script[page].mount[s], ui, view, 0))
  BY BegunAsking
<1> QED BY <1>1, <1>2

-----------------------------------------------------------------------------
(* A field that no update names stays. *)
LEMMA FieldEntered ==
  ASSUME NEW h, NEW state, NEW f \in DOMAIN state, h = "" \/ f \notin DOMAIN Code(h).begin
  PROVE  f \in DOMAIN Entered(h, state) /\ Entered(h, state)[f] = state[f]
BY DEF Entered, Goes, After

(* An answer to a page: a field that no update names stays. *)
LEMMA FieldAnswer ==
  ASSUME Shape, NEW s \in Slots, Answer(s), NEW f, f \in DOMAIN ui,
         \A h \in DOMAIN Script[page].code : \A update \in Updates(page, h) : f \notin DOMAIN update
  PROVE  ui'[f] = ui[f]
<1>1. PICK run : run = runs[s]
  OBVIOUS
<1>2. PICK then : then = Code(run.h).next
  OBVIOUS
<1>3. /\ page \in Pages /\ Run(run)
      /\ \/ ui' = ui
         \/ \E end \in Code(run.h).ok :
              LET state == IF ui.here THEN After(ui, end) ELSE ui
              IN  ui' = IF ui.here THEN Entered(then, state) ELSE ui
  BY <1>1, <1>2, AnswerForm
<1>4. run.h \in DOMAIN Script[page].code /\ then \in DOMAIN Script[page].code \cup {""}
  <2>1. run.h \in DOMAIN Script[page].code
    BY <1>3 DEF Run
  <2> QED BY <1>2, <1>3, <2>1, CallsTyped
<1>5. CASE ui' # ui
  <2>1. PICK end \in Code(run.h).ok : ui' = Entered(then, After(ui, end))
    BY <1>3, <1>5
  <2>2. f \notin DOMAIN end
    BY <1>4 DEF Updates, Code
  <2>3. PICK state : state = After(ui, end)
    OBVIOUS
  <2>4. f \in DOMAIN state /\ state[f] = ui[f]
    BY <2>2, <2>3 DEF After
  <2>5. then = "" \/ f \notin DOMAIN Code(then).begin
    BY <1>4 DEF Updates, Code
  <2>6. Entered(then, state)[f] = state[f]
    BY <2>4, <2>5, FieldEntered
  <2> QED BY <2>1, <2>3, <2>4, <2>6
<1> QED BY <1>5

LEMMA FieldFail ==
  ASSUME Shape, NEW s \in Slots, Fail(s), NEW f, f \in DOMAIN ui,
         \A h \in DOMAIN Script[page].code : \A update \in Updates(page, h) : f \notin DOMAIN update
  PROVE  ui'[f] = ui[f]
<1>1. runs[s].h \in DOMAIN Script[page].code
  BY DEF Fail, Shape, Run
<1>2. ui' = ui \/ \E end \in Code(runs[s].h).err : ui' = After(ui, end)
  BY DEF Fail
<1>3. \A end \in Code(runs[s].h).err : f \notin DOMAIN end
  BY <1>1 DEF Updates, Code
<1> QED BY <1>2, <1>3 DEF After

(* What a control leaves of the data: it empties it, adds its change, or    *)
(* nothing.                                                                 *)
LEMMA PreparedForm ==
  ASSUME NEW h, NEW state, NEW r \in DOMAIN view
  PROVE  \/ Prepared(h, state)[r] = [of |-> Under(r, state), seen |-> {}]
         \/ Prepared(h, state)[r] = view[r] /\ r \notin Code(h).clears
         \/ /\ \E k \in Writes(h) : r \in Code(h).calls[k].on
            /\ Prepared(h, state)[r] = [of |-> view[r].of, seen |-> view[r].seen \cup {issued + 1}]
BY DEF Prepared

-----------------------------------------------------------------------------
(* What is shown of a keyed resource was asked for under the selection.     *)
ShownUnder(r) == view[r].seen # {} => view[r].of = Under(r, ui)
KeyedShown == \A r \in Data : Keyed(page, r) => ShownUnder(r)

LEMMA KeyedStates ==
  ASSUME page \in Pages, NEW r \in Data, Keyed(page, r), NEW h \in DOMAIN Script[page].code
  PROVE  LET field == Script[page].under[r]
         IN  /\ \A k \in DOMAIN Code(h).calls : r \in Code(h).calls[k].on =>
                  Code(h).calls[k].op = "get" /\ Code(h).of = field /\ (field = "" \/ Code(h).keyed)
             /\ field # "" =>
                  /\ \A update \in Updates(page, h) : field \notin DOMAIN update
                  /\ Code(h).pick = field => r \in Code(h).clears
                  /\ field \in DOMAIN Script[page].start
<1>1. Script[page].under[r] # "" => Script[page].under[r] \in DOMAIN Script[page].start
  BY SelectionAssumption DEF Selections, Pages, Data
<1> QED BY <1>1 DEF Keyed, Code

(* Where the selection stays, so does what is shown under it. *)
LEMMA UnderKept ==
  ASSUME NEW r \in Data, Script[page].under[r] # "" => ui'[Script[page].under[r]] = ui[Script[page].under[r]],
         page' = page
  PROVE  Under(r, ui') = Under(r, ui) /\ Under(r, ui)' = Under(r, ui')
BY DEF Under

LEMMA KeyedHeld ==
  ASSUME Shape, Fetched, NEW r \in Data, Keyed(page, r), ShownUnder(r), NEW s \in Slots, Busy(s)
  PROVE  Held(s, r).seen # {} => Held(s, r).of = Under(r, ui)
<1>1. PICK run : run = runs[s]
  OBVIOUS
<1>2. PICK field : field = Script[page].under[r]
  OBVIOUS
<1>3. /\ page \in Pages /\ run.h \in DOMAIN Script[page].code /\ run.at \in DOMAIN Code(run.h).calls
      /\ Asking(run) /\ Call(s) = Code(run.h).calls[run.at]
  BY <1>1 DEF Shape, Run, Fetched, Call
<1>4. \A k \in DOMAIN Code(run.h).calls : r \in Code(run.h).calls[k].on =>
        Code(run.h).calls[k].op = "get" /\ Code(run.h).of = field /\ (field = "" \/ Code(run.h).keyed)
  BY <1>2, <1>3, KeyedStates
<1>5. CASE Held(s, r) = view[r]
  BY <1>5 DEF ShownUnder
<1>6. CASE Held(s, r) # view[r]
  <2>1. r \in DOMAIN run.got /\ (Held(s, r) = Written(s, r) \/ Held(s, r) = Read(s, r))
    BY <1>1, <1>6 DEF Held
  <2>2. Held(s, r) = Read(s, r)
    BY <1>1, <1>3, <1>4, <1>6 DEF Held, IsWrite
  <2>3. Code(run.h).of = field /\ (field = "" \/ Code(run.h).keyed)
    BY <1>3, <1>4, <2>1 DEF Asking
  <2>4. Read(s, r).of = run.arg /\ ~(Code(run.h).keyed /\ ui[Code(run.h).of] # run.arg)
    BY <1>1, <1>6, <2>2 DEF Read
  <2>5. run.arg = Under(r, ui)
    BY <1>2, <1>3, <2>3, <2>4 DEF Under, Asking
  <2> QED BY <2>2, <2>4, <2>5
<1> QED BY <1>5, <1>6

LEMMA KeyedStart ==
  ASSUME Shape, Typed, NEW r \in Data, Keyed(page, r), ShownUnder(r),
         NEW h \in DOMAIN Script[page].code, Use(h) \/ Tick(h)
  PROVE  ShownUnder(r)'
<1>1. PICK update :
        /\ Start(h, update)
        /\ \A f \in DOMAIN update :
             \/ f \in DOMAIN Code(h).begin /\ update[f] = Code(h).begin[f]
             \/ f = Code(h).pick /\ f # "" /\ update[f] \in Chosen
  BY UseForm
<1>2. PICK field : field = Script[page].under[r]
  OBVIOUS
<1>3. PICK a : a = Code(h).also
  OBVIOUS
<1>4. PICK begun : begun = After(ui, update)
  OBVIOUS
<1>5. /\ page \in Pages /\ page' = page /\ ui' = Entered(a, begun) /\ view' = Prepared(h, ui')
      /\ r \in DOMAIN view /\ DOMAIN ui = DOMAIN Script[page].start
  <2>1. Start(h, update)
    BY <1>1
  <2> QED BY <1>3, <1>4, <2>1, StartForm DEF Shape, Typed, Fields
<1>6. \/ view'[r] = [of |-> Under(r, ui'), seen |-> {}]
      \/ view'[r] = view[r] /\ r \notin Code(h).clears
  <2>1. \A k \in Writes(h) : r \notin Code(h).calls[k].on
    BY <1>5, KeyedStates DEF Writes, IsWrite
  <2> QED BY <1>5, <2>1, PreparedForm
<1>7. ASSUME r \notin Code(h).clears, field # "" PROVE ui'[field] = ui[field]
  <2>1. /\ field \in DOMAIN ui /\ Code(h).pick # field
        /\ \A g \in DOMAIN Script[page].code : \A u \in Updates(page, g) : field \notin DOMAIN u
    BY <1>2, <1>5, <1>7, KeyedStates
  <2>2. field \notin DOMAIN update
    BY <1>1, <2>1 DEF Updates, Code
  <2>3. field \in DOMAIN begun /\ begun[field] = ui[field]
    BY <1>4, <2>1, <2>2 DEF After
  <2>4. a = "" \/ field \notin DOMAIN Code(a).begin
    BY <1>3, <1>5, <2>1, CallsTyped DEF Updates, Code
  <2>5. Entered(a, begun)[field] = begun[field]
    BY <2>3, <2>4, FieldEntered
  <2> QED BY <1>5, <2>3, <2>5
<1>8. Under(r, ui)' = Under(r, ui')
  BY <1>5 DEF Under
<1>9. CASE view'[r] = view[r] /\ r \notin Code(h).clears
  <2>1. Under(r, ui') = Under(r, ui)
    BY <1>2, <1>5, <1>7, <1>9, UnderKept
  <2> QED BY <1>8, <1>9, <2>1 DEF ShownUnder
<1> QED BY <1>6, <1>8, <1>9 DEF ShownUnder

LEMMA KeyedStep ==
  ASSUME Shape, Typed, Fetched, [Next]_vars, NEW r \in Data, Keyed(page, r), ShownUnder(r)
  PROVE  ShownUnder(r)'
<1>1. PICK field : field = Script[page].under[r]
  OBVIOUS
<1>2. page' = page /\ page \in Pages
  BY ShapeStep DEF Shape
<1>3. field # "" =>
        /\ field \in DOMAIN ui /\ field # "here"
        /\ \A h \in DOMAIN Script[page].code : \A update \in Updates(page, h) : field \notin DOMAIN update
  <2>1. field # "" => field # "here" /\ field \in DOMAIN Script[page].start
    BY <1>1, <1>2, SelectionAssumption DEF Selections, Pages, Data
  <2>2. \A h \in DOMAIN Script[page].code : field # "" => \A update \in Updates(page, h) : field \notin DOMAIN update
    BY <1>1, <1>2, KeyedStates
  <2> QED BY <2>1, <2>2 DEF Typed, Fields
<1>4. ASSUME field # "" => ui'[field] = ui[field], view'[r] = view[r] PROVE ShownUnder(r)'
  BY <1>1, <1>2, <1>4, UnderKept DEF ShownUnder
<1>5. ASSUME NEW h \in DOMAIN Script[page].code, Use(h) \/ Tick(h) PROVE ShownUnder(r)'
  BY <1>5, KeyedStart
<1>6. ASSUME NEW s \in Slots, NEW x \in Data, Serve(s, x) \/ Catch(s, x) PROVE ShownUnder(r)'
  <2>1. ui' = ui /\ view' = view
    BY <1>6, ServeForm, CatchForm
  <2> QED BY <1>4, <2>1
<1>7. ASSUME NEW s \in Slots, Answer(s) PROVE ShownUnder(r)'
  <2>1. Busy(s) /\ view'[r] = Held(s, r)
    BY <1>7, AnswerForm
  <2>2. view'[r].seen # {} => view'[r].of = Under(r, ui)
    BY <2>1, KeyedHeld
  <2>3. field # "" => ui'[field] = ui[field]
    BY <1>3, <1>7, FieldAnswer
  <2>4. Under(r, ui)' = Under(r, ui)
    BY <1>1, <1>2, <2>3, UnderKept
  <2> QED BY <2>2, <2>4 DEF ShownUnder
<1>8. ASSUME NEW s \in Slots, Fail(s) PROVE ShownUnder(r)'
  <2>1. field # "" => ui'[field] = ui[field]
    BY <1>3, <1>8, FieldFail
  <2>2. view' = view
    BY <1>8 DEF Fail
  <2> QED BY <1>4, <2>1, <2>2
<1>9. ASSUME NEW s \in Slots, Expel(s) PROVE ShownUnder(r)'
  <2>1. view' = view /\ (field # "" => ui'[field] = ui[field])
    BY <1>3, <1>9 DEF Expel
  <2> QED BY <1>4, <2>1
<1>10. ASSUME NEW x \in Data, Elsewhere(x) PROVE ShownUnder(r)'
  BY <1>4, <1>10 DEF Elsewhere
<1>11. ASSUME UNCHANGED vars PROVE ShownUnder(r)'
  BY <1>4, <1>11 DEF vars
<1> QED BY <1>5, <1>6, <1>7, <1>8, <1>9, <1>10, <1>11 DEF Next

(* Every answer to a keyed question is shown under the selection it was     *)
(* asked under, whatever is selected meanwhile, on every page.              *)
THEOREM KeyedShownHolds == Spec => []KeyedShown
<1>1. Init => KeyedShown
  BY DEF Init, KeyedShown, ShownUnder
<1>2. Shape /\ Typed /\ Fetched /\ KeyedShown /\ [Next]_vars => KeyedShown'
  <2> SUFFICES ASSUME Shape, Typed, Fetched, KeyedShown, [Next]_vars PROVE KeyedShown'
    OBVIOUS
  <2>1. page' = page
    BY ShapeStep
  <2>2. Data' = Data /\ \A r \in Data : Keyed(page, r)' <=> Keyed(page, r)
    BY <2>1 DEF Data, Keyed
  <2> QED BY <2>1, <2>2, KeyedStep DEF KeyedShown
<1> QED BY ShapeHolds, TypedInit, TypedStep, FetchedInit, FetchedStep, <1>1, <1>2, PTL DEF Spec

-----------------------------------------------------------------------------
(* What hides a resource while it is asked for: one handler at most is      *)
(* asking, with the flag set and for what is selected; otherwise what is    *)
(* shown is right or the page shows an error.                               *)
Reading(r, s) == Busy(s) /\ runs[s].h \in Readers(page, r)
Hides(r, flag) ==
  /\ \A s, q \in Slots : Reading(r, s) /\ Reading(r, q) => s = q
  /\ \A s \in Slots : Reading(r, s) => ui[flag] = TRUE /\ runs[s].arg = Under(r, ui)
  /\ ui.here => ui["error"] = TRUE \/ (\E s \in Slots : Reading(r, s)) \/ ShownUnder(r)

LEMMA HiddenFields ==
  ASSUME page \in Pages, NEW r \in Data, NEW flag, Hidden(page, r, flag)
  PROVE  LET field == Script[page].under[r]
         IN  /\ field # "" /\ field # flag /\ field # "error" /\ flag # "error"
             /\ {field, flag, "error"} \subseteq DOMAIN Script[page].start
<1>1. Script[page].under[r] # "" => Script[page].under[r] \in DOMAIN Script[page].start
  BY SelectionAssumption DEF Selections, Pages, Data
<1>2. PICK field : field = Script[page].under[r]
  OBVIOUS
<1>3. field \notin {"", flag, "error"} /\ flag # "error"
  BY <1>2 DEF Hidden
<1>4. {flag, "error"} \subseteq DOMAIN Script[page].start
  BY DEF Hidden
<1> QED BY <1>1, <1>2, <1>3, <1>4

LEMMA HiddenStates ==
  ASSUME page \in Pages, NEW r \in Data, NEW flag, Hidden(page, r, flag),
         NEW h \in DOMAIN Script[page].code
  PROVE  LET field == Script[page].under[r]
         IN  /\ Code(h).pick # flag /\ Code(h).pick # "error" /\ Code(h).next \notin Readers(page, r)
             /\ \A update \in Updates(page, h) :
                  /\ field \notin DOMAIN update
                  /\ "error" \in DOMAIN update => update["error"] = TRUE
                  /\ flag \in DOMAIN update => h \in Readers(page, r)
             /\ Code(h).pick = field => Code(h).also \in Readers(page, r)
             /\ Code(h).also \in Readers(page, r) =>
                  /\ h \notin Script[page].timer
                  /\ flag \in DOMAIN Script[page].shown[h] /\ TRUE \notin Script[page].shown[h][flag]
BY DEF Hidden, Code

LEMMA HiddenPick ==
  ASSUME NEW r \in Data, NEW flag, Hidden(page, r, flag), NEW h \in DOMAIN Script[page].code
  PROVE  Code(h).pick # flag /\ Code(h).pick # "error"
BY DEF Hidden, Code

LEMMA ReaderCall ==
  ASSUME page \in Pages, NEW r \in Data, NEW flag, Hidden(page, r, flag), NEW h \in Readers(page, r)
  PROVE  /\ Len(Code(h).calls) = 1 /\ DOMAIN Code(h).calls = {1}
         /\ Code(h).calls[1].op = "get" /\ Code(h).calls[1].soft = ""
<1>1. h \in DOMAIN Script[page].code
  BY DEF Readers
<1>2. Reader(page, r, flag, h)
  BY DEF Hidden
<1>3. DOMAIN Code(h).calls = {1} /\ DOMAIN Code(h).calls = 1..Len(Code(h).calls) /\ Len(Code(h).calls) \in Nat
  BY <1>1, <1>2, CallsTyped DEF Reader, Code
<1>4. Len(Code(h).calls) = 1
  <2>1. PICK n \in Nat : n = Len(Code(h).calls)
    BY <1>3
  <2>2. {1} = 1..n
    BY <1>3, <2>1
  <2>3. n \in 1..n \/ n = 0
    BY <2>1
  <2>4. 1 \in 1..n
    BY <2>2
  <2>5. n # 0
    BY <2>4
  <2>6. n \in {1}
    BY <2>2, <2>3, <2>5
  <2> QED BY <2>1, <2>6
<1>5. Code(h).calls[1].op = "get" /\ Code(h).calls[1].soft = ""
  BY <1>2 DEF Reader, Code
<1> QED BY <1>3, <1>4, <1>5

LEMMA HiddenReader ==
  ASSUME page \in Pages, NEW r \in Data, NEW flag, Hidden(page, r, flag), NEW h \in Readers(page, r)
  PROVE  /\ h # "" /\ h \in DOMAIN Script[page].code /\ h \notin DOMAIN Script[page].shown \cup Script[page].timer
         /\ DOMAIN Code(h).when = {} /\ Code(h).of = Script[page].under[r]
         /\ flag \in DOMAIN Code(h).begin /\ Code(h).begin[flag] = TRUE
         /\ DOMAIN Code(h).calls = {1} /\ ~Code(h).keyed /\ Code(h).calls # <<>> /\ Len(Code(h).calls) = 1
         /\ Code(h).calls[1].op = "get" /\ Code(h).calls[1].soft = "" /\ ~Code(h).calls[1].late
         /\ r \in Code(h).calls[1].on
         /\ \A update \in Code(h).err : "error" \in DOMAIN update
<1>1. h \in DOMAIN Script[page].code /\ \E k \in DOMAIN Code(h).calls : r \in Code(h).calls[k].on
  BY DEF Readers, Code
<1>2. Reader(page, r, flag, h)
  BY DEF Hidden
<1>3. DOMAIN Code(h).calls = {1}
  BY ReaderCall
<1>4. Len(Code(h).calls) = 1
  BY ReaderCall
<1>5. Code(h).calls # <<>>
  <2>1. DOMAIN <<>> = {}
    OBVIOUS
  <2> QED BY <1>3, <2>1
<1>6. r \in Code(h).calls[1].on
  BY <1>1, <1>3
<1> QED BY <1>1, <1>2, <1>3, <1>4, <1>5, <1>6 DEF Reader, Code

LEMMA HiddenBegin ==
  ASSUME page \in Pages, NEW r \in Data, NEW flag, Hidden(page, r, flag),
         NEW h, h \in DOMAIN Script[page].code
  PROVE  /\ Script[page].under[r] \notin DOMAIN Code(h).begin
         /\ "error" \in DOMAIN Code(h).begin => Code(h).begin["error"] = TRUE
         /\ flag \in DOMAIN Code(h).begin => h \in Readers(page, r)
<1>1. Code(h).begin \in Updates(page, h)
  BY DEF Updates, Code
<1> QED BY <1>1, HiddenStates

LEMMA HiddenEnd ==
  ASSUME page \in Pages, NEW r \in Data, NEW flag, Hidden(page, r, flag),
         NEW h, h \in DOMAIN Script[page].code, NEW end, end \in Code(h).ok \cup Code(h).err
  PROVE  /\ Script[page].under[r] \notin DOMAIN end
         /\ "error" \in DOMAIN end => end["error"] = TRUE
         /\ flag \in DOMAIN end => h \in Readers(page, r)
<1>1. end \in Updates(page, h)
  BY DEF Updates, Code
<1> QED BY <1>1, HiddenStates

(* A field that is only ever given one value keeps it. *)
LEMMA FieldOnly ==
  ASSUME NEW state, NEW f \in DOMAIN state, NEW value, state[f] = value, NEW update,
         f \in DOMAIN update => update[f] = value
  PROVE  f \in DOMAIN After(state, update) /\ After(state, update)[f] = value
BY DEF After

LEMMA EnteredOnly ==
  ASSUME NEW h, NEW state, NEW f \in DOMAIN state, NEW value, state[f] = value,
         h = "" \/ f \notin DOMAIN Code(h).begin \/ Code(h).begin[f] = value
  PROVE  f \in DOMAIN Entered(h, state) /\ Entered(h, state)[f] = value
BY DEF Entered, Goes, After

(* What an answer does to the state of the page. *)
LEMMA AnswerUi ==
  ASSUME Shape, NEW s \in Slots, Answer(s)
  PROVE  LET h == runs[s].h
             then == Code(h).next
         IN  /\ h \in DOMAIN Script[page].code /\ then \in DOMAIN Script[page].code \cup {""}
             /\ ui' = ui \/ \E end \in Code(h).ok : ui.here /\ ui' = Entered(then, After(ui, end))
<1>1. PICK h : h = runs[s].h
  OBVIOUS
<1>2. PICK then : then = Code(h).next
  OBVIOUS
<1>3. /\ page \in Pages /\ Run(runs[s])
      /\ \/ ui' = ui
         \/ \E end \in Code(h).ok :
              LET state == IF ui.here THEN After(ui, end) ELSE ui
              IN  ui' = IF ui.here THEN Entered(then, state) ELSE ui
  BY <1>1, <1>2, AnswerForm
<1>4. h \in DOMAIN Script[page].code
  BY <1>1, <1>3 DEF Run
<1>5. then \in DOMAIN Script[page].code \cup {""}
  BY <1>2, <1>3, <1>4, CallsTyped
<1>6. ui' = ui \/ \E end \in Code(h).ok : ui.here /\ ui' = Entered(then, After(ui, end))
  BY <1>3
<1> QED BY <1>1, <1>2, <1>4, <1>5, <1>6

LEMMA HiddenStart ==
  ASSUME Shape, Typed, NEW r \in Data, NEW flag, Hidden(page, r, flag), Hides(r, flag),
         NEW h \in DOMAIN Script[page].code, Use(h) \/ Tick(h)
  PROVE  Hides(r, flag)'
<1>1. PICK update :
        /\ Start(h, update)
        /\ \A f \in DOMAIN update :
             \/ f \in DOMAIN Code(h).begin /\ update[f] = Code(h).begin[f]
             \/ f = Code(h).pick /\ f # "" /\ update[f] \in Chosen
  BY UseForm
<1>2. PICK field : field = Script[page].under[r]
  OBVIOUS
<1>3. PICK a : a = Code(h).also
  OBVIOUS
<1>4. PICK begun : begun = After(ui, update)
  OBVIOUS
<1>5. PICK st : st = Started(h, begun)
  OBVIOUS
<1>6. /\ page \in Pages /\ page' = page /\ issued \in Nat /\ ui' = Entered(a, begun) /\ view' = Prepared(h, ui')
      /\ r \in DOMAIN view /\ DOMAIN ui = DOMAIN Script[page].start /\ ui.here
      /\ Len(st) <= Cardinality(Idle)
      /\ \A s \in Slots :
           \/ runs'[s] = runs[s]
           \/ /\ s \in Idle /\ Place(s) \in 1..Len(st)
              /\ runs'[s] = Begun(st[Place(s)], ui', view, Base(st, Place(s)))
      /\ \A s \in Idle : Place(s) \in 1..Len(st) =>
           runs'[s] = Begun(st[Place(s)], ui', view, Base(st, Place(s)))
  <2>1. Start(h, update)
    BY <1>1
  <2> QED BY <1>3, <1>4, <1>5, <2>1, StartForm DEF Shape, Typed, Fields
<1>15. page \in Pages
  BY <1>6
<1>7. h \notin Readers(page, r)
  BY <1>6, HiddenReader DEF Use, Tick, Enabled
<1>8. /\ field # "" /\ field # flag /\ field # "error" /\ flag # "error"
      /\ {field, flag, "error"} \subseteq DOMAIN ui
  BY <1>2, <1>6, HiddenFields
<1>9. a \in DOMAIN Script[page].code \cup {""}
  BY <1>3, <1>6, CallsTyped
<1>10. Under(r, ui') = ui'[field] /\ Under(r, ui)' = ui'[field] /\ Under(r, ui) = ui[field]
  BY <1>2, <1>6, <1>8 DEF Under
<1>11. Readers(page, r)' = Readers(page, r)
  BY <1>6 DEF Readers
<1>12. ui["error"] = TRUE => ui'["error"] = TRUE
  <2> SUFFICES ASSUME ui["error"] = TRUE PROVE ui'["error"] = TRUE
    OBVIOUS
  <2>1. "error" \in DOMAIN update => update["error"] = TRUE
    <3>1. Code(h).pick # "error"
      BY HiddenPick
    <3>2. "error" \in DOMAIN Code(h).begin => Code(h).begin["error"] = TRUE
      BY <1>6, HiddenBegin
    <3> QED BY <1>1, <3>1, <3>2
  <2>2. "error" \in DOMAIN begun /\ begun["error"] = TRUE
    BY <1>4, <1>8, <2>1, FieldOnly
  <2>3. a = "" \/ "error" \notin DOMAIN Code(a).begin \/ Code(a).begin["error"] = TRUE
    BY <1>6, <1>9, HiddenBegin
  <2>4. Entered(a, begun)["error"] = TRUE
    <3>1. CASE Goes(a, begun)
      <4>1. Entered(a, begun) = After(begun, Code(a).begin) /\ a # ""
        BY <3>1 DEF Entered, Goes
      <4>2. "error" \in DOMAIN Code(a).begin => Code(a).begin["error"] = TRUE
        BY <2>3, <4>1
      <4> QED BY <2>2, <4>1, <4>2 DEF After
    <3>2. CASE ~Goes(a, begun)
      BY <2>2, <3>2 DEF Entered
    <3> QED BY <3>1, <3>2
  <2> QED BY <1>6, <2>4
<1>13. CASE a \notin Readers(page, r)
  <2>1. Code(h).pick # field
    BY <1>2, <1>3, <1>6, <1>13, HiddenStates
  <2>2. field \notin DOMAIN update /\ flag \notin DOMAIN update
    <3>1. Code(h).pick # flag
      BY HiddenPick
    <3>2. field \notin DOMAIN Code(h).begin /\ flag \notin DOMAIN Code(h).begin
      BY <1>2, <1>6, <1>7, HiddenBegin
    <3> QED BY <1>1, <2>1, <3>1, <3>2
  <2>3. /\ field \in DOMAIN begun /\ begun[field] = ui[field]
        /\ flag \in DOMAIN begun /\ begun[flag] = ui[flag]
    BY <1>4, <1>8, <2>2 DEF After
  <2>4. a = "" \/ (field \notin DOMAIN Code(a).begin /\ flag \notin DOMAIN Code(a).begin)
    BY <1>2, <1>6, <1>9, <1>13, HiddenBegin
  <2>5. ui'[field] = ui[field] /\ ui'[flag] = ui[flag]
    <3>1. Entered(a, begun)[field] = begun[field]
      <4>1. field \in DOMAIN begun /\ (a = "" \/ field \notin DOMAIN Code(a).begin)
        BY <2>3, <2>4
      <4> QED BY <4>1, FieldEntered
    <3>2. Entered(a, begun)[flag] = begun[flag]
      <4>1. flag \in DOMAIN begun /\ (a = "" \/ flag \notin DOMAIN Code(a).begin)
        BY <2>3, <2>4
      <4> QED BY <4>1, FieldEntered
    <3> QED BY <1>6, <2>3, <3>1, <3>2
  <2>6. \A i \in 1..Len(st) : st[i] \notin Readers(page, r)
    <3>1. \A i \in 1..Len(st) : st[i] = h \/ st[i] = a
      BY <1>3, <1>5, <1>6, Bases
    <3> QED BY <1>7, <1>13, <3>1
  <2>7. \A s \in Slots : Reading(r, s)' <=> Reading(r, s)
    <3> SUFFICES ASSUME NEW s \in Slots PROVE Reading(r, s)' <=> Reading(r, s)
      OBVIOUS
    <3>1. CASE runs'[s] = runs[s]
      BY <1>11, <3>1 DEF Reading, Busy
    <3>2. CASE /\ s \in Idle /\ Place(s) \in 1..Len(st)
               /\ runs'[s] = Begun(st[Place(s)], ui', view, Base(st, Place(s)))
      <4>1. runs'[s].h = st[Place(s)]
        BY <3>2, BegunNamed
      <4> QED BY <1>11, <2>6, <3>2, <4>1 DEF Reading, Idle
    <3> QED BY <1>6, <3>1, <3>2
  <2>8. \A s \in Slots : Reading(r, s) => runs'[s] = runs[s]
    BY <1>6 DEF Reading, Idle
  <2>9. ShownUnder(r) => ShownUnder(r)'
    <3>1. \A k \in Writes(h) : r \notin Code(h).calls[k].on
      BY <1>7 DEF Readers, Writes, Code
    <3>2. view'[r] = view[r] \/ view'[r] = [of |-> Under(r, ui'), seen |-> {}]
      BY <1>6, <3>1, PreparedForm
    <3> QED BY <1>10, <2>5, <3>2 DEF ShownUnder
  <2> QED BY <1>6, <1>10, <1>12, <2>5, <2>7, <2>8, <2>9 DEF Hides, Slots
<1>14. CASE a \in Readers(page, r)
  <2>1. /\ a # "" /\ a \in DOMAIN Script[page].code /\ DOMAIN Code(a).when = {} /\ Code(a).of = field
        /\ flag \in DOMAIN Code(a).begin /\ Code(a).begin[flag] = TRUE /\ Code(a).calls # <<>>
    BY <1>2, <1>6, <1>14, HiddenReader
  <2>2. h \notin Script[page].timer /\ flag \in DOMAIN Script[page].shown[h] /\ TRUE \notin Script[page].shown[h][flag]
    BY <1>3, <1>6, <1>14, HiddenStates
  <2>3. ui[flag] # TRUE
    BY <2>2 DEF Use, Tick, Enabled
  <2>4. \A s \in Slots : ~Reading(r, s)
    BY <2>3 DEF Hides
  <2>5. Goes(a, begun)
    BY <2>1 DEF Goes
  <2>6. ui'[flag] = TRUE
    <3>1. flag \in DOMAIN begun
      BY <1>4, <1>8 DEF After
    <3> QED BY <1>6, <2>1, <2>5, <3>1 DEF Entered, After
  <2>7. PICK i \in 1..Len(st) : st[i] = a
    <3>1. PICK called : called = Calls(Code(h).also, begun)
      OBVIOUS
    <3>2. called = <<a>>
      BY <1>3, <2>1, <2>5, <3>1 DEF Calls
    <3>3. called # <<>>
      BY <3>2
    <3>4. \/ Len(st) = 1 /\ st[1] = a
          \/ Len(st) = 2 /\ st[2] = a
      BY <1>3, <1>5, <1>6, <3>1, <3>3, StartedForms
    <3> QED BY <3>4
  <2>8. \A j \in 1..Len(st) : st[j] \in Readers(page, r) => j = i
    <3>1. h # a
      BY <1>7, <1>14
    <3>2. Len(st) \in 0..2 /\ \A j \in 1..Len(st) : (j = 1 /\ st[j] = h) \/ st[j] = a
      BY <1>3, <1>5, <1>6, Bases
    <3>3. \/ Len(st) = 1 \/ Len(st) = 0
          \/ Len(st) = 2 /\ st[1] = h
      BY <1>3, <1>5, <1>6, StartedForms
    <3> QED BY <1>7, <2>7, <3>1, <3>2, <3>3
  <2>9. ASSUME NEW s \in Slots, Reading(r, s)'
        PROVE  s \in Idle /\ Place(s) = i /\ runs'[s].arg = ui'[field]
    <3>1. /\ s \in Idle /\ Place(s) \in 1..Len(st)
          /\ runs'[s] = Begun(st[Place(s)], ui', view, Base(st, Place(s)))
      BY <1>6, <1>11, <2>4, <2>9 DEF Reading, Busy
    <3>2. runs'[s].h = st[Place(s)]
      BY <3>1, BegunNamed
    <3>3. st[Place(s)] \in Readers(page, r)
      BY <1>11, <2>9, <3>2 DEF Reading
    <3>4. Place(s) = i
      BY <2>8, <3>1, <3>3
    <3>5. runs'[s] = Begun(a, ui', view, Base(st, i))
      BY <2>7, <3>1, <3>4
    <3>6. runs'[s].arg = ui'[field]
      BY <1>8, <2>1, <3>5, BegunAsking
    <3> QED BY <3>1, <3>4, <3>6
  <2>10. \E s \in Slots : Reading(r, s)'
    <3>1. Len(st) \in 0..2
      BY <1>5, <1>6, Bases
    <3>2. PICK s \in Idle : Place(s) = i
      BY <1>6, <3>1, Placed
    <3>3. runs'[s] = Begun(a, ui', view, Base(st, i)) /\ s \in Slots
      BY <1>6, <2>7, <3>2 DEF Idle
    <3>4. Run(runs'[s]) /\ runs'[s].h = a
      <4>1. PICK base : base = Base(st, i)
        OBVIOUS
      <4>2. a \in DOMAIN Script[page].code /\ Code(a).calls # <<>>
        BY <2>1
      <4>3. PICK state, run : state = ui' /\ run = Begun(a, state, view, base)
        OBVIOUS
      <4>4. run.h = a
        BY <4>3, BegunNamed
      <4>5. Run(run)
        BY <1>15, <4>2, <4>3, BegunRuns
      <4> QED BY <3>3, <4>1, <4>3, <4>4, <4>5
    <3>5. Reading(r, s)'
      BY <1>11, <1>14, <3>4, RunBusy DEF Reading, Busy
    <3> QED BY <3>3, <3>5
  <2>11. \A s, q \in Slots : Reading(r, s)' /\ Reading(r, q)' => s = q
    <3> SUFFICES ASSUME NEW s \in Slots, NEW q \in Slots, Reading(r, s)', Reading(r, q)' PROVE s = q
      OBVIOUS
    <3>1. s \in Idle /\ q \in Idle /\ Place(s) = Place(q) /\ Place(s) \in Nat
      BY <2>9, Places
    <3>2. s \in Int /\ q \in Int
      BY ConsoleAssumption DEF Slots
    <3> QED BY <3>1, <3>2, Places
  <2> QED BY <1>10, <2>6, <2>9, <2>10, <2>11 DEF Hides, Slots
<1> QED BY <1>13, <1>14

LEMMA HiddenField ==
  ASSUME page \in Pages, NEW r \in Data, NEW flag, Hidden(page, r, flag)
  PROVE  \A h \in DOMAIN Script[page].code : \A update \in Updates(page, h) : Script[page].under[r] \notin DOMAIN update
BY DEF Hidden

(* The answer to a handler that does not ask for r: flag and selection stay,*)
(* and an error is not taken back.                                          *)
LEMMA HiddenUi ==
  ASSUME Shape, Typed, NEW r \in Data, NEW flag, Hidden(page, r, flag), NEW s \in Slots, Answer(s)
  PROVE  /\ runs[s].h \notin Readers(page, r) => ui'[flag] = ui[flag]
         /\ ui["error"] = TRUE => ui'["error"] = TRUE
         /\ ~ui.here => ~ui'.here
<1>1. PICK h : h = runs[s].h
  OBVIOUS
<1>2. PICK then : then = Code(h).next
  OBVIOUS
<1>3. page \in Pages /\ {flag, "error"} \subseteq DOMAIN ui
  BY HiddenFields DEF Shape, Typed, Fields
<1>4. h \in DOMAIN Script[page].code /\ then \in DOMAIN Script[page].code \cup {""}
  BY <1>1, <1>2, AnswerUi
<1>5. CASE ui' = ui
  BY <1>5
<1>6. ASSUME NEW end \in Code(h).ok, ui.here, ui' = Entered(then, After(ui, end))
      PROVE  /\ h \notin Readers(page, r) => ui'[flag] = ui[flag]
             /\ ui["error"] = TRUE => ui'["error"] = TRUE
  <2>1. then \notin Readers(page, r)
    BY <1>2, <1>3, <1>4, HiddenStates
  <2>2. /\ "error" \in DOMAIN end => end["error"] = TRUE
        /\ flag \in DOMAIN end => h \in Readers(page, r)
    BY <1>3, <1>4, <1>6, HiddenEnd
  <2>3. \/ then = ""
        \/ /\ "error" \notin DOMAIN Code(then).begin \/ Code(then).begin["error"] = TRUE
           /\ flag \notin DOMAIN Code(then).begin
    BY <1>3, <1>4, <2>1, HiddenBegin
  <2>4. PICK state : state = After(ui, end)
    OBVIOUS
  <2>5. ui' = Entered(then, state)
    BY <1>6, <2>4
  <2>6. ASSUME h \notin Readers(page, r) PROVE ui'[flag] = ui[flag]
    <3>1. flag \in DOMAIN state /\ state[flag] = ui[flag]
      BY <1>3, <2>2, <2>4, <2>6 DEF After
    <3>2. then = "" \/ flag \notin DOMAIN Code(then).begin
      BY <2>3
    <3>3. Goes(then, state) => then # ""
      BY DEF Goes
    <3>4. Entered(then, state)[flag] = state[flag]
      BY <3>1, <3>2, <3>3 DEF Entered, After
    <3> QED BY <2>5, <3>1, <3>4
  <2>7. ASSUME ui["error"] = TRUE PROVE ui'["error"] = TRUE
    <3>1. "error" \in DOMAIN state /\ state["error"] = TRUE
      BY <1>3, <2>2, <2>4, <2>7 DEF After
    <3>2. Goes(then, state) => then # ""
      BY DEF Goes
    <3>3. CASE Goes(then, state)
      <4>1. Entered(then, state) = After(state, Code(then).begin)
        BY <3>3 DEF Entered
      <4>2. "error" \notin DOMAIN Code(then).begin \/ Code(then).begin["error"] = TRUE
        BY <2>3, <3>2, <3>3
      <4> QED BY <2>5, <3>1, <4>1, <4>2 DEF After
    <3>4. CASE ~Goes(then, state)
      BY <2>5, <3>1, <3>4 DEF Entered
    <3> QED BY <3>3, <3>4
  <2> QED BY <2>6, <2>7
<1>7. ui' = ui \/ \E end \in Code(h).ok : ui.here /\ ui' = Entered(then, After(ui, end))
  BY <1>1, <1>2, AnswerUi
<1> QED BY <1>1, <1>5, <1>6, <1>7

LEMMA HiddenUnder ==
  ASSUME Shape, Typed, NEW r \in Data, NEW flag, Hidden(page, r, flag), page' = page,
         ui'[Script[page].under[r]] = ui[Script[page].under[r]]
  PROVE  /\ Under(r, ui) = ui[Script[page].under[r]] /\ Under(r, ui)' = Under(r, ui)
         /\ Readers(page, r)' = Readers(page, r)
<1>1. Script[page].under[r] # ""
  BY HiddenFields DEF Shape
<1> QED BY <1>1 DEF Under, Readers

(* Steps that leave what asks for r alone. *)
LEMMA HiddenKept ==
  ASSUME Shape, Typed, NEW r \in Data, NEW flag, Hidden(page, r, flag), Hides(r, flag), page' = page,
         view'[r] = view[r], ui'[Script[page].under[r]] = ui[Script[page].under[r]],
         \A s \in Slots : Reading(r, s)' <=> Reading(r, s),
         \A s \in Slots : Reading(r, s) => runs'[s].arg = runs[s].arg /\ ui'[flag] = ui[flag],
         ui["error"] = TRUE => ui'["error"] = TRUE, ~ui.here => ~ui'.here
  PROVE  Hides(r, flag)'
<1>1. Under(r, ui)' = Under(r, ui)
  BY HiddenUnder
<1>2. ShownUnder(r)' <=> ShownUnder(r)
  BY <1>1 DEF ShownUnder
<1>3. Slots' = Slots
  BY DEF Slots
<1> QED BY <1>1, <1>2, <1>3 DEF Hides

LEMMA HiddenAnswer ==
  ASSUME Shape, Typed, Fetched, NEW r \in Data, NEW flag, Hidden(page, r, flag), Hides(r, flag),
         NEW s \in Slots, Answer(s)
  PROVE  Hides(r, flag)'
<1>1. PICK run : run = runs[s]
  OBVIOUS
<1>2. PICK field : field = Script[page].under[r]
  OBVIOUS
<1>3. PICK then : then = Code(run.h).next
  OBVIOUS
<1>4. PICK got : got = IF Call(s).late THEN run.got ELSE <<>>
  OBVIOUS
<1>5. /\ page \in Pages /\ page' = page /\ Busy(s) /\ Run(run) /\ Served(s)
      /\ view'[r] = Held(s, r)
      /\ \A q \in Slots \ {s} : runs'[q] = runs[q] \/ (runs'[q] = Free /\ runs[q].h = then)
      /\ \/ run.at < Len(Code(run.h).calls) /\ runs'[s] = Onward(run, got) /\ DOMAIN got \subseteq Data
         \/ run.at = Len(Code(run.h).calls) /\ (runs'[s] = Free \/ runs'[s] = Begun(then, ui', view', issued))
  BY <1>1, <1>3, <1>4, AnswerForm
<1>6. Asking(run)
  BY <1>1, <1>5 DEF Fetched
<1>7. run.h \in DOMAIN Script[page].code /\ then \notin Readers(page, r)
  <2>1. run.h \in DOMAIN Script[page].code
    BY <1>5 DEF Run
  <2> QED BY <1>3, <1>5, <2>1, HiddenStates
<1>8. field \in DOMAIN ui
  BY <1>2, <1>5, HiddenFields DEF Typed, Fields
<1>9. ui'[field] = ui[field]
  <2>1. \A h \in DOMAIN Script[page].code : \A update \in Updates(page, h) : field \notin DOMAIN update
    BY <1>2, <1>5, HiddenField
  <2> QED BY <1>8, <2>1, FieldAnswer
<1>10. /\ Under(r, ui) = ui[field] /\ Under(r, ui)' = Under(r, ui) /\ Readers(page, r)' = Readers(page, r)
  BY <1>2, <1>5, <1>9, HiddenUnder
<1>11. runs'[s] = Onward(run, got) \/ runs'[s] = Free \/ runs'[s] = Begun(then, ui', view', issued)
  BY <1>5
<1>12. ASSUME NEW q \in Slots \ {s} PROVE Reading(r, q)' <=> Reading(r, q)
  <2>1. CASE runs'[q] = runs[q]
    BY <1>10, <2>1 DEF Reading, Busy
  <2>2. CASE runs'[q] = Free /\ runs[q].h = then
    BY <1>7, <1>10, <2>2 DEF Reading, Busy
  <2> QED BY <1>5, <2>1, <2>2
<1>13. ASSUME NEW q \in Slots \ {s}, Reading(r, q) PROVE runs'[q] = runs[q]
  BY <1>5, <1>7, <1>13 DEF Reading
<1>14. Begun(then, ui', view', issued).h = then
  BY BegunNamed
<1>15. CASE run.h \notin Readers(page, r)
  <2>1. ~Reading(r, s)
    BY <1>1, <1>15 DEF Reading
  <2>2. ~Reading(r, s)'
    <3>1. CASE run.at < Len(Code(run.h).calls) /\ runs'[s] = Onward(run, got) /\ DOMAIN got \subseteq Data
      <4>1. Onward(run, got).h = run.h
        BY <1>5, <3>1, OnwardRuns
      <4> QED BY <1>10, <1>15, <3>1, <4>1 DEF Reading
    <3>2. CASE runs'[s] = Free
      BY <3>2 DEF Reading, Busy
    <3>3. CASE runs'[s] = Begun(then, ui', view', issued)
      BY <1>7, <1>10, <1>14, <3>3 DEF Reading
    <3> QED BY <1>5, <3>1, <3>2, <3>3
  <2>3. r \notin DOMAIN run.got
    BY <1>6, <1>7, <1>15 DEF Asking, Readers, Code
  <2>4. view'[r] = view[r]
    BY <1>1, <1>5, <2>3 DEF Held
  <2>5. /\ ui'[flag] = ui[flag] /\ (ui["error"] = TRUE => ui'["error"] = TRUE) /\ (~ui.here => ~ui'.here)
    BY <1>1, <1>15, HiddenUi
  <2>6. \A q \in Slots : Reading(r, q)' <=> Reading(r, q)
    BY <1>12, <2>1, <2>2
  <2>7. \A q \in Slots : Reading(r, q) => runs'[q].arg = runs[q].arg /\ ui'[flag] = ui[flag]
    BY <1>13, <2>1, <2>5
  <2>8. ui'[Script[page].under[r]] = ui[Script[page].under[r]]
    BY <1>2, <1>9
  <2> QED BY <1>5, <2>4, <2>5, <2>6, <2>7, <2>8, HiddenKept
<1>16. CASE run.h \in Readers(page, r)
  <2>1. /\ Len(Code(run.h).calls) = 1 /\ DOMAIN Code(run.h).calls = {1} /\ ~Code(run.h).keyed
        /\ Code(run.h).calls[1].op = "get" /\ Code(run.h).calls[1].soft = "" /\ ~Code(run.h).calls[1].late
        /\ r \in Code(run.h).calls[1].on
    <3>1. PICK h : h = run.h
      OBVIOUS
    <3>2. page \in Pages /\ h \in Readers(page, r)
      BY <1>5, <1>16, <3>1
    <3>3. /\ Len(Code(h).calls) = 1 /\ DOMAIN Code(h).calls = {1} /\ ~Code(h).keyed
          /\ Code(h).calls[1].op = "get" /\ Code(h).calls[1].soft = "" /\ ~Code(h).calls[1].late
          /\ r \in Code(h).calls[1].on
      <4>1. Len(Code(h).calls) = 1 /\ DOMAIN Code(h).calls = {1}
        BY <3>2, ReaderCall
      <4>2. ~Code(h).keyed /\ ~Code(h).calls[1].late
        BY <3>2, HiddenReader
      <4>3. Code(h).calls[1].op = "get" /\ Code(h).calls[1].soft = ""
        BY <3>2, ReaderCall
      <4>4. r \in Code(h).calls[1].on
        BY <3>2, HiddenReader
      <4> QED BY <4>1, <4>2, <4>3, <4>4
    <3> QED BY <3>1, <3>3
  <2>2. run.at = 1
    BY <1>5, <2>1 DEF Run
  <2>3. Reading(r, s)
    BY <1>1, <1>5, <1>16 DEF Reading
  <2>4. run.arg = ui[field]
    BY <1>1, <1>10, <2>3 DEF Hides
  <2>5. \A q \in Slots : ~Reading(r, q)'
    <3>1. ~Reading(r, s)'
      <4>1. runs'[s] = Free \/ runs'[s] = Begun(then, ui', view', issued)
        <5>1. ~(run.at < Len(Code(run.h).calls))
          <6>1. ~(1 < 1)
            OBVIOUS
          <6> QED BY <2>1, <2>2, <6>1
        <5> QED BY <1>5, <5>1
      <4>2. CASE runs'[s] = Free
        BY <4>2 DEF Reading, Busy
      <4>3. CASE runs'[s] = Begun(then, ui', view', issued)
        BY <1>7, <1>10, <1>14, <4>3 DEF Reading
      <4> QED BY <4>1, <4>2, <4>3
    <3>2. \A q \in Slots \ {s} : ~Reading(r, q)
      BY <2>3 DEF Hides
    <3> QED BY <1>12, <3>1, <3>2
  <2>6. ui.here => ShownUnder(r)'
    <3> SUFFICES ASSUME ui.here PROVE ShownUnder(r)'
      OBVIOUS
    <3>1. Call(s) = Code(run.h).calls[1]
      BY <1>1, <2>2 DEF Call
    <3>2. r \in DOMAIN run.got
      BY <1>1, <1>5, <2>1, <3>1 DEF Served
    <3>3. Held(s, r) = Read(s, r)
      BY <1>1, <2>1, <3>1, <3>2 DEF Held, IsWrite
    <3>4. Read(s, r).of = run.arg
      BY <1>1, <2>1, <3>1 DEF Read
    <3> QED BY <1>5, <1>10, <2>4, <3>3, <3>4 DEF ShownUnder
  <2>7. ~ui.here => ~ui'.here
    BY HiddenUi
  <2> QED BY <2>5, <2>6, <2>7 DEF Hides, Slots
<1> QED BY <1>15, <1>16

LEMMA HiddenFail ==
  ASSUME Shape, Typed, NEW r \in Data, NEW flag, Hidden(page, r, flag), Hides(r, flag),
         NEW s \in Slots, Fail(s)
  PROVE  Hides(r, flag)'
<1>1. PICK h : h = runs[s].h
  OBVIOUS
<1>2. PICK field : field = Script[page].under[r]
  OBVIOUS
<1>3. /\ page \in Pages /\ page' = page /\ view' = view /\ Busy(s) /\ h \in DOMAIN Script[page].code
      /\ runs' = [runs EXCEPT ![s] = Free] /\ DOMAIN runs = Slots
      /\ IF ui.here THEN \E end \in Code(h).err : ui' = After(ui, end) ELSE ui' = ui
      /\ DOMAIN ui = DOMAIN Script[page].start
  BY <1>1 DEF Fail, Shape, Run, Typed, Fields
<1>4. {field, flag, "error"} \subseteq DOMAIN ui
  BY <1>2, <1>3, HiddenFields
<1>5. ui'[field] = ui[field]
  <2>1. \A g \in DOMAIN Script[page].code : \A update \in Updates(page, g) : field \notin DOMAIN update
    BY <1>2, <1>3, HiddenField
  <2> QED BY <1>4, <2>1, FieldFail
<1>6. Under(r, ui)' = Under(r, ui) /\ Readers(page, r)' = Readers(page, r)
  BY <1>2, <1>3, <1>5, HiddenUnder
<1>7. ~Reading(r, s)' /\ runs'[s] = Free /\ \A q \in Slots \ {s} : runs'[q] = runs[q]
  BY <1>3 DEF Reading, Busy
<1>8. \A q \in Slots \ {s} : Reading(r, q)' <=> Reading(r, q)
  BY <1>6, <1>7 DEF Reading, Busy
<1>9. ~ui.here => ui' = ui
  BY <1>3
<1>10. ASSUME NEW end \in Code(h).err, ui' = After(ui, end)
       PROVE  /\ ui["error"] = TRUE => ui'["error"] = TRUE
              /\ h \notin Readers(page, r) => ui'[flag] = ui[flag]
              /\ "error" \in DOMAIN end => ui'["error"] = TRUE
  <2>1. /\ "error" \in DOMAIN end => end["error"] = TRUE
        /\ flag \in DOMAIN end => h \in Readers(page, r)
    BY <1>3, <1>10, HiddenEnd
  <2> QED BY <1>4, <1>10, <2>1 DEF After
<1>11. /\ ui["error"] = TRUE => ui'["error"] = TRUE
       /\ h \notin Readers(page, r) => ui'[flag] = ui[flag]
  BY <1>3, <1>10
<1>12. CASE h \notin Readers(page, r)
  <2>1. ~Reading(r, s)
    BY <1>1, <1>12 DEF Reading
  <2>2. \A q \in Slots : Reading(r, q)' <=> Reading(r, q)
    BY <1>7, <1>8, <2>1
  <2>3. \A q \in Slots : Reading(r, q) => runs'[q].arg = runs[q].arg /\ ui'[flag] = ui[flag]
    BY <1>7, <1>11, <1>12, <2>1
  <2>4. view'[r] = view[r] /\ page' = page /\ ui'[Script[page].under[r]] = ui[Script[page].under[r]]
    BY <1>2, <1>3, <1>5
  <2>5. ~ui.here => ~ui'.here
    BY <1>9
  <2> QED BY <1>11, <2>2, <2>3, <2>4, <2>5, HiddenKept
<1>13. CASE h \in Readers(page, r)
  <2>1. Reading(r, s)
    BY <1>1, <1>3, <1>13 DEF Reading
  <2>2. \A q \in Slots : ~Reading(r, q)'
    BY <1>7, <1>8, <2>1 DEF Hides
  <2>3. \A update \in Code(h).err : "error" \in DOMAIN update
    BY <1>3, <1>13, HiddenReader
  <2>4. ui.here => ui'["error"] = TRUE
    BY <1>3, <1>10, <2>3
  <2> QED BY <1>9, <2>2, <2>4 DEF Hides, Slots
<1> QED BY <1>12, <1>13

LEMMA HiddenStep ==
  ASSUME Shape, Typed, Fetched, [Next]_vars, NEW r \in Data, NEW flag, Hidden(page, r, flag), Hides(r, flag)
  PROVE  Hides(r, flag)'
<1>1. page' = page /\ page \in Pages
  BY ShapeStep DEF Shape
<1>2. ASSUME view' = view, ui' = ui,
             \A s \in Slots : /\ Busy(s)' <=> Busy(s)
                              /\ Busy(s) => runs'[s].h = runs[s].h /\ runs'[s].arg = runs[s].arg
      PROVE  Hides(r, flag)'
  <2>1. Readers(page, r)' = Readers(page, r)
    BY <1>1 DEF Readers
  <2>2. \A s \in Slots : Reading(r, s)' <=> Reading(r, s)
    BY <1>2, <2>1 DEF Reading
  <2>3. \A s \in Slots : Reading(r, s) => runs'[s].arg = runs[s].arg /\ ui'[flag] = ui[flag]
    BY <1>2 DEF Reading
  <2>4. view'[r] = view[r] /\ ui'[Script[page].under[r]] = ui[Script[page].under[r]]
    BY <1>2
  <2>5. (ui["error"] = TRUE => ui'["error"] = TRUE) /\ (~ui.here => ~ui'.here)
    BY <1>2
  <2> QED BY <1>1, <2>2, <2>3, <2>4, <2>5, HiddenKept
<1>3. ASSUME NEW h \in DOMAIN Script[page].code, Use(h) \/ Tick(h) PROVE Hides(r, flag)'
  BY <1>3, HiddenStart
<1>4. ASSUME NEW s \in Slots, NEW x \in Data, NEW changes,
             /\ view' = view /\ ui' = ui /\ Busy(s) /\ Run(runs[s]) /\ x \in Data
             /\ runs'[s] = Got(runs[s], x, changes) /\ \A q \in Slots \ {s} : runs'[q] = runs[q]
      PROVE  Hides(r, flag)'
  <2>1. PICK more : more = Got(runs[s], x, changes)
    OBVIOUS
  <2>2. more.h = runs[s].h /\ more.arg = runs[s].arg
    BY <1>4, <2>1, GotKeeps
  <2>3. more # Free
    <3>1. Run(Got(runs[s], x, changes))
      BY <1>4, GotRuns
    <3> QED BY <2>1, <3>1, RunBusy
  <2>4. \A q \in Slots : /\ Busy(q)' <=> Busy(q)
                         /\ Busy(q) => runs'[q].h = runs[q].h /\ runs'[q].arg = runs[q].arg
    BY <1>4, <2>1, <2>2, <2>3 DEF Busy
  <2> QED BY <1>2, <1>4, <2>4
<1>5. ASSUME NEW s \in Slots, NEW x \in Data, Serve(s, x) \/ Catch(s, x) PROVE Hides(r, flag)'
  <2>1. \E changes :
          /\ view' = view /\ ui' = ui /\ Busy(s) /\ Run(runs[s]) /\ x \in Data
          /\ runs'[s] = Got(runs[s], x, changes) /\ \A q \in Slots \ {s} : runs'[q] = runs[q]
    BY <1>5, ServeForm, CatchForm
  <2> QED BY <1>4, <2>1
<1>6. ASSUME NEW s \in Slots, Answer(s) PROVE Hides(r, flag)'
  BY <1>6, HiddenAnswer
<1>7. ASSUME NEW s \in Slots, Fail(s) PROVE Hides(r, flag)'
  BY <1>7, HiddenFail
<1>8. ASSUME NEW s \in Slots, Expel(s) PROVE Hides(r, flag)'
  <2>1. "here" \in DOMAIN ui
    BY <1>1, LeavingAssumption DEF Pages, Typed, Fields
  <2>2. ~ui'.here
    BY <1>8, <2>1 DEF Expel
  <2>3. \A q \in Slots : ~Reading(r, q)'
    BY <1>8 DEF Expel, Reading, Busy
  <2> QED BY <2>2, <2>3 DEF Hides, Slots
<1>9. ASSUME NEW x \in Data, Elsewhere(x) PROVE Hides(r, flag)'
  BY <1>2, <1>9 DEF Elsewhere, Busy
<1>10. ASSUME UNCHANGED vars PROVE Hides(r, flag)'
  BY <1>2, <1>10 DEF vars, Busy
<1> QED BY <1>3, <1>5, <1>6, <1>7, <1>8, <1>9, <1>10 DEF Next

LEMMA HiddenInit ==
  ASSUME Init, NEW r \in Data, NEW flag, Hidden(page, r, flag)
  PROVE  Hides(r, flag)
<1>1. page \in Pages /\ ui = Script[page].start /\ ui[flag] = TRUE /\ view[r].seen = {}
  BY DEF Init, Hidden
<1>2. PICK field : field = Script[page].under[r]
  OBVIOUS
<1>3. field # ""
  BY <1>1, <1>2, HiddenFields
<1>4. ASSUME NEW s \in Slots, Reading(r, s)
      PROVE  /\ s \in DOMAIN Script[page].mount /\ Script[page].mount[s] \in Readers(page, r)
             /\ runs[s].arg = ui[field]
  <2>1. PICK h : h = Script[page].mount[s]
    OBVIOUS
  <2>2. s \in DOMAIN Script[page].mount /\ runs[s] = Begun(h, ui, view, 0)
    BY <1>4, <2>1, Mounted DEF Reading
  <2>3. runs[s].h = h
    BY <2>2, BegunNamed
  <2>4. h \in Readers(page, r)
    BY <1>4, <2>3 DEF Reading
  <2>5. Code(h).of = field
    BY <1>1, <1>2, <2>4, HiddenReader
  <2>6. runs[s].arg = ui[field]
    BY <1>3, <2>2, <2>5, BegunAsking
  <2> QED BY <2>1, <2>2, <2>4, <2>6
<1>5. Under(r, ui) = ui[field]
  BY <1>2, <1>3 DEF Under
<1>6. \A s, q \in Slots : Reading(r, s) /\ Reading(r, q) => s = q
  <2>1. \A i, j \in DOMAIN Script[page].mount :
          {Script[page].mount[i], Script[page].mount[j]} \subseteq Readers(page, r) => i = j
    BY DEF Hidden
  <2> QED BY <1>4, <2>1
<1> QED BY <1>1, <1>4, <1>5, <1>6 DEF Hides, ShownUnder

AllHidden == \A r \in Data, flag \in Script[page].busy : Hidden(page, r, flag) => Hides(r, flag)

(* On the page that keys its queries an answer is shown only under the      *)
(* selection it was asked under; on the one that hides its controls one     *)
(* request at a time is under way, for what is selected.                    *)
THEOREM ShownIsSelectedHolds == Spec => []ShownIsSelected
<1>1. Init => AllHidden
  BY HiddenInit DEF AllHidden
<1>2. Shape /\ Typed /\ Fetched /\ AllHidden /\ [Next]_vars => AllHidden'
  <2> SUFFICES ASSUME Shape, Typed, Fetched, AllHidden, [Next]_vars PROVE AllHidden'
    OBVIOUS
  <2>1. page' = page
    BY ShapeStep
  <2>2. Data' = Data /\ \A r \in Data, flag \in Script[page].busy : Hidden(page, r, flag)' <=> Hidden(page, r, flag)
    BY <2>1 DEF Data, Hidden, Reader, Readers, Updates
  <2> QED BY <2>1, <2>2, HiddenStep DEF AllHidden
<1>3. Shape /\ KeyedShown /\ AllHidden => ShownIsSelected
  <2> SUFFICES ASSUME Shape, KeyedShown, AllHidden, Settled,
                      page = "dashboard" \/ (page = "decisionList" /\ ~ui.error), NEW r \in Data
               PROVE  ShownUnder(r)
    BY DEF ShownIsSelected, ShownUnder
  <2>1. page \in Pages /\ r \in Script[page].data
    BY DEF Shape, Data
  <2>2. CASE page = "dashboard"
    BY <2>1, <2>2, SelectedAssumption DEF KeyedShown
  <2>3. CASE page = "decisionList" /\ ~ui.error
    <3>1. PICK flag \in Script[page].busy : Hidden(page, r, flag)
      BY <2>1, <2>3, SelectedAssumption
    <3>2. Hides(r, flag)
      BY <3>1 DEF AllHidden
    <3>3. \A s \in Slots : ~Reading(r, s)
      BY DEF Settled, Quiet, Reading
    <3> QED BY <2>3, <3>2, <3>3 DEF Hides, Settled
  <2> QED BY <2>2, <2>3
<1> QED BY ShapeHolds, TypedInit, TypedStep, FetchedInit, FetchedStep, KeyedShownHolds, <1>1, <1>2, <1>3, PTL DEF Spec

-----------------------------------------------------------------------------
(* A document that is stored as a whole: unless an edit is made beside      *)
(* another request, one edit at a time is under way, and what was edited    *)
(* before is in what is stored, in what is shown and in what an edit sends. *)

LEMMA EditStates ==
  ASSUME page \in Pages, KeepsDocument(page), NEW h \in DOMAIN Script[page].code
  PROVE  /\ Code(h).clears = {}
         /\ \A g \in {Code(h).next, Code(h).also} : g \in DOMAIN Script[page].code => Writes(g) = {}
         /\ Writes(h) # {} =>
              /\ DOMAIN Code(h).calls = {1} /\ Writes(h) = {1}
              /\ Code(h).calls[1].op = "put" /\ Code(h).calls[1].on = Data
              /\ Code(h).next = "" /\ Code(h).also = "" /\ Code(h).local \in {{"first"}, {"sent"}}
<1>1. PICK edits : edits = {g \in DOMAIN Script[page].code :
                              \E k \in DOMAIN Script[page].code[g].calls : Script[page].code[g].calls[k].op # "get"}
  OBVIOUS
<1>2. \A g \in DOMAIN Script[page].code : g \in edits <=> Writes(g) # {}
  BY <1>1 DEF Writes, IsWrite, Code
<1>3. /\ Code(h).clears = {} /\ {Code(h).next, Code(h).also} \cap edits = {}
      /\ h \in edits =>
           /\ DOMAIN Code(h).calls = {1} /\ Code(h).calls[1].op = "put" /\ Code(h).calls[1].on = Data
           /\ Code(h).next = "" /\ Code(h).also = "" /\ Code(h).local \in {{"first"}, {"sent"}}
  BY <1>1 DEF KeepsDocument, Code, Data
<1>4. Writes(h) # {} => Writes(h) = {1}
  BY <1>2, <1>3 DEF Writes
<1> QED BY <1>2, <1>3, <1>4

LEMMA EditNumber ==
  ASSUME page \in Pages, KeepsDocument(page), NEW run, Run(run), Writes(run.h) # {}
  PROVE  /\ run.at = 1 /\ Number(run) = run.base + 1
         /\ Code(run.h).calls[run.at].op = "put" /\ Code(run.h).calls[run.at].on = Data
<1>1. /\ run.h \in DOMAIN Script[page].code /\ run.at \in DOMAIN Code(run.h).calls
  BY DEF Run
<1>2. /\ DOMAIN Code(run.h).calls = {1} /\ Writes(run.h) = {1}
      /\ Code(run.h).calls[1].op = "put" /\ Code(run.h).calls[1].on = Data
  BY <1>1, EditStates
<1>3. run.at = 1
  BY <1>1, <1>2
<1>4. Asked(run) = {1}
  BY <1>2, <1>3 DEF Asked
<1>5. Cardinality({1}) = 1
  BY FS_Singleton
<1> QED BY <1>2, <1>3, <1>4, <1>5 DEF Number

(* What a run has of the edits that were answered, told.                    *)
Keeps(run, r, told, data, store) ==
  IF Writes(run.h) = {} THEN r \in DOMAIN run.got => told \subseteq run.got[r]
  ELSE /\ told \subseteq run.snap[r]
       /\ "first" \in Code(run.h).local => Number(run) \in data[r].seen
       /\ r \in DOMAIN run.got => Number(run) \in store[r]

Kept(r, told, data, store, under) ==
  /\ told \subseteq store[r] /\ told \subseteq data[r].seen
  /\ \A s, q \in Slots : under[s] # Free /\ under[q] # Free /\ Writes(under[s].h) # {} => s = q
  /\ \A s \in Slots : under[s] # Free => Keeps(under[s], r, told, data, store)

Beside == ui.here /\ faults = 0 /\ ~crossed
Edited(r) == Beside => Kept(r, acked, view, db, runs)

LEMMA KeptPrimed ==
  ASSUME page' = page, NEW r
  PROVE  Kept(r, acked, view, db, runs)' <=> Kept(r, acked', view', db', runs')
BY DEF Kept, Keeps, Writes, Number, Asked, Code, Slots

(* A handler that is begun has no answer yet; an edit closes over what is   *)
(* shown.                                                                   *)
LEMMA BegunKeeps ==
  ASSUME page \in Pages, NEW h \in DOMAIN Script[page].code, NEW r \in Data, NEW told, NEW data, NEW store,
         NEW state, NEW base, Writes(h) = {}
  PROVE  /\ Writes(Begun(h, state, view, base).h) = {}
         /\ Keeps(Begun(h, state, view, base), r, told, data, store)
<1>1. PICK run : run = Begun(h, state, view, base)
  OBVIOUS
<1>2. run.h = h /\ run.got = <<>>
  BY <1>1 DEF Begun
<1>3. r \notin DOMAIN run.got
  <2>1. DOMAIN <<>> = {}
    OBVIOUS
  <2> QED BY <1>2, <2>1
<1> QED BY <1>1, <1>2, <1>3 DEF Keeps

LEMMA FirstBase ==
  ASSUME page \in Pages, issued \in Nat, NEW h \in DOMAIN Script[page].code, NEW begun
  PROVE  Base(Started(h, begun), 1) = issued
<1>1. PICK st : st = Started(h, begun)
  OBVIOUS
<1>2. st \in Seq({h, Code(h).also})
  BY <1>1, StartedForms
<1>3. Cost(SubSeq(st, 1, 0)) = 0
  BY <1>2, SubSeqFirst, CostNone
<1>4. 1 - 1 = 0
  OBVIOUS
<1> QED BY <1>1, <1>3, <1>4 DEF Base

LEMMA EditPrepared ==
  ASSUME NEW h, NEW state, NEW r \in DOMAIN view, Code(h).clears = {}
  PROVE  /\ view[r].seen \subseteq Prepared(h, state)[r].seen
         /\ "first" \in Code(h).local /\ (\E k \in Writes(h) : r \in Code(h).calls[k].on) =>
              issued + 1 \in Prepared(h, state)[r].seen
BY DEF Prepared

LEMMA EditStart ==
  ASSUME Shape, KeepsDocument(page), NEW r \in Data, Kept(r, acked, view, db, runs),
         NEW h \in DOMAIN Script[page].code, NEW update, Start(h, update), ~crossed'
  PROVE  Kept(r, acked', view', db', runs')
<1>1. PICK begun : begun = After(ui, update)
  OBVIOUS
<1>2. PICK st : st = Started(h, begun)
  OBVIOUS
<1>3. PICK a : a = Code(h).also
  OBVIOUS
<1>4. /\ page \in Pages /\ issued \in Nat /\ page' = page /\ db' = db /\ acked' = acked
      /\ view' = Prepared(h, ui') /\ r \in DOMAIN view
      /\ \A s \in Slots :
           \/ runs'[s] = runs[s]
           \/ /\ s \in Idle /\ Place(s) \in 1..Len(st)
              /\ runs'[s] = Begun(st[Place(s)], ui', view, Base(st, Place(s)))
  BY <1>1, <1>2, StartForm DEF Shape
<1>5. \A s \in Slots : Busy(s) => Writes(h) = {} /\ Writes(runs[s].h) = {}
  BY DEF Start
<1>6. Code(h).clears = {}
  BY <1>4, EditStates
<1>7. acked' \subseteq db'[r] /\ acked' \subseteq view'[r].seen
  <2>1. view[r].seen \subseteq Prepared(h, ui')[r].seen
    BY <1>4, <1>6, EditPrepared
  <2> QED BY <1>4, <2>1 DEF Kept
<1>8. CASE Writes(h) = {}
  <2>1. \A i \in 1..Len(st) : st[i] \in DOMAIN Script[page].code /\ Writes(st[i]) = {}
    <3>1. \A i \in 1..Len(st) : st[i] \in DOMAIN Script[page].code /\ (st[i] = h \/ st[i] = a)
      BY <1>2, <1>3, <1>4, Bases
    <3>2. a \in DOMAIN Script[page].code => Writes(a) = {}
      BY <1>3, <1>4, EditStates
    <3> QED BY <1>8, <3>1, <3>2
  <2>2. ASSUME NEW s \in Slots, runs'[s] # Free
        PROVE  Writes(runs'[s].h) = {} /\ Keeps(runs'[s], r, acked', view', db')
    <3>1. CASE runs'[s] = runs[s]
      <4>1. Keeps(runs[s], r, acked, view, db) /\ Writes(runs[s].h) = {}
        BY <1>5, <2>2, <3>1 DEF Kept, Busy
      <4> QED BY <1>4, <3>1, <4>1 DEF Keeps
    <3>2. CASE /\ s \in Idle /\ Place(s) \in 1..Len(st)
               /\ runs'[s] = Begun(st[Place(s)], ui', view, Base(st, Place(s)))
      <4>1. PICK g, base, state, told, data, store :
              /\ g = st[Place(s)] /\ base = Base(st, Place(s)) /\ state = ui'
              /\ told = acked' /\ data = view' /\ store = db'
        OBVIOUS
      <4>2. g \in DOMAIN Script[page].code /\ Writes(g) = {}
        BY <2>1, <3>2, <4>1
      <4>3. PICK run : run = Begun(g, state, view, base)
        OBVIOUS
      <4>4. Writes(run.h) = {} /\ Keeps(run, r, told, data, store)
        BY <1>4, <4>2, <4>3, BegunKeeps
      <4> QED BY <3>2, <4>1, <4>3, <4>4
    <3> QED BY <1>4, <3>1, <3>2
  <2> QED BY <1>7, <2>2 DEF Kept
<1>9. CASE Writes(h) # {}
  <2>1. /\ Code(h).also = "" /\ Writes(h) = {1} /\ Code(h).calls[1].on = Data
    BY <1>4, <1>9, EditStates
  <2>2. \A s \in Slots : runs[s] = Free
    BY <1>5, <1>9 DEF Busy
  <2>3. Len(st) = 1 /\ st[1] = h
    <3>1. Calls("", begun) = <<>>
      BY DEF Calls, Goes
    <3>2. Code(h).calls # <<>>
      <4>1. DOMAIN <<>> = {}
        OBVIOUS
      <4> QED BY <1>9, <4>1 DEF Writes
    <3>3. Calls(a, begun) = <<>> /\ \A x : <<x>> # <<>>
      BY <1>3, <2>1, <3>1
    <3>4. \/ Len(st) = 0 /\ Code(h).calls = <<>>
          \/ Len(st) = 1 /\ st[1] = h
          \/ Len(st) = 1 /\ Code(h).calls = <<>>
          \/ Len(st) = 2 /\ Calls(a, begun) = <<a>>
      BY <1>2, <1>3, <1>4, StartedForms
    <3> QED BY <3>2, <3>3, <3>4
  <2>4. Base(st, 1) = issued
    BY <1>2, <1>4, FirstBase
  <2>5. \A s \in Slots : runs'[s] # Free =>
          s \in Idle /\ Place(s) = 1 /\ runs'[s] = Begun(h, ui', view, issued)
    BY <1>4, <2>2, <2>3, <2>4
  <2>6. \A s, q \in Slots : runs'[s] # Free /\ runs'[q] # Free => s = q
    <3> SUFFICES ASSUME NEW s \in Slots, NEW q \in Slots, runs'[s] # Free, runs'[q] # Free PROVE s = q
      OBVIOUS
    <3>1. s \in Idle /\ q \in Idle /\ Place(s) = 1 /\ Place(q) = 1
      BY <2>5
    <3>2. s \in Int /\ q \in Int
      BY ConsoleAssumption DEF Slots
    <3> QED BY <3>1, <3>2, Places
  <2>7. ASSUME NEW run, run = Begun(h, ui', view, issued)
        PROVE  Keeps(run, r, acked', view', db')
    <3>1. run.h = h /\ run.at = 1 /\ run.base = issued /\ run.got = <<>> /\ run.snap[r] = view[r].seen
      BY <1>9, <2>1, <2>7 DEF Begun
    <3>2. r \notin DOMAIN run.got
      <4>1. DOMAIN <<>> = {}
        OBVIOUS
      <4> QED BY <3>1, <4>1
    <3>3. Number(run) = issued + 1
      <4>1. Asked(run) = {1}
        <5>1. Writes(run.h) = {1} /\ run.at = 1
          BY <2>1, <3>1
        <5> QED BY <5>1 DEF Asked
      <4>2. Cardinality({1}) = 1
        BY FS_Singleton
      <4> QED BY <3>1, <4>1, <4>2 DEF Number
    <3>4. "first" \in Code(h).local => issued + 1 \in Prepared(h, ui')[r].seen
      BY <1>4, <1>6, <2>1, EditPrepared
    <3>5. acked' \subseteq run.snap[r]
      BY <1>4, <3>1 DEF Kept
    <3> QED BY <1>4, <1>9, <3>1, <3>2, <3>3, <3>4, <3>5 DEF Keeps
  <2>8. \A s \in Slots : runs'[s] # Free => Keeps(runs'[s], r, acked', view', db')
    BY <2>5, <2>7
  <2> QED BY <1>7, <2>6, <2>8 DEF Kept
<1> QED BY <1>8, <1>9

LEMMA EditServe ==
  ASSUME Shape, KeepsDocument(page), NEW r \in Data, Kept(r, acked, view, db, runs),
         NEW s \in Slots, NEW x \in Data, Serve(s, x)
  PROVE  Kept(r, acked', view', db', runs')
<1>1. PICK run, changes : run = runs[s] /\ changes = Handled(s, x)
  OBVIOUS
<1>2. PICK more : more = Got(run, x, changes)
  OBVIOUS
<1>3. /\ page \in Pages /\ view' = view /\ acked' = acked /\ run # Free /\ Run(run)
      /\ x \in Call(s).on /\ db'[x] = changes /\ \A y \in Data \ {x} : db'[y] = db[y]
      /\ runs'[s] = more /\ \A q \in Slots \ {s} : runs'[q] = runs[q]
  BY <1>1, <1>2, ServeForm DEF Busy
<1>4. run.h \in DOMAIN Script[page].code /\ run.at \in DOMAIN Code(run.h).calls /\ Call(s) = Code(run.h).calls[run.at]
  BY <1>1, <1>3 DEF Run, Call
<1>5. /\ more.h = run.h /\ more.at = run.at /\ more.snap = run.snap /\ more.base = run.base
      /\ DOMAIN more.got = DOMAIN run.got \cup {x}
      /\ more.got[x] = changes /\ \A y \in DOMAIN run.got : y # x => more.got[y] = run.got[y]
  <2>1. /\ more.h = run.h /\ more.at = run.at /\ more.snap = run.snap /\ more.base = run.base
        /\ more.got = [y \in DOMAIN run.got \cup {x} |-> IF y = x THEN changes ELSE run.got[y]]
    BY <1>2, <1>3, GotRuns
  <2> QED BY <2>1
<1>6. Number(more) = Number(run)
  BY <1>5 DEF Number, Asked
<1>7. Keeps(run, r, acked, view, db)
  BY <1>1, <1>3 DEF Kept
<1>8. CASE Writes(run.h) = {}
  <2>1. changes = db[x]
    <3>1. Call(s).op = "get"
      BY <1>4, <1>8 DEF Writes, IsWrite
    <3> QED BY <1>1, <3>1 DEF Handled
  <2>2. db'[r] = db[r]
    BY <1>3, <2>1
  <2>3. Keeps(more, r, acked', view', db')
    BY <1>3, <1>5, <1>7, <1>8, <2>1 DEF Keeps, Kept
  <2>4. \A q \in Slots : runs[q] # Free => Writes(runs[q].h) = {}
    BY <1>1, <1>3, <1>8 DEF Kept
  <2>5. \A q \in Slots \ {s} : runs'[q] # Free => Keeps(runs'[q], r, acked', view', db') /\ Writes(runs'[q].h) = {}
    BY <1>3, <2>2, <2>4 DEF Kept, Keeps
  <2>6. \A q \in Slots : runs'[q] # Free => Keeps(runs'[q], r, acked', view', db') /\ Writes(runs'[q].h) = {}
    BY <1>3, <1>5, <1>8, <2>3, <2>5
  <2> QED BY <1>3, <2>2, <2>6 DEF Kept
<1>9. CASE Writes(run.h) # {}
  <2>1. changes = run.snap[x] \cup {Number(run)}
    <3>1. Call(s).op = "put"
      BY <1>3, <1>4, <1>9, EditNumber
    <3> QED BY <1>1, <3>1 DEF Handled
  <2>2. /\ acked \subseteq run.snap[r] /\ ("first" \in Code(run.h).local => Number(run) \in view[r].seen)
        /\ (r \in DOMAIN run.got => Number(run) \in db[r])
    BY <1>7, <1>9 DEF Keeps
  <2>3. acked \subseteq db'[r]
    BY <1>3, <2>1, <2>2 DEF Kept
  <2>4. r \in DOMAIN more.got => Number(run) \in db'[r]
    BY <1>3, <1>5, <2>1, <2>2
  <2>5. Keeps(more, r, acked', view', db')
    BY <1>3, <1>5, <1>6, <1>9, <2>2, <2>4 DEF Keeps
  <2>6. \A q \in Slots : runs[q] # Free => s = q
    BY <1>1, <1>3, <1>9 DEF Kept
  <2>7. \A q \in Slots : runs'[q] # Free => s = q
    BY <1>3, <2>6
  <2>8. \A p, q \in Slots : runs'[p] # Free /\ runs'[q] # Free => p = q
    BY <2>7
  <2>9. \A q \in Slots : runs'[q] # Free => Keeps(runs'[q], r, acked', view', db')
    BY <1>3, <2>5, <2>7
  <2>10. acked' \subseteq view'[r].seen
    BY <1>3 DEF Kept
  <2> QED BY <1>3, <2>3, <2>8, <2>9, <2>10 DEF Kept
<1> QED BY <1>8, <1>9

LEMMA EditAnswer ==
  ASSUME Shape, Typed, KeepsDocument(page), NEW r \in Data, Kept(r, acked, view, db, runs),
         NEW s \in Slots, Answer(s), ui.here
  PROVE  Kept(r, acked', view', db', runs')
<1>1. PICK run : run = runs[s]
  OBVIOUS
<1>2. PICK then : then = Code(run.h).next
  OBVIOUS
<1>3. PICK got : got = IF Call(s).late THEN run.got ELSE <<>>
  OBVIOUS
<1>4. /\ page \in Pages /\ db' = db /\ run # Free /\ Run(run) /\ Served(s) /\ view'[r] = Held(s, r)
      /\ \A q \in Slots \ {s} : runs'[q] = runs[q] \/ runs'[q] = Free
      /\ \/ run.at < Len(Code(run.h).calls) /\ runs'[s] = Onward(run, got) /\ DOMAIN got \subseteq Data
         \/ run.at = Len(Code(run.h).calls) /\ runs'[s] = Free
         \/ /\ run.at = Len(Code(run.h).calls) /\ then # "" /\ then \in DOMAIN Script[page].code
            /\ runs'[s] = Begun(then, ui', view', issued)
      /\ acked' = (IF IsWrite(Call(s)) THEN acked \cup {Number(run)} ELSE acked)
  BY <1>1, <1>2, <1>3, AnswerForm DEF Busy, Goes
<1>5. run.h \in DOMAIN Script[page].code /\ run.at \in DOMAIN Code(run.h).calls /\ Call(s) = Code(run.h).calls[run.at]
  BY <1>1, <1>4 DEF Run, Call
<1>6. Keeps(run, r, acked, view, db)
  BY <1>1, <1>4 DEF Kept
<1>7. CASE Writes(run.h) = {}
  <2>1. ~IsWrite(Call(s)) /\ acked' = acked
    BY <1>4, <1>5, <1>7 DEF Writes
  <2>2. r \in DOMAIN run.got => acked \subseteq run.got[r]
    BY <1>6, <1>7 DEF Keeps
  <2>3. acked' \subseteq view'[r].seen
    <3>1. acked \subseteq view[r].seen /\ 0 \notin acked
      BY DEF Kept, Typed
    <3>2. CASE Held(s, r) = view[r]
      BY <1>4, <2>1, <3>1, <3>2
    <3>3. CASE Held(s, r) # view[r]
      <4>1. r \in DOMAIN run.got /\ Held(s, r) = Read(s, r)
        BY <1>1, <2>1, <3>3 DEF Held
      <4>2. Read(s, r).seen = run.got[r] \/ Read(s, r) = view[r] \/ run.got[r] = Lost
        BY <1>1 DEF Read
      <4>3. run.got[r] = Lost => acked = {}
        BY <2>2, <3>1, <4>1 DEF Lost
      <4> QED BY <1>4, <2>1, <2>2, <3>3, <4>1, <4>2, <4>3
    <3> QED BY <3>2, <3>3
  <2>4. \A q \in Slots : runs[q] # Free => Writes(runs[q].h) = {}
    BY <1>1, <1>4, <1>7 DEF Kept
  <2>5. \A q \in Slots \ {s} : runs'[q] # Free => Writes(runs'[q].h) = {} /\ Keeps(runs'[q], r, acked', view', db')
    BY <1>4, <2>1, <2>4 DEF Kept, Keeps
  <2>6. runs'[s] # Free => Writes(runs'[s].h) = {} /\ Keeps(runs'[s], r, acked', view', db')
    <3>1. CASE run.at < Len(Code(run.h).calls) /\ runs'[s] = Onward(run, got) /\ DOMAIN got \subseteq Data
      <4>1. PICK more : more = Onward(run, got)
        OBVIOUS
      <4>2. more.h = run.h /\ more.got = got
        BY <1>4, <3>1, <4>1, OnwardRuns
      <4>3. got = run.got \/ r \notin DOMAIN got
        <5>1. DOMAIN <<>> = {}
          OBVIOUS
        <5> QED BY <1>3, <5>1
      <4>4. Keeps(more, r, acked', view', db')
        BY <1>7, <2>1, <2>2, <4>2, <4>3 DEF Keeps
      <4> QED BY <1>7, <3>1, <4>1, <4>2, <4>4
    <3>2. CASE then \in DOMAIN Script[page].code /\ runs'[s] = Begun(then, ui', view', issued)
      <4>1. Writes(then) = {}
        BY <1>2, <1>4, <1>5, <3>2, EditStates
      <4>2. PICK more : more = Begun(then, ui', view', issued)
        OBVIOUS
      <4>3. more.h = then /\ more.got = <<>>
        BY <4>2 DEF Begun
      <4>4. r \notin DOMAIN more.got
        <5>1. DOMAIN <<>> = {}
          OBVIOUS
        <5> QED BY <4>3, <5>1
      <4>5. Keeps(more, r, acked', view', db')
        BY <4>1, <4>3, <4>4 DEF Keeps
      <4> QED BY <3>2, <4>1, <4>2, <4>3, <4>5
    <3> QED BY <1>4, <3>1, <3>2
  <2>7. acked' \subseteq db'[r]
    BY <1>4, <2>1 DEF Kept
  <2>8. \A q \in Slots : runs'[q] # Free => Writes(runs'[q].h) = {} /\ Keeps(runs'[q], r, acked', view', db')
    BY <2>5, <2>6
  <2> QED BY <2>3, <2>7, <2>8 DEF Kept
<1>8. CASE Writes(run.h) # {}
  <2>1. /\ run.at = 1 /\ Call(s).op = "put" /\ Call(s).on = Data
    BY <1>4, <1>5, <1>8, EditNumber
  <2>2. then = "" /\ Code(run.h).local \in {{"first"}, {"sent"}} /\ DOMAIN Code(run.h).calls = {1}
    BY <1>2, <1>4, <1>5, <1>8, EditStates
  <2>3. ~(run.at < Len(Code(run.h).calls))
    <3>1. PICK n : n = Len(Code(run.h).calls)
      OBVIOUS
    <3>2. n \in Nat /\ 1..n = {1}
      BY <1>4, <1>5, <2>2, <3>1, CallsTyped
    <3>3. ~(1 < n)
      <4>1. 1 < n => 2 \in 1..n
        BY <3>2
      <4> QED BY <3>2, <4>1
    <3> QED BY <2>1, <3>1, <3>3
  <2>4. runs'[s] = Free
    BY <1>4, <2>2, <2>3
  <2>5. \A q \in Slots : runs[q] # Free => s = q
    BY <1>1, <1>4, <1>8 DEF Kept
  <2>6. \A q \in Slots : runs'[q] = Free
    BY <1>4, <2>4, <2>5
  <2>7. /\ acked \subseteq run.snap[r] /\ ("first" \in Code(run.h).local => Number(run) \in view[r].seen)
        /\ (r \in DOMAIN run.got => Number(run) \in db[r])
    BY <1>6, <1>8 DEF Keeps
  <2>8. r \in DOMAIN run.got /\ acked' = acked \cup {Number(run)}
    BY <1>1, <1>4, <2>1 DEF Served, IsWrite
  <2>9. acked' \subseteq db'[r]
    BY <1>4, <2>7, <2>8 DEF Kept
  <2>10. acked' \subseteq view'[r].seen
    <3>1. ~Call(s).late
      <4>1. Orderly(page)
        BY <1>4, OrderlyAssumption DEF Pages
      <4>2. Call(s).late => \A j \in DOMAIN Code(run.h).calls : Code(run.h).calls[j].op = "get"
        BY <1>5, <4>1 DEF Orderly, Code
      <4> QED BY <1>5, <2>1, <4>2
    <3>2. Held(s, r) = Written(s, r)
      BY <1>1, <2>1, <2>8, <3>1 DEF Held, IsWrite
    <3>3. CASE Code(run.h).local = {"sent"}
      <4>1. Written(s, r).seen = run.snap[r] \cup {Number(run)}
        BY <1>1, <3>3 DEF Written
      <4> QED BY <1>4, <2>7, <2>8, <3>2, <4>1
    <3>4. CASE Code(run.h).local = {"first"}
      <4>1. Written(s, r) = view[r]
        BY <1>1, <3>4 DEF Written
      <4> QED BY <1>4, <2>7, <2>8, <3>2, <3>4, <4>1 DEF Kept
    <3> QED BY <2>2, <3>3, <3>4
  <2> QED BY <2>6, <2>9, <2>10 DEF Kept
<1> QED BY <1>7, <1>8

LEMMA EditedStep ==
  ASSUME Shape, Typed, KeepsDocument(page), NEW r \in Data, Edited(r), [Next]_vars
  PROVE  Edited(r)'
<1>1. page' = page /\ page \in Pages /\ faults \in Nat
  <2>1. faults \in Nat
    BY ConsoleAssumption DEF Typed
  <2> QED BY <2>1, ShapeStep DEF Shape
<1> SUFFICES ASSUME Beside' PROVE Kept(r, acked', view', db', runs')
  BY <1>1, KeptPrimed DEF Edited
<1>2. ASSUME Beside, acked' = acked, view' = view, runs' = runs, db'[r] = db[r] PROVE Kept(r, acked', view', db', runs')
  BY <1>2 DEF Edited, Kept, Keeps
<1>3. ASSUME NEW h \in DOMAIN Script[page].code, Use(h) \/ Tick(h) PROVE Kept(r, acked', view', db', runs')
  <2>1. PICK update : Start(h, update)
    BY <1>3 DEF Use, Tick
  <2>2. Beside /\ ~crossed'
    BY <2>1 DEF Start, Beside
  <2> QED BY <2>1, <2>2, EditStart DEF Edited
<1>4. ASSUME NEW s \in Slots, NEW x \in Data, Serve(s, x) PROVE Kept(r, acked', view', db', runs')
  <2>1. Beside
    BY <1>4 DEF Serve, Beside
  <2> QED BY <1>4, <2>1, EditServe DEF Edited
<1>5. ASSUME NEW s \in Slots, NEW x \in Data, Catch(s, x) PROVE FALSE
  BY <1>1, <1>5 DEF Catch, Beside
<1>6. ASSUME NEW s \in Slots, Answer(s) PROVE Kept(r, acked', view', db', runs')
  <2>1. ~ui.here => ui' = ui
    BY <1>6 DEF Answer, GoOn
  <2>2. Beside
    BY <1>6, <2>1 DEF Answer, Beside
  <2>3. ui.here
    BY <2>2 DEF Beside
  <2> QED BY <1>6, <2>2, <2>3, EditAnswer DEF Edited
<1>7. ASSUME NEW s \in Slots, Fail(s) \/ Expel(s) PROVE FALSE
  <2>1. faults' = faults + 1
    BY <1>7 DEF Fail, Expel
  <2> QED BY <1>1, <2>1 DEF Beside
<1>8. ASSUME NEW x \in Data, Elsewhere(x) PROVE Kept(r, acked', view', db', runs')
  <2>1. /\ Beside /\ acked' = acked /\ view' = view /\ runs' = runs /\ db' = [db EXCEPT ![x] = @ \cup {issued + 1}]
    BY <1>8 DEF Elsewhere, Beside
  <2>2. db[r] \subseteq db'[r]
    BY <2>1 DEF Shape
  <2> QED BY <2>1, <2>2 DEF Edited, Kept, Keeps
<1>9. ASSUME UNCHANGED vars PROVE Kept(r, acked', view', db', runs')
  BY <1>2, <1>9 DEF vars, Beside
<1> QED BY <1>3, <1>4, <1>5, <1>6, <1>7, <1>8, <1>9 DEF Next

LEMMA EditedInit ==
  ASSUME Init, NEW r \in Data
  PROVE  Edited(r)
<1>1. acked = {}
  BY DEF Init
<1>2. ASSUME NEW s \in Slots, runs[s] # Free
      PROVE  Writes(runs[s].h) = {} /\ Keeps(runs[s], r, acked, view, db)
  <2>1. PICK h : h = Script[page].mount[s]
    OBVIOUS
  <2>2. page \in Pages /\ s \in DOMAIN Script[page].mount /\ runs[s] = Begun(h, ui, view, 0)
    BY <1>2, <2>1, Mounted DEF Busy
  <2>3. runs[s].h = h
    BY <2>2, BegunNamed
  <2>4. Writes(h) = {}
    <3>1. Orderly(page)
      BY <2>2, OrderlyAssumption DEF Pages
    <3>2. \A k \in DOMAIN Code(h).calls : Code(h).calls[k].op = "get"
      BY <2>1, <2>2, <3>1 DEF Orderly, Code
    <3> QED BY <3>2 DEF Writes, IsWrite
  <2> QED BY <1>1, <2>3, <2>4 DEF Keeps
<1> QED BY <1>1, <1>2 DEF Edited, Kept

AllEdited == KeepsDocument(page) => \A r \in Data : Edited(r)

(* The pages of a document: an edit whose request was answered is in what   *)
(* the control plane stores, if no edit was made beside another request.    *)
THEOREM EditsKeptHolds == Spec => []EditsKept
<1>1. Init => AllEdited
  BY EditedInit DEF AllEdited
<1>2. Shape /\ Typed /\ AllEdited /\ [Next]_vars => AllEdited'
  <2> SUFFICES ASSUME Shape, Typed, AllEdited, [Next]_vars PROVE AllEdited'
    OBVIOUS
  <2>1. page' = page
    BY ShapeStep
  <2>2. Data' = Data /\ (KeepsDocument(page)' <=> KeepsDocument(page))
    BY <2>1 DEF Data, KeepsDocument
  <2> QED BY <2>2, EditedStep DEF AllEdited
<1>3. Shape /\ AllEdited => EditsKept
  <2> SUFFICES ASSUME Shape, AllEdited, Calm, page \in Documents, NEW r \in Data PROVE acked \subseteq db[r]
    BY DEF EditsKept
  <2>1. KeepsDocument(page)
    BY DocumentsAssumption DEF Shape
  <2> QED BY <2>1 DEF AllEdited, Edited, Beside, Kept, Calm, Settled
<1> QED BY ShapeHolds, TypedInit, TypedStep, <1>1, <1>2, <1>3, PTL DEF Spec

-----------------------------------------------------------------------------
(* Guides: the step is one that a handler sets.  While a handler that sets  *)
(* it at the end is under way, the step stays where its control is shown,   *)
(* or what it sets is the last one.                                         *)
At(h) == Script[page].shown[h]["step"]

Stays(h, step) == IF Final(page, h) THEN \E m \in At(h) : m <= step ELSE step \in At(h)

Guide ==
  /\ ui["step"] \in Reached(page)
  /\ \A s \in Slots : Busy(s) /\ StepsAtEnd(page, runs[s].h) => Stays(runs[s].h, ui["step"])

RivalsAlone ==
  \A h \in Steppers(page), flag \in DOMAIN Script[page].start :
    Locked(page, Rivals(page, h), flag) => Alone(Rivals(page, h), flag)

LEMMA StepperStates ==
  ASSUME page \in Pages, Guided(page), NEW h \in Steppers(page)
  PROVE  /\ h \in DOMAIN Script[page].code /\ h \notin Script[page].timer
         /\ \A i \in DOMAIN Script[page].mount : Script[page].mount[i] # h
         /\ h \in DOMAIN Script[page].shown /\ "step" \in DOMAIN Script[page].shown[h]
         /\ At(h) \subseteq Nat /\ \A m \in At(h), n \in Targets(page, h) : m <= n
         /\ \A end \in Code(h).err : "step" \notin DOMAIN end
         /\ StepsAtEnd(page, h) => "step" \notin DOMAIN Code(h).begin
         /\ StepsAtEnd(page, h) /\ ~Final(page, h) =>
              /\ \E flag \in DOMAIN Script[page].start : Locked(page, Rivals(page, h), flag)
              /\ \A g \in Steppers(page) \ Rivals(page, h) :
                   StepsAtEnd(page, g) /\ Final(page, g) => \A k \in At(h), m \in At(g) : k < m
BY DEF Guided, Steppers, At, Code

LEMMA StepperCode ==
  ASSUME page \in Pages, Guided(page), NEW h \in DOMAIN Script[page].code
  PROVE  /\ "step" \in DOMAIN Script[page].start /\ Reached(page) \subseteq Nat
         /\ Code(h).pick # "step" /\ Code(h).next \notin Steppers(page) /\ Code(h).also \notin Steppers(page)
         /\ Targets(page, h) \subseteq Reached(page)
BY DEF Guided, Code, Reached

LEMMA Stepping ==
  ASSUME page \in Pages, NEW h \in DOMAIN Script[page].code
  PROVE  /\ \A u \in Updates(page, h) : "step" \in DOMAIN u => u["step"] \in Targets(page, h) /\ h \in Steppers(page)
         /\ Code(h).begin \in Updates(page, h) /\ Code(h).ok \cup Code(h).err \subseteq Updates(page, h)
         /\ StepsAtEnd(page, h) => h \in Steppers(page)
BY DEF Targets, Steppers, Updates, StepsAtEnd, Code

(* The handler that another one calls leaves the step. *)
LEMMA StepEntered ==
  ASSUME page \in Pages, Guided(page), NEW h, h \in DOMAIN Script[page].code \cup {""}, h \notin Steppers(page),
         NEW state, "step" \in DOMAIN state
  PROVE  Entered(h, state)["step"] = state["step"]
<1>1. CASE Goes(h, state)
  <2>1. h \in DOMAIN Script[page].code
    BY <1>1 DEF Goes
  <2>2. "step" \notin DOMAIN Code(h).begin
    BY <2>1, Stepping
  <2> QED BY <1>1, <2>2 DEF Entered, After
<1>2. CASE ~Goes(h, state)
  BY <1>2 DEF Entered
<1> QED BY <1>1, <1>2

LEMMA StepUse ==
  ASSUME Shape, Typed, Guided(page), NEW h \in DOMAIN Script[page].code, Use(h) \/ Tick(h)
  PROVE  \/ ui'["step"] = ui["step"]
         \/ /\ h \in Steppers(page) /\ ui'["step"] \in Targets(page, h) /\ "step" \in DOMAIN Code(h).begin
<1>1. PICK update :
        /\ Start(h, update)
        /\ \A f \in DOMAIN update :
             \/ f \in DOMAIN Code(h).begin /\ update[f] = Code(h).begin[f]
             \/ f = Code(h).pick /\ f # "" /\ update[f] \in Chosen
  BY UseForm
<1>2. PICK a : a = Code(h).also
  OBVIOUS
<1>3. PICK begun : begun = After(ui, update)
  OBVIOUS
<1>4. page \in Pages /\ ui' = Entered(a, begun)
  BY <1>1, <1>2, <1>3, StartForm
<1>5. "step" \in DOMAIN ui /\ Code(h).pick # "step" /\ a \notin Steppers(page)
  BY <1>2, <1>4, StepperCode DEF Typed, Fields
<1>6. a \in DOMAIN Script[page].code \cup {""}
  BY <1>2, <1>4, CallsTyped
<1>7. "step" \in DOMAIN begun
  BY <1>3, <1>5 DEF After
<1>8. ui'["step"] = begun["step"]
  <2>1. Entered(a, begun)["step"] = begun["step"]
    BY <1>4, <1>5, <1>6, <1>7, StepEntered
  <2> QED BY <1>4, <2>1
<1>9. CASE "step" \notin DOMAIN update
  BY <1>3, <1>5, <1>8, <1>9 DEF After
<1>10. CASE "step" \in DOMAIN update
  <2>1. "step" \in DOMAIN Code(h).begin /\ update["step"] = Code(h).begin["step"]
    BY <1>1, <1>5, <1>10
  <2>2. h \in Steppers(page) /\ Code(h).begin["step"] \in Targets(page, h)
    BY <1>4, <2>1, Stepping
  <2> QED BY <1>3, <1>5, <1>8, <1>10, <2>1, <2>2 DEF After
<1> QED BY <1>9, <1>10

LEMMA StepAnswer ==
  ASSUME Shape, Typed, Guided(page), NEW s \in Slots, Answer(s)
  PROVE  \/ ui'["step"] = ui["step"]
         \/ /\ ui'["step"] \in Targets(page, runs[s].h) /\ StepsAtEnd(page, runs[s].h)
            /\ runs[s].h \in DOMAIN Script[page].code
            /\ \/ runs'[s] = Free
               \/ runs'[s].h \notin Steppers(page)
<1>1. PICK run : run = runs[s]
  OBVIOUS
<1>2. PICK then : then = Code(run.h).next
  OBVIOUS
<1>3. /\ page \in Pages /\ Run(run)
      /\ \/ ui' = ui
         \/ /\ \E end \in Code(run.h).ok : ui.here /\ ui' = Entered(then, After(ui, end))
            /\ runs'[s] = Free \/ runs'[s] = Begun(then, ui', view', issued)
  BY <1>1, <1>2, AnswerForm
<1>4. run.h \in DOMAIN Script[page].code
  BY <1>3 DEF Run
<1>5. then \in DOMAIN Script[page].code \cup {""} /\ then \notin Steppers(page) /\ "step" \in DOMAIN ui
  BY <1>2, <1>3, <1>4, CallsTyped, StepperCode DEF Typed, Fields
<1>6. ASSUME NEW end \in Code(run.h).ok, ui' = Entered(then, After(ui, end)),
             runs'[s] = Free \/ runs'[s] = Begun(then, ui', view', issued), ui'["step"] # ui["step"]
      PROVE  /\ ui'["step"] \in Targets(page, run.h) /\ StepsAtEnd(page, run.h)
             /\ runs'[s] = Free \/ runs'[s].h \notin Steppers(page)
  <2>1. PICK state : state = After(ui, end)
    OBVIOUS
  <2>2. "step" \in DOMAIN state /\ state["step"] = IF "step" \in DOMAIN end THEN end["step"] ELSE ui["step"]
    BY <1>5, <2>1 DEF After
  <2>3. Entered(then, state)["step"] = state["step"]
    BY <1>3, <1>5, <2>2, StepEntered
  <2>4. "step" \in DOMAIN end /\ ui'["step"] = end["step"]
    BY <1>6, <2>1, <2>2, <2>3
  <2>5. end["step"] \in Targets(page, run.h)
    BY <1>3, <1>4, <2>4, Stepping
  <2>6. StepsAtEnd(page, run.h)
    BY <2>4 DEF StepsAtEnd, Code
  <2>7. Begun(then, ui', view', issued).h = then
    BY BegunNamed
  <2> QED BY <1>5, <1>6, <2>4, <2>5, <2>6, <2>7
<1> QED BY <1>1, <1>3, <1>4, <1>6

LEMMA StepFail ==
  ASSUME Shape, Typed, Guided(page), NEW s \in Slots, Fail(s) \/ Expel(s)
  PROVE  ui'["step"] = ui["step"] /\ \A q \in Slots : runs'[q] \in {runs[q], Free}
<1>1. page \in Pages /\ Busy(s) /\ runs[s].h \in DOMAIN Script[page].code
  BY DEF Shape, Run, Fail, Expel
<1>2. "step" \in DOMAIN ui
  BY <1>1, StepperCode DEF Typed, Fields
<1>3. \A q \in Slots : runs'[q] \in {runs[q], Free}
  BY DEF Fail, Expel, Shape
<1>4. CASE Expel(s)
  BY <1>2, <1>3, <1>4 DEF Expel
<1>5. CASE Fail(s)
  <2>1. \A end \in Code(runs[s].h).err : "step" \notin DOMAIN end
    BY <1>1, Stepping, StepperStates
  <2>2. ui' = ui \/ \E end \in Code(runs[s].h).err : ui' = After(ui, end)
    BY <1>5 DEF Fail
  <2> QED BY <1>2, <1>3, <2>1, <2>2 DEF After
<1> QED BY <1>4, <1>5

LEMMA GuideMove ==
  ASSUME page \in Pages, page' = page, Guided(page), Guide, ui'["step"] \in Reached(page), ui["step"] <= ui'["step"],
         \A s \in Slots : runs'[s] # Free /\ StepsAtEnd(page, runs'[s].h) =>
           \/ /\ Busy(s) /\ runs[s].h = runs'[s].h
              /\ ui'["step"] = ui["step"] \/ (Final(page, runs[s].h) /\ runs[s].h \in DOMAIN Script[page].code)
           \/ ui'["step"] \in At(runs'[s].h)
  PROVE  Guide'
<1>1. PICK step, next : step = ui["step"] /\ next = ui'["step"]
  OBVIOUS
<1>2. Reached(page) \subseteq Nat /\ step \in Nat /\ next \in Nat /\ step <= next
  BY <1>1 DEF Guided, Guide
<1>3. ASSUME NEW s \in Slots, runs'[s] # Free, StepsAtEnd(page, runs'[s].h)
      PROVE  Stays(runs'[s].h, next)
  <2>1. PICK h : h = runs'[s].h
    OBVIOUS
  <2>2. CASE next \in At(h)
    <3>1. next <= next
      BY <1>2
    <3>2. Stays(h, next)
      BY <2>2, <3>1 DEF Stays
    <3> QED BY <2>1, <3>2
  <2>3. CASE Busy(s) /\ runs[s].h = h /\ next = step
    BY <1>1, <1>3, <2>1, <2>3 DEF Guide
  <2>4. CASE Busy(s) /\ runs[s].h = h /\ Final(page, h) /\ h \in DOMAIN Script[page].code
    <3>1. PICK m \in At(h) : m <= step
      BY <1>1, <1>3, <2>1, <2>4 DEF Guide, Stays
    <3>2. m \in Nat
      BY <1>3, <2>1, <2>4, Stepping, StepperStates
    <3>3. m <= next
      BY <1>2, <3>1, <3>2
    <3>4. Stays(h, next)
      BY <2>4, <3>3 DEF Stays
    <3> QED BY <2>1, <3>4
  <2>5. \/ Busy(s) /\ runs[s].h = h /\ (next = step \/ (Final(page, h) /\ h \in DOMAIN Script[page].code))
        \/ next \in At(h)
    BY <1>1, <1>3, <2>1
  <2> QED BY <2>2, <2>3, <2>4, <2>5
<1>4. /\ Reached(page)' = Reached(page)
      /\ \A h : StepsAtEnd(page, h)' <=> StepsAtEnd(page, h)
      /\ \A s \in Slots : Stays(runs[s].h, ui["step"])' <=> Stays(runs'[s].h, ui'["step"])
  BY DEF Reached, Targets, Updates, StepsAtEnd, Stays, At, Final
<1>5. \A s \in Slots : Busy(s)' <=> runs'[s] # Free
  BY DEF Busy
<1>6. ui'["step"] \in Reached(page)'
  BY <1>4
<1>7. \A s \in Slots : Busy(s)' /\ StepsAtEnd(page, runs[s].h)' => Stays(runs[s].h, ui["step"])'
  BY <1>1, <1>3, <1>4, <1>5 DEF StepsAtEnd
<1> QED BY <1>6, <1>7 DEF Guide, Slots

(* A control that sets the step is not used where a handler waits to.       *)
LEMMA NoRival ==
  ASSUME page \in Pages, Guided(page), RivalsAlone, NEW h \in Steppers(page), NEW step,
         StepsAtEnd(page, h), ~Final(page, h), step \in At(h), NEW s \in Slots, Busy(s), runs[s].h = h
  PROVE  /\ \A g \in Steppers(page) : Enabled(g) => step \notin At(g)
         /\ \A q \in Slots : Busy(q) /\ runs[q].h \in Steppers(page) /\ step \in At(runs[q].h) => q = s
<1>1. PICK flag \in DOMAIN Script[page].start : Locked(page, Rivals(page, h), flag)
  BY StepperStates
<1>2. Alone(Rivals(page, h), flag)
  BY <1>1 DEF RivalsAlone
<1>3. \A g \in Steppers(page) : step \in At(g) => g \in Rivals(page, h)
  BY DEF Rivals, At
<1>4. h \in Rivals(page, h)
  BY <1>3
<1>5. ui[flag] = TRUE
  BY <1>2, <1>4 DEF Alone
<1>6. ASSUME NEW g \in Rivals(page, h) PROVE ~Enabled(g)
  <2>1. g \in DOMAIN Script[page].code
    BY DEF Rivals, Steppers
  <2>2. flag \in DOMAIN Script[page].shown[g] /\ TRUE \notin Script[page].shown[g][flag]
    BY <1>1, <1>6, <2>1 DEF Locked
  <2> QED BY <1>5, <2>2 DEF Enabled
<1>7. \A q \in Slots : Busy(q) /\ runs[q].h \in Rivals(page, h) => q = s
  BY <1>2, <1>4 DEF Alone
<1> QED BY <1>3, <1>6, <1>7

LEMMA GuideStart ==
  ASSUME Shape, Typed, Guided(page), Guide, RivalsAlone, NEW h \in DOMAIN Script[page].code, Use(h) \/ Tick(h)
  PROVE  Guide' /\ ui["step"] <= ui'["step"]
<1>1. PICK update : Start(h, update)
  BY DEF Use, Tick
<1>2. PICK st : st = Started(h, After(ui, update))
  OBVIOUS
<1>3. PICK a : a = Code(h).also
  OBVIOUS
<1>4. PICK step, next : step = ui["step"] /\ next = ui'["step"]
  OBVIOUS
<1>5. /\ page \in Pages /\ page' = page /\ issued \in Nat
      /\ \A s \in Slots :
           \/ runs'[s] = runs[s]
           \/ /\ s \in Idle /\ Place(s) \in 1..Len(st)
              /\ runs'[s] = Begun(st[Place(s)], ui', view, Base(st, Place(s)))
  BY <1>1, <1>2, StartForm DEF Shape
<1>6. /\ Reached(page) \subseteq Nat /\ a \notin Steppers(page) /\ step \in Reached(page)
      /\ Targets(page, h) \subseteq Reached(page)
  BY <1>3, <1>4, <1>5, StepperCode DEF Guide
<1>7. h \in Steppers(page) => Enabled(h) /\ step \in At(h)
  <2>1. h \in Steppers(page) => Enabled(h) /\ "step" \in DOMAIN Script[page].shown[h]
    BY <1>5, StepperStates DEF Use, Tick
  <2> QED BY <1>4, <2>1 DEF Enabled, At
<1>8. \/ next = step
      \/ h \in Steppers(page) /\ next \in Targets(page, h) /\ "step" \in DOMAIN Code(h).begin
  BY <1>4, StepUse
<1>9. next \in Reached(page) /\ step <= next
  <2>1. h \in Steppers(page) => \A m \in At(h), n \in Targets(page, h) : m <= n
    BY <1>5, StepperStates
  <2> QED BY <1>6, <1>7, <1>8, <2>1
<1>10. ASSUME NEW s \in Slots, runs'[s] # Free, StepsAtEnd(page, runs'[s].h)
       PROVE  \/ /\ Busy(s) /\ runs[s].h = runs'[s].h
                 /\ next = step \/ (Final(page, runs[s].h) /\ runs[s].h \in DOMAIN Script[page].code)
              \/ next \in At(runs'[s].h)
  <2>1. CASE runs'[s] = runs[s]
    <3>1. PICK g : g = runs[s].h
      OBVIOUS
    <3>2. Busy(s) /\ g \in DOMAIN Script[page].code /\ StepsAtEnd(page, g) /\ Stays(g, step)
      BY <1>4, <1>10, <2>1, <3>1 DEF Shape, Run, Busy, Guide
    <3>3. g \in Steppers(page)
      BY <1>5, <3>2, Stepping
    <3>4. Final(page, g) \/ next = step
      <4> SUFFICES ASSUME ~Final(page, g), next # step PROVE FALSE
        OBVIOUS
      <4>1. step \in At(g)
        BY <3>2 DEF Stays
      <4>2. h \in Steppers(page) /\ Enabled(h) /\ step \in At(h)
        BY <1>7, <1>8
      <4>3. \A x \in Steppers(page) : Enabled(x) => step \notin At(x)
        BY <1>5, <3>1, <3>2, <3>3, <4>1, NoRival
      <4> QED BY <4>2, <4>3
    <3> QED BY <2>1, <3>1, <3>2, <3>4
  <2>2. CASE /\ s \in Idle /\ Place(s) \in 1..Len(st)
             /\ runs'[s] = Begun(st[Place(s)], ui', view, Base(st, Place(s)))
    <3>1. PICK g : g = st[Place(s)]
      OBVIOUS
    <3>2. runs'[s].h = g
      BY <2>2, <3>1, BegunNamed
    <3>3. g \in DOMAIN Script[page].code /\ (g = h \/ g = a)
      BY <1>2, <1>3, <1>5, <2>2, <3>1, Bases
    <3>4. StepsAtEnd(page, g) /\ g \in Steppers(page)
      BY <1>5, <1>10, <3>2, <3>3, Stepping
    <3>5. g = h
      BY <1>6, <3>3, <3>4
    <3>6. "step" \notin DOMAIN Code(h).begin
      BY <1>5, <3>4, <3>5, StepperStates
    <3>7. next = step /\ step \in At(h)
      BY <1>7, <1>8, <3>4, <3>5, <3>6
    <3> QED BY <3>2, <3>5, <3>7
  <2> QED BY <1>5, <2>1, <2>2
<1>11. Guide'
  <2>1. ui'["step"] \in Reached(page) /\ ui["step"] <= ui'["step"]
    BY <1>4, <1>9
  <2>2. \A s \in Slots : runs'[s] # Free /\ StepsAtEnd(page, runs'[s].h) =>
           \/ /\ Busy(s) /\ runs[s].h = runs'[s].h
              /\ ui'["step"] = ui["step"] \/ (Final(page, runs[s].h) /\ runs[s].h \in DOMAIN Script[page].code)
           \/ ui'["step"] \in At(runs'[s].h)
    BY <1>4, <1>10
  <2> QED BY <1>5, <2>1, <2>2, GuideMove
<1> QED BY <1>4, <1>9, <1>11

(* Steps that leave the step: the handlers under way are the same ones, or  *)
(* such as do not set it.                                                   *)
LEMMA GuideKept ==
  ASSUME page \in Pages, page' = page, Guided(page), Guide, ui'["step"] = ui["step"],
         \A s \in Slots : runs'[s] # Free =>
           (Busy(s) /\ runs'[s].h = runs[s].h) \/ ~StepsAtEnd(page, runs'[s].h)
  PROVE  Guide' /\ ui["step"] <= ui'["step"]
<1>1. ui["step"] \in Nat /\ ui["step"] \in Reached(page)
  BY DEF Guided, Guide
<1>2. ui["step"] <= ui'["step"] /\ ui'["step"] \in Reached(page)
  BY <1>1
<1> QED BY <1>2, GuideMove

LEMMA GuideAnswer ==
  ASSUME Shape, Typed, Guided(page), Guide, RivalsAlone, NEW s \in Slots, Answer(s)
  PROVE  Guide' /\ ui["step"] <= ui'["step"]
<1>1. PICK run : run = runs[s]
  OBVIOUS
<1>2. PICK then : then = Code(run.h).next
  OBVIOUS
<1>3. PICK got : got = IF Call(s).late THEN run.got ELSE <<>>
  OBVIOUS
<1>4. /\ page \in Pages /\ page' = page /\ Busy(s) /\ Run(run)
      /\ \A q \in Slots \ {s} : runs'[q] \in {runs[q], Free}
      /\ \/ run.at < Len(Code(run.h).calls) /\ runs'[s] = Onward(run, got) /\ DOMAIN got \subseteq Data
         \/ runs'[s] = Free
         \/ runs'[s] = Begun(then, ui', view', issued)
  BY <1>1, <1>2, <1>3, AnswerForm
<1>5. run.h \in DOMAIN Script[page].code
  BY <1>4 DEF Run
<1>6. then \in DOMAIN Script[page].code \cup {""} /\ then \notin Steppers(page)
  BY <1>2, <1>4, <1>5, CallsTyped, StepperCode
<1>7. PICK step, next : step = ui["step"] /\ next = ui'["step"]
  OBVIOUS
<1>8. /\ Reached(page) \subseteq Nat /\ step \in Reached(page)
      /\ \A h \in DOMAIN Script[page].code : Targets(page, h) \subseteq Reached(page)
  BY <1>4, <1>5, <1>7, StepperCode DEF Guide
<1>9. CASE next = step
  <2>1. ASSUME NEW q \in Slots, runs'[q] # Free
        PROVE  (Busy(q) /\ runs'[q].h = runs[q].h) \/ ~StepsAtEnd(page, runs'[q].h)
    <3>1. CASE q # s
      BY <1>4, <2>1, <3>1 DEF Busy
    <3>2. CASE q = s /\ run.at < Len(Code(run.h).calls) /\ runs'[s] = Onward(run, got) /\ DOMAIN got \subseteq Data
      <4>1. Onward(run, got).h = run.h
        BY <1>4, <3>2, OnwardRuns
      <4> QED BY <1>1, <1>4, <3>2, <4>1
    <3>3. CASE q = s /\ runs'[s] = Begun(then, ui', view', issued)
      <4>1. PICK more : more = Begun(then, ui', view', issued)
        OBVIOUS
      <4>2. more.h = then
        BY <4>1, BegunNamed
      <4>3. then \in DOMAIN Script[page].code
        <5>1. Run(runs'[s])
          BY <1>4, <2>1, <3>3, ShapeAnswer DEF Shape, Busy, Run, Code, Data
        <5> QED BY <3>3, <4>1, <4>2, <5>1 DEF Run
      <4>4. ~StepsAtEnd(page, then)
        BY <1>4, <1>6, <4>3, Stepping
      <4> QED BY <3>3, <4>1, <4>2, <4>4
    <3> QED BY <1>4, <2>1, <3>1, <3>2, <3>3
  <2> QED BY <1>4, <1>7, <1>9, <2>1, GuideKept
<1>10. CASE next # step
  <2>1. /\ next \in Targets(page, run.h) /\ StepsAtEnd(page, run.h)
        /\ runs'[s] = Free \/ runs'[s].h \notin Steppers(page)
    BY <1>1, <1>7, <1>10, StepAnswer
  <2>2. run.h \in Steppers(page) /\ Stays(run.h, step)
    <3>1. run.h \in Steppers(page)
      BY <1>4, <1>5, <2>1, Stepping
    <3> QED BY <1>1, <1>4, <1>7, <2>1, <3>1 DEF Guide
  <2>3. next \in Reached(page) /\ step <= next
    <3>1. CASE Final(page, run.h)
      BY <1>5, <1>8, <2>1, <3>1 DEF Final
    <3>2. CASE ~Final(page, run.h)
      <4>1. step \in At(run.h)
        BY <2>2, <3>2 DEF Stays
      <4>2. \A m \in At(run.h), n \in Targets(page, run.h) : m <= n
        BY <1>4, <2>2, StepperStates
      <4> QED BY <1>5, <1>8, <2>1, <4>1, <4>2
    <3> QED BY <3>1, <3>2
  <2>4. ASSUME NEW q \in Slots, runs'[q] # Free, StepsAtEnd(page, runs'[q].h)
        PROVE  \/ Busy(q) /\ runs[q].h = runs'[q].h /\ Final(page, runs[q].h) /\ runs[q].h \in DOMAIN Script[page].code
               \/ next \in At(runs'[q].h)
    <3>1. CASE q = s
      <4>1. runs'[s].h \in DOMAIN Script[page].code
        BY <1>4, <2>4, <3>1, ShapeAnswer DEF Shape, Busy, Run
      <4>2. runs'[s].h \in Steppers(page)
        BY <1>4, <2>4, <3>1, <4>1, Stepping
      <4> QED BY <2>1, <2>4, <3>1, <4>2
    <3>2. CASE q # s
      <4>1. PICK g : g = runs[q].h
        OBVIOUS
      <4>2. runs'[q] = runs[q] /\ Busy(q) /\ g \in DOMAIN Script[page].code /\ StepsAtEnd(page, g)
        BY <1>4, <2>4, <3>2, <4>1 DEF Shape, Busy, Run
      <4>3. g \in Steppers(page) /\ Stays(g, step)
        <5>1. g \in Steppers(page)
          BY <1>4, <4>2, Stepping
        <5> QED BY <1>7, <4>1, <4>2, <5>1 DEF Guide
      <4>4. ASSUME ~Final(page, g) PROVE FALSE
        <5>1. step \in At(g)
          BY <4>3, <4>4 DEF Stays
        <5>2. step \notin At(run.h)
          <6>1. \A x \in Slots : Busy(x) /\ runs[x].h \in Steppers(page) /\ step \in At(runs[x].h) => x = q
            BY <1>4, <4>1, <4>2, <4>3, <4>4, <5>1, NoRival
          <6> QED BY <1>1, <1>4, <2>2, <3>2, <6>1
        <5>3. Final(page, run.h) /\ \E m \in At(run.h) : m <= step
          BY <2>2, <5>2 DEF Stays
        <5>4. PICK m \in At(run.h) : m <= step
          BY <5>3
        <5>5. run.h \notin Rivals(page, g) => step < m
          <6>1. \A x \in Steppers(page) \ Rivals(page, g) :
                  StepsAtEnd(page, x) /\ Final(page, x) => \A k \in At(g), j \in At(x) : k < j
            BY <1>4, <4>2, <4>3, <4>4, StepperStates
          <6> QED BY <2>1, <2>2, <5>1, <5>3, <5>4, <6>1
        <5>6. run.h \notin Rivals(page, g)
          <6>1. PICK flag \in DOMAIN Script[page].start : Locked(page, Rivals(page, g), flag)
            BY <1>4, <4>2, <4>3, <4>4, StepperStates
          <6>2. Alone(Rivals(page, g), flag)
            BY <4>3, <6>1 DEF RivalsAlone
          <6>3. g \in Rivals(page, g)
            BY <4>3, <5>1 DEF Rivals, At
          <6> QED BY <1>1, <1>4, <3>2, <4>1, <4>2, <6>2, <6>3 DEF Alone
        <5>7. m \in Nat /\ step \in Nat
          <6>1. At(run.h) \subseteq Nat
            BY <1>4, <2>2, StepperStates
          <6> QED BY <1>8, <5>4, <6>1
        <5> QED BY <5>4, <5>5, <5>6, <5>7
      <4> QED BY <4>1, <4>2, <4>4
    <3> QED BY <3>1, <3>2
  <2>5. ui'["step"] \in Reached(page) /\ ui["step"] <= ui'["step"]
    BY <1>7, <2>3
  <2>6. \A q \in Slots : runs'[q] # Free /\ StepsAtEnd(page, runs'[q].h) =>
           \/ /\ Busy(q) /\ runs[q].h = runs'[q].h
              /\ ui'["step"] = ui["step"] \/ (Final(page, runs[q].h) /\ runs[q].h \in DOMAIN Script[page].code)
           \/ ui'["step"] \in At(runs'[q].h)
    BY <1>7, <2>4
  <2>7. Guide'
    BY <1>4, <2>5, <2>6, GuideMove
  <2> QED BY <2>5, <2>7
<1> QED BY <1>9, <1>10

LEMMA GuideStep ==
  ASSUME Shape, Typed, Guided(page), Guide, RivalsAlone, [Next]_vars
  PROVE  Guide' /\ RivalsAlone' /\ ui["step"] <= ui'["step"]
<1>1. page' = page /\ page \in Pages
  BY ShapeStep DEF Shape
<1>2. RivalsAlone'
  <2>1. ASSUME NEW h \in Steppers(page), NEW flag \in DOMAIN Script[page].start, Locked(page, Rivals(page, h), flag)
        PROVE  Alone(Rivals(page, h), flag)'
    <3>1. PICK lock : lock = Rivals(page, h)
      OBVIOUS
    <3>2. Alone(lock, flag)'
      BY <2>1, <3>1, AloneStep DEF RivalsAlone
    <3>3. Rivals(page, h)' = Rivals(page, h)
      BY <1>1 DEF Rivals, Steppers, Targets, Updates
    <3> QED BY <3>1, <3>2, <3>3
  <2>2. /\ Steppers(page)' = Steppers(page)
        /\ \A h, flag : Locked(page, Rivals(page, h), flag)' <=> Locked(page, Rivals(page, h), flag)
    BY <1>1 DEF Rivals, Steppers, Targets, Updates, Locked
  <2> QED BY <1>1, <2>1, <2>2 DEF RivalsAlone
<1>3. ASSUME ui'["step"] = ui["step"],
             \A s \in Slots : runs'[s] # Free => Busy(s) /\ runs'[s].h = runs[s].h
      PROVE  Guide' /\ ui["step"] <= ui'["step"]
  BY <1>1, <1>3, GuideKept
<1>4. ASSUME NEW h \in DOMAIN Script[page].code, Use(h) \/ Tick(h) PROVE Guide' /\ ui["step"] <= ui'["step"]
  BY <1>4, GuideStart
<1>5. ASSUME NEW s \in Slots, NEW r \in Data, Serve(s, r) \/ Catch(s, r) PROVE Guide' /\ ui["step"] <= ui'["step"]
  <2>1. PICK changes :
          /\ ui' = ui /\ Busy(s) /\ Run(runs[s])
          /\ runs'[s] = Got(runs[s], r, changes) /\ \A q \in Slots \ {s} : runs'[q] = runs[q]
    BY <1>5, ServeForm, CatchForm
  <2>2. Got(runs[s], r, changes).h = runs[s].h
    BY <2>1, GotKeeps
  <2> QED BY <1>3, <2>1, <2>2 DEF Busy
<1>6. ASSUME NEW s \in Slots, Answer(s) PROVE Guide' /\ ui["step"] <= ui'["step"]
  BY <1>6, GuideAnswer
<1>7. ASSUME NEW s \in Slots, Fail(s) \/ Expel(s) PROVE Guide' /\ ui["step"] <= ui'["step"]
  <2>1. ui'["step"] = ui["step"] /\ \A q \in Slots : runs'[q] \in {runs[q], Free}
    BY <1>7, StepFail
  <2> QED BY <1>3, <2>1 DEF Busy
<1>8. ASSUME NEW r \in Data, Elsewhere(r) PROVE Guide' /\ ui["step"] <= ui'["step"]
  BY <1>3, <1>8 DEF Elsewhere, Busy
<1>9. ASSUME UNCHANGED vars PROVE Guide' /\ ui["step"] <= ui'["step"]
  BY <1>3, <1>9 DEF vars, Busy
<1> QED BY <1>2, <1>4, <1>5, <1>6, <1>7, <1>8, <1>9 DEF Next

LEMMA GuideInit == ASSUME Init, Guided(page) PROVE Guide /\ RivalsAlone
<1>1. page \in Pages /\ ui = Script[page].start
  BY DEF Init
<1>2. ui["step"] \in Reached(page)
  BY <1>1 DEF Reached
<1>3. ASSUME NEW s \in Slots, Busy(s) PROVE runs[s].h \notin Steppers(page) /\ ~StepsAtEnd(page, runs[s].h)
  <2>1. PICK h : h = Script[page].mount[s]
    OBVIOUS
  <2>2. s \in DOMAIN Script[page].mount /\ h \in DOMAIN Script[page].code /\ runs[s] = Begun(h, ui, view, 0)
    BY <1>3, <2>1, Mounted
  <2>3. runs[s].h = h
    BY <2>2, BegunNamed
  <2>4. h \notin Steppers(page)
    BY <1>1, <2>1, <2>2, StepperStates
  <2>5. ~StepsAtEnd(page, h)
    BY <1>1, <2>2, <2>4, Stepping
  <2> QED BY <2>3, <2>4, <2>5
<1>4. \A h \in Steppers(page) : Rivals(page, h) \subseteq Steppers(page)
  BY DEF Rivals
<1> QED BY <1>1, <1>2, <1>3, <1>4 DEF Guide, RivalsAlone, Alone

Guiding == Guided(page) => Guide /\ RivalsAlone

(* No handler of a guide, whenever it ends, takes its user back to a step   *)
(* that was done.                                                           *)
THEOREM StepsForwardHolds == Spec => StepsForward
<1>1. Init => Guiding
  BY GuideInit DEF Guiding
<1>2. Shape /\ Typed /\ Guiding /\ [Next]_vars => Guiding' /\ [GuideAdvances]_vars
  <2> SUFFICES ASSUME Shape, Typed, Guiding, [Next]_vars PROVE Guiding' /\ [GuideAdvances]_vars
    OBVIOUS
  <2>1. page' = page /\ page \in Pages
    BY ShapeStep DEF Shape
  <2>2. Guided(page)' <=> Guided(page)
    BY <2>1 DEF Guided, Reached, Targets, Updates, Steppers, StepsAtEnd, Final, Rivals, Locked
  <2>3. Guided(page) => Guide' /\ RivalsAlone' /\ ui["step"] <= ui'["step"]
    BY GuideStep DEF Guiding
  <2>4. Guiding'
    BY <2>2, <2>3 DEF Guiding
  <2>5. GuideAdvances
    <3> SUFFICES ASSUME page \in Guides PROVE ui'["step"] >= ui["step"]
      BY DEF GuideAdvances
    <3>1. Guided(page)
      BY <2>1, GuidesAssumption
    <3>2. ui["step"] \in Nat /\ ui'["step"] \in Nat
      <4>1. Guide /\ Guide' /\ Reached(page) \subseteq Nat /\ Reached(page)' = Reached(page)
        BY <2>1, <2>3, <3>1 DEF Guiding, Guided, Reached, Targets, Updates
      <4> QED BY <4>1 DEF Guide
    <3> QED BY <2>3, <3>1, <3>2
  <2> QED BY <2>4, <2>5
<1> QED BY ShapeHolds, TypedInit, TypedStep, <1>1, <1>2, PTL DEF Spec, StepsForward
=============================================================================
