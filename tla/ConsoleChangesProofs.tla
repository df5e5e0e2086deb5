-------------------------- MODULE ConsoleChangesProofs ------------------------
(* What a page did and was told had been done is on the screen when it      *)
(* comes to rest: for any number of handlers under way, of changes and of   *)
(* failures.                                                                *)
EXTENDS ConsoleProofs

-----------------------------------------------------------------------------
(* Runs. *)

(* A step that does not answer a run leaves it, adds to what it was         *)
(* answered, or begins it with numbers that were not given out.             *)
LEMMA Moves ==
  ASSUME Shape, [Next]_vars, NEW s \in Slots, runs'[s] # Free, ~Answer(s)
  PROVE  \/ Busy(s) /\ runs'[s] = runs[s]
         \/ Busy(s) /\ \E x \in Data : \E changes : x \in Call(s).on /\ runs'[s] = Got(runs[s], x, changes)
         \/ \E h \in DOMAIN Script[page].code, base \in Nat : \E state, data :
              Code(h).calls # <<>> /\ issued <= base /\ runs'[s] = Begun(h, state, data, base)
<1> DEFINE Untouched == Busy(s) /\ runs'[s] = runs[s]
           Gained == Busy(s) /\ \E x \in Data : \E changes : x \in Call(s).on /\ runs'[s] = Got(runs[s], x, changes)
<1>1. ASSUME runs'[s] = runs[s] PROVE Untouched
  BY <1>1 DEF Busy
<1>2. ASSUME NEW h \in DOMAIN Script[page].code, Use(h) \/ Tick(h)
      PROVE  \/ Untouched
             \/ \E g \in DOMAIN Script[page].code, base \in Nat : \E state, data :
                  Code(g).calls # <<>> /\ issued <= base /\ runs'[s] = Begun(g, state, data, base)
  <2>1. PICK update : Start(h, update)
    BY <1>2 DEF Use, Tick
  <2>2. PICK st : st = Started(h, After(ui, update))
    OBVIOUS
  <2>3. \/ runs'[s] = runs[s]
        \/ Place(s) \in 1..Len(st) /\ runs'[s] = Begun(st[Place(s)], ui', view, Base(st, Place(s)))
    BY <2>1, <2>2, StartForm
  <2>4. \A i \in 1..Len(st) : /\ st[i] \in DOMAIN Script[page].code /\ Code(st[i]).calls # <<>>
                              /\ Base(st, i) \in Nat /\ issued <= Base(st, i)
    BY <2>2, Bases DEF Shape
  <2> QED BY <1>1, <2>3, <2>4
<1>3. ASSUME NEW q \in Slots, NEW r \in Data, Serve(q, r) PROVE Untouched \/ Gained
  <2>1. /\ Busy(q) /\ r \in Call(q).on /\ runs'[q] = Got(runs[q], r, Handled(q, r))
        /\ \A p \in Slots \ {q} : runs'[p] = runs[p]
    BY <1>3, ServeForm
  <2> QED BY <1>1, <2>1
<1>4. ASSUME NEW q \in Slots, NEW r \in Data, Catch(q, r) PROVE Untouched \/ Gained
  <2>1. /\ Busy(q) /\ r \in Call(q).on /\ runs'[q] = Got(runs[q], r, Lost)
        /\ \A p \in Slots \ {q} : runs'[p] = runs[p]
    BY <1>4, CatchForm DEF Catch
  <2> QED BY <1>1, <2>1
<1>5. ASSUME NEW q \in Slots, Answer(q) PROVE Untouched
  <2>1. \A p \in Slots \ {q} : runs'[p] \in {runs[p], Free}
    BY <1>5, AnswerForm
  <2> QED BY <1>1, <1>5, <2>1
<1>6. ASSUME NEW q \in Slots, Fail(q) \/ Expel(q) PROVE Untouched
  <2>1. \A p \in Slots : runs'[p] \in {runs[p], Free}
    BY <1>6 DEF Fail, Expel, Shape
  <2> QED BY <1>1, <2>1
<1>7. ASSUME (\E r \in Data : Elsewhere(r)) \/ UNCHANGED vars PROVE Untouched
  <2>1. runs' = runs
    BY <1>7 DEF Elsewhere, vars
  <2> QED BY <1>1, <2>1
<1> QED BY <1>2, <1>3, <1>4, <1>5, <1>6, <1>7 DEF Next

(* The run that is answered goes on to its next request or to the handler   *)
(* that follows.                                                            *)
LEMMA AnswerMoves ==
  ASSUME Shape, NEW s \in Slots, Answer(s), runs'[s] # Free
  PROVE  \/ /\ runs[s].at < Len(Code(runs[s].h).calls)
            /\ \E got : /\ DOMAIN got \subseteq DOMAIN runs[s].got /\ (DOMAIN got = {} \/ Call(s).late)
                        /\ runs'[s] = Onward(runs[s], got)
         \/ \E h \in DOMAIN Script[page].code : \E state, data :
              Code(h).calls # <<>> /\ runs'[s] = Begun(h, state, data, issued)
<1>1. PICK run : run = runs[s]
  OBVIOUS
<1>2. PICK then : then = Code(run.h).next
  OBVIOUS
<1>3. PICK got : got = IF Call(s).late THEN run.got ELSE <<>>
  OBVIOUS
<1>4. \/ run.at < Len(Code(run.h).calls) /\ runs'[s] = Onward(run, got)
      \/ /\ then \in DOMAIN Script[page].code /\ Code(then).calls # <<>>
         /\ runs'[s] = Begun(then, ui', view', issued)
  BY <1>1, <1>2, <1>3, AnswerForm
<1>5. DOMAIN got \subseteq DOMAIN run.got /\ (DOMAIN got = {} \/ Call(s).late)
  <2>1. DOMAIN <<>> = {}
    OBVIOUS
  <2> QED BY <1>3, <2>1
<1> QED BY <1>1, <1>4, <1>5

LEMMA GotMore ==
  ASSUME NEW run, Run(run), NEW x \in Data, NEW changes
  PROVE  /\ Got(run, x, changes).h = run.h /\ Got(run, x, changes).at = run.at
         /\ Got(run, x, changes).snap = run.snap /\ Number(Got(run, x, changes)) = Number(run)
         /\ DOMAIN Got(run, x, changes).got = DOMAIN run.got \cup {x}
         /\ Got(run, x, changes).got[x] = changes
         /\ \A y \in DOMAIN run.got : y # x => Got(run, x, changes).got[y] = run.got[y]
<1>1. Got(run, x, changes).got = [y \in DOMAIN run.got \cup {x} |-> IF y = x THEN changes ELSE run.got[y]]
  BY GotRuns
<1> QED BY <1>1, GotKeeps, GotNumbers

-----------------------------------------------------------------------------
(* The changes a run has still to be told of: its own, from the one its     *)
(* current request makes.                                                   *)
Pristine(run, n) ==
  /\ n \in Numbers(run)
  /\ n > Number(run) \/ (n = Number(run) /\ IsWrite(Code(run.h).calls[run.at]))

LEMMA PristineGot ==
  ASSUME NEW run, Run(run), NEW x \in Data, NEW changes, NEW n, Pristine(Got(run, x, changes), n)
  PROVE  Pristine(run, n)
<1>1. PICK more : more = Got(run, x, changes)
  OBVIOUS
<1>2. more.h = run.h /\ more.at = run.at /\ Number(more) = Number(run) /\ Numbers(more) = Numbers(run)
  BY <1>1, GotKeeps, GotNumbers
<1> QED BY <1>1, <1>2 DEF Pristine

LEMMA PristineOnward ==
  ASSUME page \in Pages, NEW run, Run(run), run.base \in Nat, run.at < Len(Code(run.h).calls),
         NEW got, DOMAIN got \subseteq Data, NEW n, Pristine(Onward(run, got), n)
  PROVE  Pristine(run, n) /\ n > Number(run) /\ n # Number(run)
<1>1. PICK more : more = Onward(run, got)
  OBVIOUS
<1>2. /\ Number(run) \in Nat /\ Number(more) \in Nat /\ Number(run) <= Number(more)
      /\ IsWrite(Code(more.h).calls[more.at]) => Number(more) = Number(run) + 1
      /\ Numbers(more) = Numbers(run)
  BY <1>1, NumberOnward
<1>3. n \in Nat
  <2>1. Count(run.h) \in Nat
    BY CountType DEF Run
  <2> QED BY <1>1, <1>2, <2>1 DEF Pristine, Numbers, Count
<1> QED BY <1>1, <1>2, <1>3 DEF Pristine

LEMMA PristineBegun ==
  ASSUME page \in Pages, NEW h \in DOMAIN Script[page].code, NEW state, NEW data, NEW base \in Nat,
         NEW top \in Nat, top <= base, NEW n, Pristine(Begun(h, state, data, base), n)
  PROVE  n \notin 1..top
<1>1. PICK run : run = Begun(h, state, data, base)
  OBVIOUS
<1>2. run.h = h /\ run.base = IF Writes(h) = {} THEN 0 ELSE base
  BY <1>1, BegunNamed
<1>3. n \in run.base + 1 .. run.base + Count(h) /\ Count(h) \in Nat
  BY <1>1, <1>2, CountType DEF Pristine, Numbers, Count
<1>4. Writes(h) = {} => Count(h) = 0
  BY FS_EmptySet DEF Count
<1> QED BY <1>2, <1>3, <1>4

(* No change was answered before its turn. *)
Unacked == \A s \in Slots : \A n : Busy(s) /\ Pristine(runs[s], n) => n \notin acked

LEMMA UnackedStep == ASSUME Shape, Typed, Unacked, [Next]_vars PROVE Unacked'
<1>1. page' = page /\ page \in Pages /\ issued \in Nat /\ acked \subseteq 1..issued
  BY ShapeStep DEF Shape, Typed
<1>2. SUFFICES ASSUME NEW s \in Slots, NEW n, runs'[s] # Free, Pristine(runs'[s], n) PROVE n \notin acked'
  BY <1>1 DEF Unacked, Busy, Slots, Pristine, Numbers, Number, Asked, Writes, IsWrite, Code
<1>3. CASE Answer(s)
  <2>1. PICK run : run = runs[s]
    OBVIOUS
  <2>2. Busy(s) /\ Run(run) /\ acked' = (IF IsWrite(Call(s)) THEN acked \cup {Number(run)} ELSE acked)
    BY <1>3, <2>1, AnswerForm
  <2>3. run.base \in Nat /\ (IsWrite(Call(s)) => Number(run) \in 1..issued)
    BY <2>1, <2>2, Numbered
  <2>4. CASE run.at < Len(Code(run.h).calls) /\ \E got : DOMAIN got \subseteq DOMAIN run.got /\ runs'[s] = Onward(run, got)
    <3>1. PICK got : DOMAIN got \subseteq Data /\ runs'[s] = Onward(run, got)
      BY <2>2, <2>4 DEF Run
    <3>2. Pristine(run, n) /\ n # Number(run)
      BY <1>1, <1>2, <2>2, <2>3, <2>4, <3>1, PristineOnward
    <3>3. n \notin acked
      BY <2>1, <2>2, <3>2 DEF Unacked
    <3> QED BY <2>2, <3>2, <3>3
  <2>5. CASE \E h \in DOMAIN Script[page].code : \E state, data : runs'[s] = Begun(h, state, data, issued)
    <3>1. n \notin 1..issued
      BY <1>1, <1>2, <2>5, PristineBegun
    <3> QED BY <1>1, <2>2, <2>3, <3>1
  <2> QED BY <1>2, <1>3, <2>1, <2>4, <2>5, AnswerMoves
<1>4. CASE ~Answer(s)
  <2>1. acked' = acked \/ \E q \in Slots : /\ Answer(q) /\ Busy(q) /\ IsWrite(Call(q))
                                           /\ acked' = acked \cup {Number(runs[q])}
    <3>1. \A q \in Slots : Answer(q) => Busy(q) /\ acked' = (IF IsWrite(Call(q)) THEN acked \cup {Number(runs[q])} ELSE acked)
      BY DEF Answer
    <3>2. CASE \E q \in Slots : Answer(q)
      BY <3>1, <3>2
    <3>3. CASE ~\E q \in Slots : Answer(q)
      BY <3>3 DEF Next, Use, Tick, Start, Serve, Catch, Fail, Expel, Elsewhere, vars
    <3> QED BY <3>2, <3>3
  <2>2. \A q \in Slots : Busy(q) /\ IsWrite(Call(q)) => Number(runs[q]) \in 1..issued
    BY Numbered
  <2>3. CASE Busy(s) /\ Pristine(runs[s], n)
    <3>1. n \notin acked /\ n \in Numbers(runs[s])
      BY <2>3 DEF Unacked, Pristine
    <3>2. \A q \in Slots : q # s /\ Busy(q) /\ IsWrite(Call(q)) => Number(runs[q]) # n
      <4> SUFFICES ASSUME NEW q \in Slots, q # s, Busy(q), IsWrite(Call(q)) PROVE Number(runs[q]) # n
        OBVIOUS
      <4>1. Number(runs[q]) \in Numbers(runs[q]) /\ Numbers(runs[q]) \cap Numbers(runs[s]) = {}
        BY <2>3, NumbersOf
      <4> QED BY <3>1, <4>1
    <3> QED BY <1>4, <2>1, <3>1, <3>2
  <2>4. CASE \E h \in DOMAIN Script[page].code, base \in Nat : \E state, data :
               issued <= base /\ runs'[s] = Begun(h, state, data, base)
    <3>1. n \notin 1..issued
      BY <1>1, <1>2, <2>4, PristineBegun
    <3>2. \A q \in Slots : Busy(q) /\ IsWrite(Call(q)) => Number(runs[q]) # n
      BY <2>2, <3>1
    <3> QED BY <1>1, <2>1, <3>1, <3>2
  <2>5. ASSUME Busy(s), NEW x \in Data, NEW changes, runs'[s] = Got(runs[s], x, changes) PROVE Pristine(runs[s], n)
    <3>1. Run(runs[s])
      BY <2>5 DEF Shape
    <3> QED BY <1>2, <2>5, <3>1, PristineGot
  <2> QED BY <1>2, <1>4, <2>3, <2>4, <2>5, Moves
<1> QED BY <1>3, <1>4

LEMMA UnackedInit == Init => Unacked
BY DEF Init, Unacked

-----------------------------------------------------------------------------
(* A handler that changes something was answered what its current request   *)
(* is about, and nothing else.                                              *)
Current == \A s \in Slots : Busy(s) /\ Writes(runs[s].h) # {} => DOMAIN runs[s].got \subseteq Call(s).on

LEMMA NeverLate ==
  ASSUME page \in Pages, NEW run, Run(run), Writes(run.h) # {}
  PROVE  ~Code(run.h).calls[run.at].late
<1>1. Orderly(page) /\ run.h \in DOMAIN Script[page].code /\ run.at \in DOMAIN Code(run.h).calls
  BY OrderlyAssumption DEF Pages, Run
<1>2. Code(run.h).calls[run.at].late => \A j \in DOMAIN Code(run.h).calls : Code(run.h).calls[j].op = "get"
  BY <1>1 DEF Orderly, Code
<1> QED BY <1>2 DEF Writes, IsWrite

LEMMA BegunNothing ==
  ASSUME NEW h, NEW state, NEW data, NEW base
  PROVE  /\ DOMAIN Begun(h, state, data, base).got = {} /\ Begun(h, state, data, base).at = 1
         /\ Begun(h, state, data, base).h = h
<1>1. DOMAIN <<>> = {}
  OBVIOUS
<1> QED BY <1>1 DEF Begun

LEMMA CurrentStep == ASSUME Shape, Current, [Next]_vars PROVE Current'
<1>1. page' = page /\ page \in Pages
  BY ShapeStep DEF Shape
<1>2. SUFFICES ASSUME NEW s \in Slots, runs'[s] # Free, Writes(runs'[s].h) # {}
               PROVE  DOMAIN runs'[s].got \subseteq Code(runs'[s].h).calls[runs'[s].at].on
  BY <1>1 DEF Current, Busy, Slots, Call, Writes, IsWrite, Code
<1>3. ASSUME NEW h, NEW state, NEW data, NEW base, runs'[s] = Begun(h, state, data, base)
      PROVE  DOMAIN runs'[s].got = {}
  BY <1>3, BegunNothing
<1>4. CASE Answer(s)
  <2>1. PICK run : run = runs[s]
    OBVIOUS
  <2>2. Run(run)
    BY <1>4, <2>1, AnswerForm
  <2>3. ASSUME run.at < Len(Code(run.h).calls), NEW got, DOMAIN got \subseteq DOMAIN run.got,
               DOMAIN got = {} \/ Call(s).late, runs'[s] = Onward(run, got)
        PROVE  DOMAIN runs'[s].got = {}
    <3>1. DOMAIN got \subseteq Data
      BY <2>2, <2>3 DEF Run
    <3>2. runs'[s].h = run.h /\ runs'[s].got = got
      BY <1>1, <2>2, <2>3, <3>1, OnwardRuns
    <3>3. ~Call(s).late
      BY <1>1, <1>2, <2>1, <2>2, <3>2, NeverLate DEF Call
    <3> QED BY <2>3, <3>2, <3>3
  <2>4. DOMAIN runs'[s].got = {}
    BY <1>2, <1>3, <1>4, <2>1, <2>3, AnswerMoves
  <2> QED BY <2>4
<1>5. CASE ~Answer(s)
  <2>1. CASE Busy(s) /\ runs'[s] = runs[s]
    BY <1>2, <2>1 DEF Current, Call
  <2>2. ASSUME Busy(s), NEW x \in Data, NEW changes, x \in Call(s).on, runs'[s] = Got(runs[s], x, changes)
        PROVE  DOMAIN runs'[s].got \subseteq Code(runs'[s].h).calls[runs'[s].at].on
    <3>1. Run(runs[s])
      BY <2>2 DEF Shape
    <3>2. /\ runs'[s].h = runs[s].h /\ runs'[s].at = runs[s].at
          /\ DOMAIN runs'[s].got = DOMAIN runs[s].got \cup {x}
      BY <2>2, <3>1, GotMore
    <3> QED BY <1>2, <2>2, <3>2 DEF Current, Call
  <2>3. ASSUME NEW h \in DOMAIN Script[page].code, NEW base \in Nat, NEW state, NEW data,
               runs'[s] = Begun(h, state, data, base)
        PROVE  DOMAIN runs'[s].got \subseteq Code(runs'[s].h).calls[runs'[s].at].on
    BY <1>3, <2>3
  <2> QED BY <1>2, <1>5, <2>1, <2>2, <2>3, Moves
<1> QED BY <1>4, <1>5

LEMMA CurrentInit == Init => Current
<1> SUFFICES ASSUME Init, NEW s \in Slots, Busy(s) PROVE DOMAIN runs[s].got \subseteq Call(s).on
  BY DEF Current
<1>1. runs[s] = Begun(Script[page].mount[s], ui, view, 0)
  BY Mounted
<1> QED BY <1>1, BegunNothing

-----------------------------------------------------------------------------
(* Plain pages: a control starts its own handler, if that awaits anything,  *)
(* and takes nothing from what is shown.                                    *)
LEMMA PlainStart ==
  ASSUME Shape, Plain(page), NEW h \in DOMAIN Script[page].code, NEW update, Start(h, update)
  PROVE  /\ \A s \in Slots :
              \/ runs'[s] = runs[s]
              \/ /\ s \in Idle /\ Place(s) = 1 /\ Code(h).calls # <<>>
                 /\ runs'[s] = Begun(h, ui', view, issued)
         /\ \A r \in Data :
              /\ view[r].seen \subseteq view'[r].seen
              /\ "first" \in Code(h).local /\ (\E k \in Writes(h) : r \in Code(h).calls[k].on) =>
                   issued + 1 \in view'[r].seen
         /\ ui.here /\ acked' = acked /\ db' = db /\ faults' = faults /\ (crossed => crossed')
<1>1. PICK begun : begun = After(ui, update)
  OBVIOUS
<1>2. PICK st : st = Started(h, begun)
  OBVIOUS
<1>3. /\ page \in Pages /\ issued \in Nat /\ db' = db /\ acked' = acked /\ faults' = faults /\ ui.here
      /\ view' = Prepared(h, ui') /\ DOMAIN view = Data
      /\ \A s \in Slots :
           \/ runs'[s] = runs[s]
           \/ /\ s \in Idle /\ Place(s) \in 1..Len(st)
              /\ runs'[s] = Begun(st[Place(s)], ui', view, Base(st, Place(s)))
  BY <1>1, <1>2, StartForm DEF Shape
<1>4. Code(h).also = "" /\ "" \notin DOMAIN Script[page].code /\ Code(h).clears = {}
  BY DEF Plain, Code
<1>5. \A i \in 1..Len(st) : i = 1 /\ st[i] = h /\ Code(h).calls # <<>>
  <2>1. \A i \in 1..Len(st) : /\ st[i] \in DOMAIN Script[page].code /\ Code(st[i]).calls # <<>>
                              /\ (i = 1 /\ st[i] = h) \/ st[i] = Code(h).also
    BY <1>2, <1>3, Bases
  <2> QED BY <1>4, <2>1
<1>6. Base(st, 1) = issued
  BY <1>2, <1>3, FirstBase
<1>7. ASSUME NEW s \in Slots
      PROVE  \/ runs'[s] = runs[s]
             \/ s \in Idle /\ Place(s) = 1 /\ Code(h).calls # <<>> /\ runs'[s] = Begun(h, ui', view, issued)
  <2>1. CASE /\ s \in Idle /\ Place(s) \in 1..Len(st)
             /\ runs'[s] = Begun(st[Place(s)], ui', view, Base(st, Place(s)))
    <3>1. Place(s) = 1 /\ st[1] = h /\ Code(h).calls # <<>>
      BY <1>5, <2>1
    <3> QED BY <1>6, <2>1, <3>1
  <2> QED BY <1>3, <2>1
<1>8. \A r \in Data :
        /\ view[r].seen \subseteq view'[r].seen
        /\ "first" \in Code(h).local /\ (\E k \in Writes(h) : r \in Code(h).calls[k].on) =>
             issued + 1 \in view'[r].seen
  BY <1>3, <1>4, EditPrepared
<1>9. crossed => crossed'
  BY DEF Start
<1> QED BY <1>3, <1>7, <1>8, <1>9

(* The handler that follows another one changes nothing. *)
LEMMA PlainNext ==
  ASSUME Plain(page), NEW h \in DOMAIN Script[page].code, Code(h).next \in DOMAIN Script[page].code
  PROVE  /\ Code(h).next # "" /\ Writes(Code(h).next) = {}
         /\ \A state : Goes(Code(h).next, state)
<1>1. PICK then : then = Code(h).next
  OBVIOUS
<1>2. then # "" /\ DOMAIN Code(then).when = {} /\ Changes(page, then) = {}
  BY <1>1 DEF Plain, Code
<1> QED BY <1>1, <1>2 DEF Writes, IsWrite, Changes, Goes, Code

-----------------------------------------------------------------------------
(* While a page is loaded, its flag is as it was mounted, and beside the    *)
(* load runs only what looks.                                               *)
Loaders(m) == {m, Script[page].mount[1]}

Loading(m, flag) ==
  ui.here => \A s \in Slots : Busy(s) /\ runs[s].h \in Loaders(m) =>
    /\ ui[flag] = Script[page].start[flag] /\ acked = {}
    /\ \A q \in Slots \ {s} : Busy(q) => runs[q].h \notin Loaders(m) /\ Aside(page, runs[q].h)

LEMMA LoadsOnly ==
  ASSUME page \in Pages, Plain(page), NEW m \in DOMAIN Script[page].code, NEW flag, Loads(page, m, flag)
  PROVE  /\ DOMAIN Script[page].mount = {1} /\ Script[page].timer = {} /\ flag \in DOMAIN Script[page].start
         /\ Loaders(m) \subseteq DOMAIN Script[page].code
         /\ \A h \in Loaders(m) : Writes(h) = {}
         /\ \A h \in DOMAIN Script[page].code : Code(h).next \in Loaders(m) => /\ Code(h).next = m /\ h # m
                                                                            /\ h \in Loaders(m)
<1>1. PICK first : first = Script[page].mount[1]
  OBVIOUS
<1>2. /\ DOMAIN Script[page].mount = {1} /\ Script[page].timer = {} /\ flag \in DOMAIN Script[page].start
      /\ m = first \/ m = Script[page].code[first].next
      /\ \A h \in DOMAIN Script[page].code : Code(h).next # first /\ (Code(h).next = m => h = first /\ h # m)
  BY <1>1 DEF Loads, Code
<1>3. Orderly(page) /\ Script[page].mount \in Seq({h \in DOMAIN Script[page].code : Script[page].code[h].calls # <<>>})
  BY ScriptAssumption, OrderlyAssumption DEF Pages
<1>4. first \in DOMAIN Script[page].code
  <2>1. PICK begin : /\ begin = {h \in DOMAIN Script[page].code : Script[page].code[h].calls # <<>>}
                     /\ Script[page].mount \in Seq(begin)
    BY <1>3
  <2>2. first \in begin
    BY <1>1, <1>2, <2>1
  <2> QED BY <2>1, <2>2
<1>5. Writes(first) = {}
  <2>1. \A k \in DOMAIN Code(first).calls : Code(first).calls[k].op = "get"
    BY <1>1, <1>2, <1>3 DEF Orderly, Code
  <2> QED BY <2>1 DEF Writes, IsWrite
<1>6. m # first => Writes(m) = {}
  <2>1. m # first => Changes(page, m) = {}
    BY <1>2, <1>4 DEF Plain
  <2> QED BY <2>1 DEF Writes, IsWrite, Changes, Code
<1> QED BY <1>1, <1>2, <1>4, <1>5, <1>6 DEF Loaders

LEMMA AsideOnly ==
  ASSUME NEW h, Aside(page, h)
  PROVE  Writes(h) = {} /\ Code(h).next = ""
BY DEF Aside, Looks, Writes, IsWrite, Code

LEMMA LoadingStart ==
  ASSUME Shape, Typed, Plain(page), NEW m \in DOMAIN Script[page].code, NEW flag, Loads(page, m, flag), Loading(m, flag),
         NEW h \in DOMAIN Script[page].code, Use(h) \/ Tick(h),
         NEW s \in Slots, runs'[s] # Free, runs'[s].h \in Loaders(m)
  PROVE  /\ ui'[flag] = Script[page].start[flag] /\ acked' = {}
         /\ \A q \in Slots \ {s} : runs'[q] # Free => runs'[q].h \notin Loaders(m) /\ Aside(page, runs'[q].h)
<1>1. /\ page \in Pages /\ Script[page].timer = {} /\ flag \in DOMAIN ui
  BY LoadsOnly DEF Shape, Typed, Fields
<1>2. /\ h \in DOMAIN Script[page].shown /\ h \notin Loaders(m)
      /\ \A f \in DOMAIN Script[page].shown[h] : ui[f] \in Script[page].shown[h][f]
  BY <1>1 DEF Use, Tick, Enabled, Loads, Loaders
<1>3. PICK update :
        /\ Start(h, update)
        /\ \A f \in DOMAIN update :
             \/ f \in DOMAIN Code(h).begin /\ update[f] = Code(h).begin[f]
             \/ f = Code(h).pick /\ f # "" /\ update[f] \in Chosen
  BY UseForm
<1>4. /\ ui.here /\ acked' = acked
      /\ \A q \in Slots : runs'[q] = runs[q] \/ runs'[q] = Begun(h, ui', view, issued)
  BY <1>3, PlainStart
<1>5. \A q \in Slots : runs'[q] = runs[q] \/ runs'[q].h = h
  BY <1>4, BegunNamed
<1>6. runs'[s] = runs[s] /\ Busy(s) /\ runs[s].h \in Loaders(m)
  BY <1>2, <1>5 DEF Busy
<1>7. /\ ui[flag] = Script[page].start[flag] /\ acked = {}
      /\ \A q \in Slots \ {s} : Busy(q) => runs[q].h \notin Loaders(m) /\ Aside(page, runs[q].h)
  BY <1>4, <1>6 DEF Loading
<1>8. Aside(page, h)
  BY <1>2, <1>7 DEF Loads
<1>9. ui'[flag] = ui[flag]
  <2>1. flag \notin DOMAIN update
    BY <1>3 DEF Loads, Code
  <2>2. PICK begun : begun = After(ui, update)
    OBVIOUS
  <2>3. flag \in DOMAIN begun /\ begun[flag] = ui[flag]
    BY <1>1, <2>1, <2>2 DEF After
  <2>4. ui' = Entered(Code(h).also, begun) /\ Code(h).also = ""
    BY <1>3, <2>2, StartForm DEF Plain, Code
  <2> QED BY <2>3, <2>4 DEF Entered, Goes
<1> QED BY <1>2, <1>4, <1>5, <1>7, <1>8, <1>9 DEF Busy

LEMMA LoadingAnswer ==
  ASSUME Shape, Typed, Plain(page), NEW m \in DOMAIN Script[page].code, NEW flag, Loads(page, m, flag), Loading(m, flag),
         NEW q \in Slots, Answer(q), ui'.here,
         NEW s \in Slots, runs'[s] # Free, runs'[s].h \in Loaders(m)
  PROVE  /\ ui'[flag] = Script[page].start[flag] /\ acked' = {}
         /\ \A p \in Slots \ {s} : runs'[p] # Free => runs'[p].h \notin Loaders(m) /\ Aside(page, runs'[p].h)
<1>1. /\ page \in Pages /\ flag \in DOMAIN ui /\ \A h \in Loaders(m) : Writes(h) = {}
      /\ \A h \in DOMAIN Script[page].code : Code(h).next \in Loaders(m) => /\ Code(h).next = m /\ h # m
                                                                         /\ h \in Loaders(m)
  BY LoadsOnly DEF Shape, Typed, Fields
<1>2. PICK run : run = runs[q]
  OBVIOUS
<1>3. PICK then : then = Code(run.h).next
  OBVIOUS
<1>4. PICK got : got = IF Call(q).late THEN run.got ELSE <<>>
  OBVIOUS
<1>5. /\ Busy(q) /\ Run(run) /\ \A p \in Slots \ {q} : runs'[p] \in {runs[p], Free}
      /\ acked' = (IF IsWrite(Call(q)) THEN acked \cup {Number(run)} ELSE acked)
      /\ \/ /\ run.at < Len(Code(run.h).calls) /\ runs'[q] = Onward(run, got)
            /\ ui' = ui /\ DOMAIN got \subseteq Data
         \/ runs'[q] = Free
         \/ then \in DOMAIN Script[page].code /\ runs'[q] = Begun(then, ui', view', issued)
  BY <1>2, <1>3, <1>4, AnswerForm
<1>6. /\ run.h \in DOMAIN Script[page].code /\ run.at \in DOMAIN Code(run.h).calls /\ Call(q) = Code(run.h).calls[run.at]
      /\ then \in DOMAIN Script[page].code \cup {""}
      /\ ui' = ui \/ \E end \in Code(run.h).ok : ui.here /\ ui' = Entered(then, After(ui, end))
  BY <1>2, <1>3, <1>5, AnswerUi DEF Run, Call
<1>7. ui.here
  BY <1>6
<1>8. \/ run.at < Len(Code(run.h).calls) /\ runs'[q].h = run.h /\ ui' = ui
      \/ runs'[q] = Free
      \/ then \in DOMAIN Script[page].code /\ runs'[q].h = then
  BY <1>1, <1>5, OnwardRuns, BegunNamed
<1>9. ASSUME run.h # m PROVE ui'[flag] = ui[flag]
  <2>1. ASSUME NEW end \in Code(run.h).ok, ui' = Entered(then, After(ui, end)) PROVE ui'[flag] = ui[flag]
    <3>1. flag \notin DOMAIN end
      BY <1>6, <1>9, <2>1 DEF Loads, Code
    <3>2. PICK state : state = After(ui, end)
      OBVIOUS
    <3>3. flag \in DOMAIN state /\ state[flag] = ui[flag]
      BY <1>1, <3>1, <3>2 DEF After
    <3>4. then = "" \/ flag \notin DOMAIN Code(then).begin
      BY <1>6 DEF Loads, Code
    <3>5. Entered(then, state)[flag] = ui[flag]
      BY <3>3, <3>4 DEF Entered, Goes, After
    <3> QED BY <2>1, <3>2, <3>5
  <2> QED BY <1>6, <2>1
<1>10. ASSUME Writes(run.h) = {} PROVE acked' = acked
  BY <1>5, <1>6, <1>10 DEF Writes
<1>11. CASE s = q
  <2>1. run.h \in Loaders(m)
    BY <1>1, <1>3, <1>6, <1>8, <1>11
  <2>2. /\ ui[flag] = Script[page].start[flag] /\ acked = {}
        /\ \A p \in Slots \ {s} : Busy(p) => runs[p].h \notin Loaders(m) /\ Aside(page, runs[p].h)
    BY <1>2, <1>5, <1>7, <1>11, <2>1 DEF Loading
  <2>3. ui'[flag] = ui[flag]
    <3>1. CASE ui' = ui
      BY <3>1
    <3>2. CASE runs'[q].h = then
      BY <1>1, <1>3, <1>6, <1>9, <1>11, <3>2
    <3> QED BY <1>8, <1>11, <3>1, <3>2
  <2> QED BY <1>1, <1>5, <1>10, <1>11, <2>1, <2>2, <2>3 DEF Busy
<1>12. CASE s # q
  <2>1. Busy(s) /\ runs'[s] = runs[s]
    BY <1>5, <1>12 DEF Busy
  <2>2. /\ ui[flag] = Script[page].start[flag] /\ acked = {}
        /\ \A p \in Slots \ {s} : Busy(p) => runs[p].h \notin Loaders(m) /\ Aside(page, runs[p].h)
    BY <1>7, <2>1 DEF Loading
  <2>3. run.h \notin Loaders(m) /\ Aside(page, run.h)
    BY <1>2, <1>5, <1>12, <2>2
  <2>4. Writes(run.h) = {} /\ then = "" /\ run.h # m
    BY <1>3, <2>3, AsideOnly DEF Loaders
  <2>5. runs'[q] = Free \/ runs'[q].h = run.h
    BY <1>8, <2>4 DEF Plain
  <2> QED BY <1>5, <1>9, <1>10, <2>2, <2>3, <2>4, <2>5 DEF Busy
<1> QED BY <1>11, <1>12

LEMMA LoadingStep ==
  ASSUME Shape, Typed, Plain(page), NEW m \in DOMAIN Script[page].code, NEW flag, Loads(page, m, flag), Loading(m, flag),
         [Next]_vars
  PROVE  Loading(m, flag)'
<1>1. page' = page /\ page \in Pages
  BY ShapeStep DEF Shape
<1>2. SUFFICES ASSUME ui'.here, NEW s \in Slots, runs'[s] # Free, runs'[s].h \in Loaders(m)
               PROVE  /\ ui'[flag] = Script[page].start[flag] /\ acked' = {}
                      /\ \A q \in Slots \ {s} : runs'[q] # Free =>
                           runs'[q].h \notin Loaders(m) /\ Aside(page, runs'[q].h)
  BY <1>1 DEF Loading, Loaders, Busy, Slots
<1> DEFINE Goal == /\ ui'[flag] = Script[page].start[flag] /\ acked' = {}
                   /\ \A q \in Slots \ {s} : runs'[q] # Free =>
                        runs'[q].h \notin Loaders(m) /\ Aside(page, runs'[q].h)
<1>3. ASSUME ui.here, ui'[flag] = ui[flag], acked' = acked,
             \A q \in Slots : runs'[q] # Free => runs[q] # Free /\ runs'[q].h = runs[q].h
      PROVE  Goal
  <2>1. Busy(s) /\ runs[s].h \in Loaders(m)
    BY <1>2, <1>3 DEF Busy
  <2>2. /\ ui[flag] = Script[page].start[flag] /\ acked = {}
        /\ \A p \in Slots \ {s} : Busy(p) => runs[p].h \notin Loaders(m) /\ Aside(page, runs[p].h)
    BY <1>3, <2>1 DEF Loading
  <2>3. ASSUME NEW q \in Slots \ {s}, runs'[q] # Free PROVE runs'[q].h \notin Loaders(m) /\ Aside(page, runs'[q].h)
    BY <1>3, <2>2, <2>3 DEF Busy
  <2> QED BY <1>3, <2>2, <2>3
<1>4. ASSUME NEW h \in DOMAIN Script[page].code, Use(h) \/ Tick(h) PROVE Goal
  BY <1>2, <1>4, LoadingStart
<1>5. ASSUME NEW q \in Slots, NEW x \in Data, Serve(q, x) \/ Catch(q, x) PROVE Goal
  <2>1. PICK changes : /\ Busy(q) /\ Run(runs[q]) /\ ui' = ui /\ acked' = acked
                       /\ runs'[q] = Got(runs[q], x, changes) /\ \A p \in Slots \ {q} : runs'[p] = runs[p]
    BY <1>5, ServeForm, CatchForm
  <2>2. Got(runs[q], x, changes).h = runs[q].h
    BY <2>1, GotKeeps
  <2> QED BY <1>2, <1>3, <2>1, <2>2 DEF Busy
<1>6. ASSUME NEW q \in Slots, Answer(q) PROVE Goal
  BY <1>2, <1>6, LoadingAnswer
<1>7. ASSUME NEW q \in Slots, Fail(q) PROVE Goal
  <2>1. /\ Busy(q) /\ runs'[q] = Free /\ acked' = acked /\ \A p \in Slots \ {q} : runs'[p] = runs[p]
        /\ Run(runs[q])
    BY <1>7 DEF Fail, Shape
  <2>2. s # q /\ Busy(s) /\ runs[s].h \in Loaders(m)
    BY <1>2, <2>1 DEF Busy
  <2>3. ui.here
    <3>1. ~ui.here => ui' = ui
      BY <1>7 DEF Fail
    <3> QED BY <1>2, <3>1
  <2>4. runs[q].h # m /\ runs[q].h \in DOMAIN Script[page].code
    BY <2>1, <2>2, <2>3 DEF Loading, Loaders, Run
  <2>5. PICK end \in Code(runs[q].h).err : ui' = After(ui, end)
    BY <1>7, <2>3 DEF Fail
  <2>6. flag \notin DOMAIN end /\ flag \in DOMAIN ui
    BY <1>1, <2>4, <2>5, LoadsOnly DEF Loads, Code, Typed, Fields
  <2>7. ui'[flag] = ui[flag]
    BY <2>5, <2>6 DEF After
  <2> QED BY <1>3, <2>1, <2>3, <2>7 DEF Busy
<1>8. ASSUME NEW q \in Slots, Expel(q) PROVE FALSE
  BY <1>2, <1>8 DEF Expel
<1>9. ASSUME (\E x \in Data : Elsewhere(x)) \/ UNCHANGED vars PROVE Goal
  <2>1. ui' = ui /\ acked' = acked /\ runs' = runs
    BY <1>9 DEF Elsewhere, vars
  <2> QED BY <1>2, <1>3, <2>1
<1> QED BY <1>4, <1>5, <1>6, <1>7, <1>8, <1>9 DEF Next

LEMMA LoadingInit ==
  ASSUME Init, Plain(page), NEW m \in DOMAIN Script[page].code, NEW flag, Loads(page, m, flag)
  PROVE  Loading(m, flag)
<1>1. page \in Pages /\ ui = Script[page].start /\ acked = {}
  BY DEF Init
<1>2. DOMAIN Script[page].mount = {1}
  BY <1>1, LoadsOnly
<1>3. \A s \in Slots : Busy(s) => s = 1
  BY <1>2, Mounted
<1> QED BY <1>1, <1>3 DEF Loading

-----------------------------------------------------------------------------
(* As long as nothing has failed, nobody does what is for after a failure.  *)
Unfailed ==
  faults = 0 =>
    \A g \in DOMAIN Script[page].code, f \in DOMAIN Script[page].start : AfterFault(page, g, f) =>
      /\ ui[f] \notin Script[page].shown[g][f]
      /\ \A s \in Slots : Busy(s) => runs[s].h # g

LEMMA EnteredEither ==
  ASSUME NEW h, NEW state, NEW f \in DOMAIN state
  PROVE  \/ Entered(h, state)[f] = state[f]
         \/ h # "" /\ f \in DOMAIN Code(h).begin /\ Entered(h, state)[f] = Code(h).begin[f]
BY DEF Entered, Goes, After

LEMMA UnfailedStep == ASSUME Shape, Typed, Plain(page), Unfailed, [Next]_vars PROVE Unfailed'
<1>1. page' = page /\ page \in Pages /\ faults \in Nat
  <2>1. faults \in Nat
    BY ConsoleAssumption DEF Typed
  <2> QED BY <2>1, ShapeStep DEF Shape
<1>2. SUFFICES ASSUME faults' = 0, NEW g \in DOMAIN Script[page].code, NEW f \in DOMAIN Script[page].start,
                      AfterFault(page, g, f)
               PROVE  ui'[f] \notin Script[page].shown[g][f] /\ \A s \in Slots : runs'[s] # Free => runs'[s].h # g
  BY <1>1 DEF Unfailed, Busy, Slots
<1> DEFINE Goal == ui'[f] \notin Script[page].shown[g][f] /\ \A s \in Slots : runs'[s] # Free => runs'[s].h # g
<1>3. ASSUME faults = 0 PROVE /\ ui[f] \notin Script[page].shown[g][f]
                              /\ \A s \in Slots : runs[s] # Free => runs[s].h # g
  BY <1>2, <1>3 DEF Unfailed, Busy
<1>4. f \in DOMAIN ui
  BY DEF Typed, Fields
<1>5. ASSUME NEW h \in DOMAIN Script[page].code, Use(h) \/ Tick(h) PROVE Goal
  <2>1. PICK update :
          /\ Start(h, update)
          /\ \A x \in DOMAIN update :
               \/ x \in DOMAIN Code(h).begin /\ update[x] = Code(h).begin[x]
               \/ x = Code(h).pick /\ x # "" /\ update[x] \in Chosen
    BY <1>5, UseForm
  <2>2. faults = 0 /\ \A q \in Slots : runs'[q] = runs[q] \/ runs'[q] = Begun(h, ui', view, issued)
    BY <1>2, <2>1, PlainStart
  <2>3. h # g
    BY <1>3, <1>5, <2>2, <1>2 DEF Use, Tick, Enabled, AfterFault
  <2>4. \A q \in Slots : runs'[q] # Free => runs'[q].h # g
    BY <1>3, <2>2, <2>3, BegunNamed
  <2>5. PICK begun : begun = After(ui, update)
    OBVIOUS
  <2>6. ui' = begun
    <3>1. ui' = Entered(Code(h).also, begun) /\ Code(h).also = ""
      BY <2>1, <2>5, StartForm DEF Plain, Code
    <3> QED BY <3>1 DEF Entered, Goes
  <2>7. f \in DOMAIN update => update[f] \notin Script[page].shown[g][f]
    BY <1>2, <2>1 DEF AfterFault, Code
  <2>8. ui'[f] \notin Script[page].shown[g][f]
    BY <1>3, <1>4, <2>2, <2>5, <2>6, <2>7 DEF After
  <2> QED BY <2>4, <2>8
<1>6. ASSUME NEW q \in Slots, NEW x \in Data, Serve(q, x) \/ Catch(q, x) PROVE Goal
  <2>1. PICK changes : /\ Busy(q) /\ Run(runs[q]) /\ ui' = ui
                       /\ runs'[q] = Got(runs[q], x, changes) /\ \A p \in Slots \ {q} : runs'[p] = runs[p]
    BY <1>6, ServeForm, CatchForm
  <2>2. Got(runs[q], x, changes).h = runs[q].h
    BY <2>1, GotKeeps
  <2>3. faults = 0
    BY <1>1, <1>2, <1>6 DEF Serve, Catch
  <2> QED BY <1>3, <2>1, <2>2, <2>3 DEF Busy
<1>7. ASSUME NEW q \in Slots, Answer(q) PROVE Goal
  <2>1. PICK run : run = runs[q]
    OBVIOUS
  <2>2. PICK then : then = Code(run.h).next
    OBVIOUS
  <2>3. PICK got : got = IF Call(q).late THEN run.got ELSE <<>>
    OBVIOUS
  <2>4. /\ Busy(q) /\ Run(run) /\ \A p \in Slots \ {q} : runs'[p] \in {runs[p], Free}
        /\ \/ /\ run.at < Len(Code(run.h).calls) /\ runs'[q] = Onward(run, got) /\ DOMAIN got \subseteq Data
           \/ runs'[q] = Free
           \/ runs'[q] = Begun(then, ui', view', issued)
    BY <1>7, <2>1, <2>2, <2>3, AnswerForm
  <2>5. /\ run.h \in DOMAIN Script[page].code /\ then \in DOMAIN Script[page].code \cup {""}
        /\ ui' = ui \/ \E end \in Code(run.h).ok : ui' = Entered(then, After(ui, end))
    BY <1>7, <2>1, <2>2, AnswerUi
  <2>6. faults = 0
    BY <1>2, <1>7 DEF Answer
  <2>7. then # g
    BY <1>2, <2>2, <2>5 DEF AfterFault, Code
  <2>8. runs'[q] = Free \/ runs'[q].h \in {run.h, then}
    BY <1>1, <2>4, OnwardRuns, BegunNamed
  <2>9. \A p \in Slots : runs'[p] # Free => runs'[p].h # g
    BY <1>3, <2>1, <2>4, <2>6, <2>7, <2>8 DEF Busy
  <2>10. ASSUME NEW end \in Code(run.h).ok, ui' = Entered(then, After(ui, end))
         PROVE  ui'[f] \notin Script[page].shown[g][f]
    <3>1. PICK state : state = After(ui, end)
      OBVIOUS
    <3>2. f \in DOMAIN state /\ (state[f] = ui[f] \/ (f \in DOMAIN end /\ state[f] = end[f]))
      BY <1>4, <3>1 DEF After
    <3>3. state[f] \notin Script[page].shown[g][f]
      BY <1>2, <1>3, <2>5, <2>6, <2>10, <3>2 DEF AfterFault, Code
    <3>4. \/ ui'[f] = state[f]
          \/ then # "" /\ f \in DOMAIN Code(then).begin /\ ui'[f] = Code(then).begin[f]
      BY <2>10, <3>1, <3>2, EnteredEither
    <3> QED BY <1>2, <2>5, <3>3, <3>4 DEF AfterFault, Code
  <2> QED BY <1>3, <2>5, <2>6, <2>9, <2>10
<1>8. ASSUME NEW q \in Slots, Fail(q) \/ Expel(q) PROVE FALSE
  <2>1. faults' = faults + 1
    BY <1>8 DEF Fail, Expel
  <2> QED BY <1>1, <1>2, <2>1
<1>9. ASSUME (\E x \in Data : Elsewhere(x)) \/ UNCHANGED vars PROVE Goal
  <2>1. ui' = ui /\ faults' = faults /\ runs' = runs
    BY <1>9 DEF Elsewhere, vars
  <2> QED BY <1>2, <1>3, <2>1
<1> QED BY <1>5, <1>6, <1>7, <1>8, <1>9 DEF Next

LEMMA UnfailedInit == Init => Unfailed
<1> SUFFICES ASSUME Init, NEW g \in DOMAIN Script[page].code, NEW f \in DOMAIN Script[page].start, AfterFault(page, g, f)
             PROVE  ui[f] \notin Script[page].shown[g][f] /\ \A s \in Slots : Busy(s) => runs[s].h # g
  BY DEF Unfailed
<1>1. ui = Script[page].start
  BY DEF Init
<1>2. ASSUME NEW s \in Slots, Busy(s) PROVE runs[s].h # g
  <2>1. s \in DOMAIN Script[page].mount /\ runs[s] = Begun(Script[page].mount[s], ui, view, 0)
    BY <1>2, Mounted
  <2>2. runs[s].h = Script[page].mount[s]
    BY <2>1, BegunNamed
  <2> QED BY <2>1, <2>2 DEF AfterFault
<1> QED BY <1>1, <1>2 DEF AfterFault

-----------------------------------------------------------------------------
(* A page is left with the answer where every way to end says so. *)
LEMMA LeavesPage ==
  ASSUME Shape, Typed, NEW s \in Slots, Answer(s), ui.here, Leaves(page, runs[s].h, runs[s].at)
  PROVE  ~ui'.here
<1>1. PICK run : run = runs[s]
  OBVIOUS
<1>2. PICK then : then = Code(run.h).next
  OBVIOUS
<1>3. page \in Pages /\ Run(run)
  BY <1>1, AnswerForm
<1>4. /\ run.h \in DOMAIN Script[page].code /\ Len(Code(run.h).calls) \in Nat
      /\ then \in DOMAIN Script[page].code \cup {""}
  BY <1>2, <1>3, CallsTyped DEF Run
<1>5. run.at = Len(Code(run.h).calls) /\ \A end \in Code(run.h).ok : "here" \in DOMAIN end
  BY <1>1 DEF Leaves, Code
<1>6. ~(run.at < Len(Code(run.h).calls))
  <2>1. PICK n : n = Len(Code(run.h).calls)
    OBVIOUS
  <2>2. n \in Nat /\ run.at = n
    BY <1>4, <1>5, <2>1
  <2>3. ~(run.at < n)
    BY <2>2
  <2> QED BY <2>1, <2>3
<1>7. PICK end \in Code(run.h).ok : ui' = Entered(then, After(ui, end))
  BY <1>1, <1>2, <1>6 DEF Answer, GoOn
<1>8. "here" \in DOMAIN end /\ end["here"] = FALSE /\ "here" \in DOMAIN ui
  <2>1. \A u \in Updates(page, run.h) : "here" \in DOMAIN u => u["here"] = FALSE
    BY <1>3, <1>4, LeavingAssumption DEF Pages
  <2>2. end \in Updates(page, run.h)
    BY <1>7 DEF Updates, Code
  <2> QED BY <1>3, <1>5, <1>7, <2>1, <2>2, LeavingAssumption DEF Pages, Typed, Fields
<1>9. PICK state : state = After(ui, end)
  OBVIOUS
<1>10. "here" \in DOMAIN state /\ state["here"] = FALSE
  BY <1>8, <1>9 DEF After
<1>11. then = "" \/ "here" \notin DOMAIN Code(then).begin \/ Code(then).begin["here"] = FALSE
  <2>1. then \in DOMAIN Script[page].code => Code(then).begin \in Updates(page, then)
    BY DEF Updates, Code
  <2> QED BY <1>3, <1>4, <2>1, LeavingAssumption DEF Pages
<1>12. Entered(then, state)["here"] = FALSE
  <2>1. PICK f : f = "here"
    OBVIOUS
  <2>2. f \in DOMAIN state /\ state[f] = FALSE
    BY <1>10, <2>1
  <2>3. then = "" \/ f \notin DOMAIN Code(then).begin \/ Code(then).begin[f] = FALSE
    BY <1>11, <2>1
  <2>4. Entered(then, state)[f] = FALSE
    BY <2>2, <2>3, EnteredOnly
  <2> QED BY <2>1, <2>4
<1> QED BY <1>7, <1>9, <1>12

-----------------------------------------------------------------------------
(* Pages that add to their copy what they change: all that was answered is  *)
(* shown, and so is what is shown before the answer.                        *)
First(run) == Writes(run.h) # {} /\ Code(run.h).local = {"first"} /\ DOMAIN Code(run.h).calls = {1}

Added(told, data, under) ==
  \A r \in Data :
    /\ told \subseteq data[r].seen
    /\ \A s \in Slots : under[s] # Free /\ First(under[s]) => Number(under[s]) \in data[r].seen

Accumulated == ui.here => Added(acked, view, runs)

LEMMA AddedPrimed ==
  ASSUME page' = page
  PROVE  Added(acked, view, runs)' <=> Added(acked', view', runs')
BY DEF Added, First, Writes, IsWrite, Number, Asked, Code, Slots, Data

LEMMA FirstNumber ==
  ASSUME NEW run, First(run), run.at = 1
  PROVE  Number(run) = run.base + 1 /\ Writes(run.h) = {1}
<1>1. Writes(run.h) = {1}
  BY DEF First, Writes
<1>2. Asked(run) = {1}
  BY <1>1 DEF Asked
<1>3. Cardinality({1}) = 1
  BY FS_Singleton
<1> QED BY <1>1, <1>2, <1>3 DEF Number

LEMMA AddedStart ==
  ASSUME Shape, Plain(page), NEW m \in DOMAIN Script[page].code, NEW flag, Accumulates(page, m, flag), Added(acked, view, runs),
         NEW h \in DOMAIN Script[page].code, NEW update, Start(h, update)
  PROVE  Added(acked', view', runs')
<1>1. /\ \A s \in Slots :
           \/ runs'[s] = runs[s]
           \/ runs'[s] = Begun(h, ui', view, issued)
      /\ \A r \in Data :
           /\ view[r].seen \subseteq view'[r].seen
           /\ "first" \in Code(h).local /\ (\E k \in Writes(h) : r \in Code(h).calls[k].on) =>
                issued + 1 \in view'[r].seen
      /\ acked' = acked /\ page \in Pages
  BY PlainStart DEF Shape
<1>2. ASSUME NEW r \in Data, NEW run, run = Begun(h, ui', view, issued), First(run)
      PROVE  Number(run) \in view'[r].seen
  <2>1. run.h = h /\ run.at = 1 /\ Writes(h) # {} /\ run.base = issued
    BY <1>2 DEF Begun, First
  <2>2. Number(run) = issued + 1 /\ Writes(h) = {1}
    BY <1>2, <2>1, FirstNumber
  <2>3. Code(h).calls[1].on = Data
    <3>1. h # m
      BY <1>1, <2>1, LoadsOnly DEF Accumulates, Loaders
    <3>2. 1 \in DOMAIN Code(h).calls /\ Code(h).calls[1].op # "get"
      BY <2>2 DEF Writes, IsWrite
    <3> QED BY <3>1, <3>2 DEF Accumulates, Code, Data
  <2>4. "first" \in Code(h).local
    BY <1>2, <2>1 DEF First
  <2> QED BY <1>1, <2>2, <2>3, <2>4
<1>3. ASSUME NEW r \in Data, NEW s \in Slots, runs'[s] # Free, First(runs'[s])
      PROVE  Number(runs'[s]) \in view'[r].seen
  BY <1>1, <1>2, <1>3 DEF Added
<1> QED BY <1>1, <1>3 DEF Added

(* What a page that adds holds once a request is answered.                  *)
LEMMA AddedHeld ==
  ASSUME Shape, Typed, Fetched, Current, NEW m \in DOMAIN Script[page].code, NEW flag, Accumulates(page, m, flag), Added(acked, view, runs),
         NEW s \in Slots, Answer(s), ui.here, ui'.here, runs[s].h # m, NEW r \in Data
  PROVE  view[r].seen \subseteq view'[r].seen /\ (IsWrite(Call(s)) => Number(runs[s]) \in view'[r].seen)
<1>1. PICK run : run = runs[s]
  OBVIOUS
<1>2. page \in Pages /\ Busy(s) /\ Served(s) /\ Run(run) /\ view'[r] = Held(s, r)
  BY <1>1, AnswerForm
<1>3. run.h \in DOMAIN Script[page].code \ {m} /\ run.at \in DOMAIN Code(run.h).calls /\ Call(s) = Code(run.h).calls[run.at]
  BY <1>1, <1>2 DEF Run, Call
<1>4. CASE ~IsWrite(Call(s))
  <2>1. Call(s).on = {}
    BY <1>3, <1>4 DEF Accumulates, IsWrite, Code
  <2>2. r \notin DOMAIN run.got
    <3>1. CASE Writes(run.h) # {}
      BY <1>1, <1>2, <2>1, <3>1 DEF Current
    <3>2. CASE Writes(run.h) = {}
      <4>1. \A k \in DOMAIN Code(run.h).calls : Code(run.h).calls[k].on = {}
        BY <1>3, <3>2 DEF Accumulates, Writes, IsWrite, Code
      <4> QED BY <1>1, <1>2, <4>1 DEF Fetched, Asking
    <3> QED BY <3>1, <3>2
  <2>3. Held(s, r) = view[r]
    BY <1>1, <2>2 DEF Held
  <2> QED BY <1>2, <1>4, <2>3
<1>5. CASE IsWrite(Call(s))
  <2>1. /\ Call(s).on = Data /\ Writes(run.h) # {}
        /\ \/ Code(run.h).local = {"now"}
           \/ Code(run.h).local = {"first"} /\ DOMAIN Code(run.h).calls = {1}
           \/ Leaves(page, run.h, run.at)
    BY <1>3, <1>5 DEF Accumulates, Writes, IsWrite, Code, Data
  <2>2. ~Leaves(page, run.h, run.at)
    BY <1>1, LeavesPage
  <2>3. Held(s, r) = Written(s, r)
    <3>1. r \in DOMAIN run.got
      BY <1>1, <1>2, <2>1 DEF Served
    <3>2. ~Call(s).late
      BY <1>2, <1>3, <2>1, NeverLate
    <3> QED BY <1>1, <1>5, <2>1, <3>1, <3>2 DEF Held
  <2>4. CASE Code(run.h).local = {"now"}
    <3>1. Written(s, r) = [of |-> view[r].of, seen |-> view[r].seen \cup {Number(run)}]
      BY <1>1, <2>4 DEF Written
    <3> QED BY <1>1, <1>2, <2>3, <3>1
  <2>5. CASE Code(run.h).local = {"first"} /\ DOMAIN Code(run.h).calls = {1}
    <3>1. Written(s, r) = view[r]
      BY <1>1, <2>5 DEF Written
    <3>2. Number(run) \in view[r].seen
      BY <1>1, <1>2, <2>1, <2>5 DEF Added, First, Busy
    <3> QED BY <1>1, <1>2, <2>3, <3>1, <3>2
  <2> QED BY <2>1, <2>2, <2>4, <2>5
<1> QED BY <1>4, <1>5

LEMMA AddedAnswer ==
  ASSUME Shape, Typed, Fetched, Current, Plain(page), NEW m \in DOMAIN Script[page].code, NEW flag, Accumulates(page, m, flag), Loading(m, flag),
         Added(acked, view, runs), NEW s \in Slots, Answer(s), ui.here, ui'.here
  PROVE  Added(acked', view', runs')
<1>1. PICK run : run = runs[s]
  OBVIOUS
<1>2. PICK then : then = Code(run.h).next
  OBVIOUS
<1>3. PICK got : got = IF Call(s).late THEN run.got ELSE <<>>
  OBVIOUS
<1>4. /\ page \in Pages /\ Busy(s) /\ Run(run) /\ \A q \in Slots \ {s} : runs'[q] \in {runs[q], Free}
      /\ acked' = (IF IsWrite(Call(s)) THEN acked \cup {Number(run)} ELSE acked)
      /\ \/ run.at < Len(Code(run.h).calls) /\ runs'[s] = Onward(run, got) /\ DOMAIN got \subseteq Data
         \/ runs'[s] = Free
         \/ then \in DOMAIN Script[page].code /\ runs'[s] = Begun(then, ui', view', issued)
  BY <1>1, <1>2, <1>3, AnswerForm
<1>5. run.h \in DOMAIN Script[page].code /\ run.at \in DOMAIN Code(run.h).calls
  BY <1>4 DEF Run
<1>6. runs'[s] # Free => ~First(runs'[s])
  <2>1. ASSUME run.at < Len(Code(run.h).calls), runs'[s] = Onward(run, got), DOMAIN got \subseteq Data PROVE ~First(runs'[s])
    <3>1. runs'[s].h = run.h
      BY <1>4, <2>1, OnwardRuns
    <3>2. DOMAIN Code(run.h).calls # {1}
      <4>1. PICK n \in Nat : n = Len(Code(run.h).calls) /\ DOMAIN Code(run.h).calls = 1..n
        BY <1>4, <1>5, CallsTyped
      <4>2. run.at \in 1..n /\ run.at < n
        BY <1>5, <2>1, <4>1
      <4>3. 1 \in 1..n /\ n \in 1..n /\ n # 1
        BY <4>2
      <4> QED BY <4>1, <4>3
    <3> QED BY <3>1, <3>2 DEF First
  <2>2. ASSUME then \in DOMAIN Script[page].code, runs'[s] = Begun(then, ui', view', issued) PROVE ~First(runs'[s])
    <3>1. Writes(then) = {}
      BY <1>2, <1>5, <2>2, PlainNext
    <3>2. runs'[s].h = then
      BY <2>2, BegunNamed
    <3> QED BY <3>1, <3>2 DEF First
  <2> QED BY <1>4, <2>1, <2>2
<1>7. CASE run.h = m
  <2>1. acked = {} /\ \A q \in Slots \ {s} : Busy(q) => Writes(runs[q].h) = {}
    <3>1. acked = {} /\ \A q \in Slots \ {s} : Busy(q) => Aside(page, runs[q].h)
      BY <1>1, <1>4, <1>7 DEF Loading, Loaders
    <3> QED BY <3>1, AsideOnly
  <2>2. ~IsWrite(Call(s))
    <3>1. Writes(run.h) = {}
      BY <1>4, <1>7, LoadsOnly DEF Accumulates, Loaders
    <3> QED BY <1>1, <1>5, <3>1 DEF Writes, Call
  <2>3. \A q \in Slots : runs'[q] # Free => ~First(runs'[q])
    BY <1>4, <1>6, <2>1 DEF Busy, First
  <2> QED BY <1>4, <2>1, <2>2, <2>3 DEF Added
<1>8. CASE run.h # m
  <2>1. \A r \in Data : view[r].seen \subseteq view'[r].seen /\ (IsWrite(Call(s)) => Number(run) \in view'[r].seen)
    BY <1>1, <1>8, AddedHeld
  <2>2. ASSUME NEW r \in Data, NEW q \in Slots, runs'[q] # Free, First(runs'[q])
        PROVE  Number(runs'[q]) \in view'[r].seen
    <3>1. q # s /\ runs'[q] = runs[q]
      BY <1>4, <1>6, <2>2
    <3> QED BY <2>1, <2>2, <3>1 DEF Added
  <2> QED BY <1>4, <2>1, <2>2 DEF Added
<1> QED BY <1>7, <1>8

LEMMA AccumulatedStep ==
  ASSUME Shape, Typed, Fetched, Current, Plain(page), NEW m \in DOMAIN Script[page].code, NEW flag, Accumulates(page, m, flag), Loading(m, flag), Accumulated, [Next]_vars
  PROVE  Accumulated'
<1>1. page' = page /\ page \in Pages
  BY ShapeStep DEF Shape
<1>2. SUFFICES ASSUME ui'.here PROVE Added(acked', view', runs')
  BY <1>1, AddedPrimed DEF Accumulated
<1>3. ASSUME ui.here, acked' = acked, view' = view, \A q \in Slots : runs'[q] \in {runs[q], Free}
      PROVE  Added(acked', view', runs')
  BY <1>3 DEF Accumulated, Added
<1>4. ASSUME NEW h \in DOMAIN Script[page].code, Use(h) \/ Tick(h) PROVE Added(acked', view', runs')
  <2>1. PICK update : Start(h, update) /\ ui.here
    BY <1>4 DEF Use, Tick, Start
  <2> QED BY <2>1, AddedStart DEF Accumulated
<1>5. ASSUME NEW q \in Slots, NEW x \in Data, Serve(q, x) \/ Catch(q, x) PROVE Added(acked', view', runs')
  <2>1. PICK changes : /\ Busy(q) /\ Run(runs[q]) /\ ui' = ui /\ acked' = acked /\ view' = view
                       /\ runs'[q] = Got(runs[q], x, changes) /\ \A p \in Slots \ {q} : runs'[p] = runs[p]
    BY <1>5, ServeForm, CatchForm
  <2>2. /\ Got(runs[q], x, changes).h = runs[q].h /\ Number(Got(runs[q], x, changes)) = Number(runs[q])
    BY <2>1, GotMore
  <2>3. \A p \in Slots : runs'[p] # Free /\ First(runs'[p]) =>
          runs[p] # Free /\ First(runs[p]) /\ Number(runs'[p]) = Number(runs[p])
    BY <2>1, <2>2 DEF First, Busy
  <2> QED BY <1>2, <2>1, <2>3 DEF Accumulated, Added
<1>6. ASSUME NEW q \in Slots, Answer(q) PROVE Added(acked', view', runs')
  <2>1. ~ui.here => ui' = ui
    BY <1>6 DEF Answer, GoOn
  <2> QED BY <1>2, <1>6, <2>1, AddedAnswer DEF Accumulated
<1>7. ASSUME NEW q \in Slots, Fail(q) PROVE Added(acked', view', runs')
  <2>1. /\ acked' = acked /\ view' = view /\ \A p \in Slots : runs'[p] \in {runs[p], Free}
        /\ (~ui.here => ui' = ui)
    BY <1>7 DEF Fail, Shape
  <2> QED BY <1>2, <1>3, <2>1
<1>8. ASSUME NEW q \in Slots, Expel(q) PROVE FALSE
  BY <1>2, <1>8 DEF Expel
<1>9. ASSUME (\E x \in Data : Elsewhere(x)) \/ UNCHANGED vars PROVE Added(acked', view', runs')
  <2>1. ui' = ui /\ acked' = acked /\ view' = view /\ runs' = runs
    BY <1>9 DEF Elsewhere, vars
  <2> QED BY <1>2, <1>3, <2>1
<1> QED BY <1>4, <1>5, <1>6, <1>7, <1>8, <1>9 DEF Next

LEMMA MountedReads ==
  ASSUME Init, NEW s \in Slots, Busy(s)
  PROVE  Writes(runs[s].h) = {} /\ DOMAIN runs[s].got = {}
<1>1. PICK h : h = Script[page].mount[s]
  OBVIOUS
<1>2. page \in Pages /\ s \in DOMAIN Script[page].mount /\ runs[s] = Begun(h, ui, view, 0)
  BY <1>1, Mounted
<1>3. Orderly(page)
  BY <1>2, OrderlyAssumption DEF Pages
<1>4. \A k \in DOMAIN Code(h).calls : Code(h).calls[k].op = "get"
  BY <1>1, <1>2, <1>3 DEF Orderly, Code
<1> QED BY <1>2, <1>4, BegunNothing DEF Writes, IsWrite

LEMMA AccumulatedInit == Init => Accumulated
<1> SUFFICES ASSUME Init PROVE Added(acked, view, runs)
  BY DEF Accumulated
<1>1. acked = {}
  BY DEF Init
<1>2. \A s \in Slots : runs[s] # Free => ~First(runs[s])
  BY MountedReads DEF First, Busy
<1> QED BY <1>1, <1>2 DEF Added

-----------------------------------------------------------------------------
(* What is not shown yet will be: a run has been answered it, still has to  *)
(* ask for it, is followed by one that asks for it, or replaces the copy by *)
(* what it sent.                                                            *)
Brings(run, r) ==
  LET call == Code(run.h).calls[run.at]
  IN  \/ r \in DOMAIN run.got /\ ~IsWrite(call)
      \/ Fetches(page, run.h, r, run.at) \/ Follows(page, run.h, r)
      \/ IsWrite(call) /\ r \in call.on /\ "sent" \in Code(run.h).local

(* A request answered before a change took effect is not shown after it.    *)
Fresh(run, r, told, store) ==
  r \in DOMAIN run.got /\ ~IsWrite(Code(run.h).calls[run.at]) =>
    run.got[r] # Lost /\ told \cap store[r] \subseteq run.got[r]

Coming(r, told, data, store, under) ==
  /\ \A s \in Slots : under[s] # Free => Fresh(under[s], r, told, store)
  /\ \/ told \cap store[r] \subseteq data[r].seen
     \/ \E s \in Slots : under[s] # Free /\ Brings(under[s], r)

LEMMA FetchesEarlier ==
  ASSUME page \in Pages, NEW h \in DOMAIN Script[page].code, NEW r, NEW k \in Nat, Fetches(page, h, r, k)
  PROVE  Fetches(page, h, r, 1)
<1>1. \A j \in DOMAIN Code(h).calls : j >= 1
  <2>1. PICK n \in Nat : DOMAIN Code(h).calls = 1..n
    BY CallsTyped
  <2> QED BY <2>1
<1> QED BY <1>1 DEF Fetches, Code

(* What a run was given by a request that changes nothing, its handler asks *)
(* for.                                                                     *)
LEMMA GotFetches ==
  ASSUME Shape, Fetched, Current, NEW s \in Slots, Busy(s), ~IsWrite(Call(s)), NEW r, r \in DOMAIN runs[s].got
  PROVE  Fetches(page, runs[s].h, r, 1)
<1>1. PICK h : h = runs[s].h
  OBVIOUS
<1>2. page \in Pages /\ h \in DOMAIN Script[page].code /\ runs[s].at \in DOMAIN Code(h).calls
  BY <1>1 DEF Shape, Run
<1>3. \A j \in DOMAIN Code(h).calls : j >= 1
  <2>1. PICK n \in Nat : DOMAIN Code(h).calls = 1..n
    BY <1>2, CallsTyped
  <2> QED BY <2>1
<1>4. \E k \in DOMAIN Code(h).calls : Code(h).calls[k].op = "get" /\ r \in Code(h).calls[k].on
  <2>1. CASE Writes(h) # {}
    <3>1. r \in Call(s).on /\ Call(s).op = "get"
      BY <1>1, <2>1 DEF Current, IsWrite
    <3> QED BY <1>1, <1>2, <3>1 DEF Call
  <2>2. CASE Writes(h) = {}
    <3>1. PICK k \in DOMAIN Code(h).calls : r \in Code(h).calls[k].on
      BY <1>1 DEF Fetched, Asking
    <3>2. Code(h).calls[k].op = "get"
      BY <2>2 DEF Writes, IsWrite
    <3> QED BY <3>1, <3>2
  <2> QED BY <2>1, <2>2
<1> QED BY <1>1, <1>3, <1>4 DEF Fetches, Code

LEMMA BringsBegun ==
  ASSUME NEW h, NEW r, Fetches(page, h, r, 1) \/ Follows(page, h, r), NEW state, NEW data, NEW base
  PROVE  Brings(Begun(h, state, data, base), r)
<1>1. PICK run : run = Begun(h, state, data, base)
  OBVIOUS
<1>2. run.h = h /\ run.at = 1
  BY <1>1, BegunNothing
<1> QED BY <1>1, <1>2 DEF Brings

LEMMA BringsGot ==
  ASSUME NEW run, Run(run), NEW x \in Data, NEW changes, NEW r, Brings(run, r)
  PROVE  Brings(Got(run, x, changes), r)
<1>1. PICK more : more = Got(run, x, changes)
  OBVIOUS
<1>2. more.h = run.h /\ more.at = run.at /\ DOMAIN more.got = DOMAIN run.got \cup {x}
  BY <1>1, GotMore
<1> QED BY <1>1, <1>2 DEF Brings

(* The handler that follows begins. *)
LEMMA NextBegun ==
  ASSUME Shape, Plain(page), NEW s \in Slots, Answer(s), ~(runs[s].at < Len(Code(runs[s].h).calls)),
         NEW then, then = Code(runs[s].h).next, then # "", Code(then).calls # <<>>
  PROVE  /\ then \in DOMAIN Script[page].code /\ Writes(then) = {}
         /\ runs'[s] = Begun(then, ui', view', issued) /\ runs'[s] # Free
<1>1. PICK run : run = runs[s]
  OBVIOUS
<1>2. /\ page \in Pages /\ Run(run) /\ run.h \in DOMAIN Script[page].code
      /\ \E state : \/ Calls(then, state) = <<>>
                    \/ runs'[s] = Begun(then, ui', view', issued)
  BY <1>1, AnswerForm DEF Run
<1>3. then \in DOMAIN Script[page].code
  BY <1>1, <1>2, CallsTyped
<1>4. Writes(then) = {} /\ \A state : Goes(then, state)
  BY <1>1, <1>2, <1>3, PlainNext
<1>5. \A state : Calls(then, state) # <<>>
  <2>1. <<then>> # <<>>
    OBVIOUS
  <2> QED BY <1>4, <2>1 DEF Calls
<1>6. runs'[s] = Begun(then, ui', view', issued)
  <2>1. \/ runs[s].at < Len(Code(runs[s].h).calls)
        \/ \E state : Calls(then, state) = <<>>
        \/ runs'[s] = Begun(then, ui', view', issued)
    BY AnswerForm
  <2> QED BY <1>5, <2>1
<1>7. runs'[s] # Free
  <2>1. PICK state, data : state = ui' /\ data = view'
    OBVIOUS
  <2>2. Run(Begun(then, state, data, issued))
    BY <1>2, <1>3, BegunRuns
  <2>3. Begun(then, state, data, issued) # Free
    BY <2>2, RunBusy
  <2> QED BY <1>6, <2>1, <2>3
<1> QED BY <1>3, <1>4, <1>6, <1>7

(* What comes after the current request of a run. *)
LEMMA BringsOn ==
  ASSUME Shape, Plain(page), NEW s \in Slots, Answer(s), NEW r,
         Fetches(page, runs[s].h, r, runs[s].at + 1) \/ Follows(page, runs[s].h, r)
  PROVE  runs'[s] # Free /\ Brings(runs'[s], r)
<1>1. PICK run : run = runs[s]
  OBVIOUS
<1>2. PICK then : then = Code(run.h).next
  OBVIOUS
<1>3. page \in Pages /\ Run(run) /\ run.h \in DOMAIN Script[page].code /\ run.at \in DOMAIN Code(run.h).calls
  BY <1>1, AnswerForm DEF Run
<1>4. CASE run.at < Len(Code(run.h).calls)
  <2>1. PICK got : DOMAIN got \subseteq Data /\ runs'[s] = Onward(run, got)
    BY <1>1, <1>4, AnswerForm
  <2>2. PICK more : more = Onward(run, got)
    OBVIOUS
  <2>3. Run(more) /\ more.h = run.h /\ more.at = run.at + 1
    BY <1>3, <1>4, <2>1, <2>2, OnwardRuns
  <2> QED BY <1>1, <2>1, <2>2, <2>3, RunBusy DEF Brings
<1>5. CASE ~(run.at < Len(Code(run.h).calls))
  <2>1. Follows(page, run.h, r)
    <3>1. PICK n \in Nat : n = Len(Code(run.h).calls) /\ DOMAIN Code(run.h).calls = 1..n
      BY <1>3, CallsTyped
    <3>2. run.at \in 1..n /\ ~(run.at < n)
      BY <1>3, <1>5, <3>1
    <3>3. \A j \in DOMAIN Code(run.h).calls : ~(j >= run.at + 1)
      BY <3>1, <3>2
    <3> QED BY <1>1, <3>3 DEF Fetches, Code
  <2>2. then # "" /\ Fetches(page, then, r, 1)
    BY <1>2, <2>1 DEF Follows, Code
  <2>3. Code(then).calls # <<>>
    <3>1. DOMAIN <<>> = {}
      OBVIOUS
    <3> QED BY <2>2, <3>1 DEF Fetches, Code
  <2>4. runs'[s] = Begun(then, ui', view', issued) /\ runs'[s] # Free
    BY <1>1, <1>2, <1>5, <2>2, <2>3, NextBegun
  <2> QED BY <2>2, <2>4, BringsBegun
<1> QED BY <1>4, <1>5

(* A run whose answer is not shown yet goes on to show it.                  *)
LEMMA BringsAnswer ==
  ASSUME Shape, Plain(page), NEW s \in Slots, Answer(s), NEW r, Brings(runs[s], r),
         IsWrite(Call(s)) \/ Call(s).late \/ r \notin DOMAIN runs[s].got,
         ~(IsWrite(Call(s)) /\ r \in Call(s).on /\ "sent" \in Code(runs[s].h).local)
  PROVE  runs'[s] # Free /\ Brings(runs'[s], r)
<1>1. PICK run : run = runs[s]
  OBVIOUS
<1>2. PICK h : h = run.h
  OBVIOUS
<1>3. /\ page \in Pages /\ Run(run) /\ Served(s) /\ h \in DOMAIN Script[page].code
      /\ run.at \in DOMAIN Code(h).calls /\ Call(s) = Code(h).calls[run.at]
  BY <1>1, <1>2, AnswerForm DEF Run, Call
<1>4. PICK n \in Nat : n = Len(Code(h).calls) /\ DOMAIN Code(h).calls = 1..n
  BY <1>3, CallsTyped
<1>5. \/ r \in DOMAIN run.got /\ ~IsWrite(Call(s))
      \/ Fetches(page, h, r, run.at + 1) \/ Follows(page, h, r)
  <2>1. CASE Fetches(page, h, r, run.at)
    <3>1. PICK j \in DOMAIN Code(h).calls : j >= run.at /\ Code(h).calls[j].op = "get" /\ r \in Code(h).calls[j].on
      BY <2>1 DEF Fetches, Code
    <3>2. CASE j = run.at
      <4>1. r \in DOMAIN run.got /\ ~IsWrite(Call(s))
        BY <1>1, <1>3, <3>1, <3>2 DEF Served, IsWrite
      <4> QED BY <4>1
    <3>3. CASE j # run.at
      <4>1. j >= run.at + 1
        BY <1>3, <1>4, <3>1, <3>3
      <4> QED BY <3>1, <4>1 DEF Fetches, Code
    <3> QED BY <3>2, <3>3
  <2> QED BY <1>1, <1>2, <1>3, <2>1 DEF Brings
<1>6. CASE Fetches(page, h, r, run.at + 1) \/ Follows(page, h, r)
  BY <1>1, <1>2, <1>6, BringsOn
<1>7. CASE r \in DOMAIN run.got /\ ~IsWrite(Call(s))
  <2>1. Call(s).late
    BY <1>1, <1>7
  <2>2. \A j \in DOMAIN Code(h).calls : Code(h).calls[j].op = "get"
    <3>1. Orderly(page)
      BY <1>3, OrderlyAssumption DEF Pages
    <3> QED BY <1>3, <2>1, <3>1 DEF Orderly, Code
  <2>3. run.at < n
    <3>1. Code(h).calls # <<>> => ~Code(h).calls[Len(Code(h).calls)].late
      BY <1>3 DEF Plain, Code
    <3>2. Code(h).calls # <<>>
      <4>1. DOMAIN <<>> = {}
        OBVIOUS
      <4> QED BY <1>3, <4>1
    <3>3. run.at # n
      BY <1>3, <1>4, <2>1, <3>1, <3>2
    <3> QED BY <1>3, <1>4, <3>3
  <2>4. runs'[s] = Onward(run, run.got) /\ DOMAIN run.got \subseteq Data
    <3>1. PICK got : got = IF Call(s).late THEN run.got ELSE <<>>
      OBVIOUS
    <3>2. ~(run.at = Len(Code(run.h).calls)) /\ run.at < Len(Code(run.h).calls)
      BY <1>2, <1>3, <1>4, <2>3
    <3>3. runs'[s] = Onward(run, got)
      BY <1>1, <3>1, <3>2, AnswerForm
    <3> QED BY <1>3, <2>1, <3>1, <3>3 DEF Run
  <2>5. PICK more : more = Onward(run, run.got)
    OBVIOUS
  <2>6. Run(more) /\ more.h = h /\ more.at \in DOMAIN Code(h).calls /\ more.got = run.got
    <3>1. Run(more) /\ more.h = run.h /\ more.got = run.got
      BY <1>2, <1>3, <1>4, <2>3, <2>4, <2>5, OnwardRuns
    <3> QED BY <1>2, <3>1 DEF Run
  <2>7. Brings(more, r)
    BY <1>7, <2>2, <2>6 DEF Brings, IsWrite
  <2> QED BY <2>4, <2>5, <2>6, <2>7, RunBusy
<1> QED BY <1>5, <1>6, <1>7

(* A run that is cancelled is replaced by one that asks for the same.       *)
LEMMA BringsCancelled ==
  ASSUME Shape, Fetched, Current, Plain(page), NEW s \in Slots, Answer(s), NEW q \in Slots \ {s}, Busy(q),
         NEW r, Brings(runs[q], r), runs'[q] # runs[q]
  PROVE  runs'[s] # Free /\ Brings(runs'[s], r)
<1>1. PICK then : then = Code(runs[s].h).next
  OBVIOUS
<1>2. /\ page \in Pages /\ runs[q].h = then /\ then \in DOMAIN Script[page].code
      /\ ~(runs[s].at < Len(Code(runs[s].h).calls))
  <2>1. /\ runs[q].h = then /\ then \in DOMAIN Script[page].code
        /\ runs[s].at = Len(Code(runs[s].h).calls) /\ page \in Pages
        /\ Len(Code(runs[s].h).calls) \in Nat
    BY <1>1, AnswerForm, CallsTyped DEF Run
  <2>2. PICK n \in Nat : n = Len(Code(runs[s].h).calls) /\ runs[s].at = n
    BY <2>1
  <2>3. ~(n < n)
    OBVIOUS
  <2> QED BY <2>1, <2>2, <2>3
<1>3. Run(runs[q]) /\ runs[q].at \in DOMAIN Code(then).calls
  BY <1>2 DEF Shape, Run
<1>4. then # "" /\ Code(then).calls # <<>>
  <2>1. DOMAIN <<>> = {}
    OBVIOUS
  <2> QED BY <1>2, <1>3, <2>1 DEF Plain
<1>5. runs'[s] = Begun(then, ui', view', issued) /\ runs'[s] # Free /\ Writes(then) = {}
  BY <1>1, <1>2, <1>4, NextBegun
<1>6. ~IsWrite(Call(q))
  BY <1>2, <1>3, <1>5 DEF Writes, Call
<1>7. Fetches(page, then, r, 1) \/ Follows(page, then, r)
  <2>1. r \in DOMAIN runs[q].got => Fetches(page, then, r, 1)
    BY <1>2, <1>6, GotFetches
  <2>2. Fetches(page, then, r, runs[q].at) => Fetches(page, then, r, 1)
    <3>1. runs[q].at \in Nat
      <4>1. PICK n \in Nat : DOMAIN Code(then).calls = 1..n
        BY <1>2, CallsTyped
      <4> QED BY <1>3, <4>1
    <3> QED BY <1>2, <3>1, FetchesEarlier
  <2> QED BY <1>2, <1>6, <2>1, <2>2 DEF Brings, Call
<1> QED BY <1>5, <1>7, BringsBegun

LEMMA ComingPrimed ==
  ASSUME page' = page, NEW r
  PROVE  Coming(r, acked, view, db, runs)' <=> Coming(r, acked', view', db', runs')
BY DEF Coming, Fresh, Brings, Fetches, Follows, IsWrite, Code, Slots

LEMMA ComingStart ==
  ASSUME Shape, Plain(page), NEW r \in Data, Coming(r, acked, view, db, runs),
         NEW h \in DOMAIN Script[page].code, NEW update, Start(h, update)
  PROVE  Coming(r, acked', view', db', runs')
<1>1. /\ \A s \in Slots : runs'[s] = runs[s] \/ (s \in Idle /\ runs'[s] = Begun(h, ui', view, issued))
      /\ view[r].seen \subseteq view'[r].seen /\ acked' = acked /\ db' = db
  BY PlainStart
<1>2. ASSUME NEW s \in Slots, runs'[s] # Free PROVE Fresh(runs'[s], r, acked', db')
  <2>1. CASE runs'[s] = runs[s]
    BY <1>1, <1>2, <2>1 DEF Coming
  <2>2. CASE runs'[s] = Begun(h, ui', view, issued)
    <3>1. DOMAIN runs'[s].got = {}
      BY <2>2, BegunNothing
    <3> QED BY <3>1 DEF Fresh
  <2> QED BY <1>1, <2>1, <2>2
<1>3. \A s \in Slots : runs[s] # Free => runs'[s] = runs[s]
  BY <1>1 DEF Idle, Busy
<1> QED BY <1>1, <1>2, <1>3 DEF Coming

LEMMA ComingServe ==
  ASSUME Shape, Typed, Unacked, NEW r \in Data, Coming(r, acked, view, db, runs),
         NEW s \in Slots, NEW x \in Data, Serve(s, x),
         Call(s).op = "put" => "sent" \in Code(runs[s].h).local /\ \A q \in Slots : Busy(q) => q = s
  PROVE  Coming(r, acked', view', db', runs')
<1>1. PICK run, changes : run = runs[s] /\ changes = Handled(s, x)
  OBVIOUS
<1>2. PICK more : more = Got(run, x, changes)
  OBVIOUS
<1>3. /\ page \in Pages /\ view' = view /\ acked' = acked /\ Busy(s) /\ Run(run)
      /\ x \in Call(s).on /\ db'[x] = changes /\ \A y \in Data \ {x} : db'[y] = db[y]
      /\ runs'[s] = more /\ \A q \in Slots \ {s} : runs'[q] = runs[q]
  BY <1>1, <1>2, ServeForm
<1>4. run.at \in DOMAIN Code(run.h).calls /\ Call(s) = Code(run.h).calls[run.at]
  BY <1>1, <1>3 DEF Run, Call
<1>5. /\ more.h = run.h /\ more.at = run.at /\ DOMAIN more.got = DOMAIN run.got \cup {x}
      /\ more.got[x] = changes /\ \A y \in DOMAIN run.got : y # x => more.got[y] = run.got[y]
      /\ more # Free
  <2>1. Run(Got(run, x, changes))
    BY <1>3, GotRuns
  <2>2. more # Free
    BY <1>2, <2>1, RunBusy
  <2> QED BY <1>2, <1>3, <2>2, GotMore
<1>6. /\ Call(s).op \in {"get", "add", "put"}
      /\ \A q \in Slots : runs'[q] # Free => runs[q] # Free
  <2>1. Call(s) \in Requests(page)
    BY <1>3, <1>4, CallsTyped DEF Run
  <2> QED BY <1>1, <1>3, <2>1 DEF Requests, Busy
<1>7. \A q \in Slots : runs[q] # Free /\ Brings(runs[q], r) => runs'[q] # Free /\ Brings(runs'[q], r)
  <2>1. Brings(run, r) => Brings(more, r)
    BY <1>2, <1>3, BringsGot
  <2> QED BY <1>1, <1>3, <1>5, <2>1
<1>8. CASE acked \cap db'[r] = acked \cap db[r]
  <2>1. ASSUME NEW q \in Slots, q # s, runs'[q] # Free PROVE Fresh(runs'[q], r, acked', db')
    BY <1>3, <1>6, <1>8, <2>1 DEF Coming, Fresh
  <2>2. Fresh(more, r, acked', db')
    <3>1. Fresh(run, r, acked, db)
      BY <1>1, <1>3 DEF Coming, Busy
    <3>2. CASE r # x
      <4>1. r \in DOMAIN more.got => r \in DOMAIN run.got /\ more.got[r] = run.got[r]
        BY <1>5, <3>2
      <4> QED BY <1>3, <1>5, <1>8, <3>1, <4>1 DEF Fresh
    <3>3. CASE r = x /\ IsWrite(Call(s))
      BY <1>4, <1>5, <3>3 DEF Fresh
    <3>4. CASE r = x /\ ~IsWrite(Call(s))
      <4>1. more.got[r] = db[r] /\ db[r] \subseteq 1..issued
        BY <1>1, <1>5, <3>4 DEF Handled, IsWrite, Typed
      <4>2. more.got[r] # Lost
        BY <4>1 DEF Lost
      <4> QED BY <1>3, <1>8, <4>1, <4>2 DEF Fresh
    <3> QED BY <3>2, <3>3, <3>4
  <2>3. \A q \in Slots : runs'[q] # Free => Fresh(runs'[q], r, acked', db')
    BY <1>3, <2>1, <2>2
  <2> QED BY <1>3, <1>7, <1>8, <2>3 DEF Coming
<1>9. CASE r = x /\ Call(s).op = "put"
  <2>1. IsWrite(Code(more.h).calls[more.at]) /\ r \in Code(more.h).calls[more.at].on /\ "sent" \in Code(more.h).local
    BY <1>1, <1>3, <1>4, <1>5, <1>9 DEF IsWrite
  <2>2. Brings(more, r) /\ Fresh(more, r, acked', db')
    BY <2>1 DEF Brings, Fresh
  <2>3. \A q \in Slots : runs'[q] # Free => q = s
    BY <1>6, <1>9 DEF Busy
  <2> QED BY <1>3, <1>5, <2>2, <2>3 DEF Coming
<1>10. CASE r # x \/ Call(s).op = "get"
  <2>1. db'[r] = db[r]
    BY <1>1, <1>3, <1>10 DEF Handled
  <2> QED BY <1>8, <2>1
<1>11. CASE r = x /\ Call(s).op = "add"
  <2>1. Pristine(run, Number(run))
    BY <1>1, <1>3, <1>4, <1>11, NumbersOf DEF Pristine, IsWrite
  <2>2. Number(run) \notin acked
    BY <1>1, <1>3, <2>1 DEF Unacked
  <2>3. db'[r] = db[r] \cup {Number(run)}
    BY <1>1, <1>3, <1>11 DEF Handled
  <2> QED BY <1>8, <2>2, <2>3
<1> QED BY <1>6, <1>9, <1>10, <1>11

(* An answer to a request that changes nothing.                             *)
LEMMA ComingRead ==
  ASSUME Shape, Fetched, Current, Plain(page), NEW r \in Data, Coming(r, acked, view, db, runs),
         NEW s \in Slots, Answer(s), ~IsWrite(Call(s)), ui.here
  PROVE  Coming(r, acked', view', db', runs')
<1>1. PICK run : run = runs[s]
  OBVIOUS
<1>2. PICK then : then = Code(run.h).next
  OBVIOUS
<1>3. PICK got : got = IF Call(s).late THEN run.got ELSE <<>>
  OBVIOUS
<1>4. /\ page \in Pages /\ db' = db /\ Busy(s) /\ Run(run) /\ Served(s) /\ view'[r] = Held(s, r) /\ acked' = acked
      /\ \A q \in Slots \ {s} : runs'[q] \in {runs[q], Free}
      /\ \/ run.at < Len(Code(run.h).calls) /\ runs'[s] = Onward(run, got) /\ DOMAIN got \subseteq Data
         \/ runs'[s] = Free
         \/ runs'[s] = Begun(then, ui', view', issued)
  BY <1>1, <1>2, <1>3, AnswerForm
<1>5. run.h \in DOMAIN Script[page].code /\ run.at \in DOMAIN Code(run.h).calls /\ Call(s) = Code(run.h).calls[run.at]
  BY <1>1, <1>4 DEF Run, Call
<1>6. Fresh(run, r, acked, db)
  BY <1>1, <1>4 DEF Coming, Busy
<1>7. runs'[s] # Free => Fresh(runs'[s], r, acked', db')
  <2>1. CASE run.at < Len(Code(run.h).calls) /\ runs'[s] = Onward(run, got) /\ DOMAIN got \subseteq Data
    <3>1. PICK more : more = Onward(run, got)
      OBVIOUS
    <3>2. more.got = got
      BY <1>4, <2>1, <3>1, OnwardRuns
    <3>3. r \in DOMAIN got => got = run.got
      <4>1. DOMAIN <<>> = {}
        OBVIOUS
      <4> QED BY <1>3, <4>1
    <3>4. Fresh(more, r, acked', db')
      BY <1>4, <1>5, <1>6, <3>2, <3>3 DEF Fresh
    <3> QED BY <2>1, <3>1, <3>4
  <2>2. CASE runs'[s] = Begun(then, ui', view', issued)
    <3>1. DOMAIN runs'[s].got = {}
      BY <2>2, BegunNothing
    <3> QED BY <3>1 DEF Fresh
  <2> QED BY <1>4, <2>1, <2>2
<1>8. ASSUME NEW q \in Slots, runs'[q] # Free PROVE Fresh(runs'[q], r, acked', db')
  <2>1. CASE q # s
    BY <1>4, <1>8, <2>1 DEF Coming
  <2> QED BY <1>7, <1>8, <2>1
<1>9. CASE r \in DOMAIN run.got /\ ~Call(s).late
  <2>1. run.got[r] # Lost /\ acked \cap db[r] \subseteq run.got[r]
    BY <1>5, <1>6, <1>9 DEF Fresh
  <2>2. ~Code(run.h).keyed
    BY <1>5 DEF Plain, Code
  <2>3. view'[r] = Read(s, r)
    BY <1>1, <1>4, <1>9 DEF Held
  <2>4. view'[r].seen = run.got[r]
    BY <1>1, <2>1, <2>2, <2>3 DEF Read
  <2> QED BY <1>4, <1>8, <2>1, <2>4 DEF Coming
<1>10. CASE ~(r \in DOMAIN run.got /\ ~Call(s).late)
  <2>1. view'[r] = view[r]
    BY <1>1, <1>4, <1>10 DEF Held
  <2>2. ASSUME NEW q \in Slots, Busy(q), Brings(runs[q], r)
        PROVE  \E p \in Slots : runs'[p] # Free /\ Brings(runs'[p], r)
    <3>1. CASE q = s
      BY <1>1, <1>10, <2>2, <3>1, BringsAnswer
    <3>2. CASE q # s /\ runs'[q] # runs[q]
      BY <2>2, <3>2, BringsCancelled
    <3>3. CASE runs'[q] = runs[q]
      BY <2>2, <3>3 DEF Busy
    <3> QED BY <3>1, <3>2, <3>3
  <2> QED BY <1>4, <1>8, <2>1, <2>2 DEF Coming, Busy
<1> QED BY <1>9, <1>10

LEMMA ComingElsewhere ==
  ASSUME Shape, Typed, NEW r \in Data, Coming(r, acked, view, db, runs), NEW x \in Data, Elsewhere(x)
  PROVE  Coming(r, acked', view', db', runs')
<1>1. /\ acked' = acked /\ view' = view /\ runs' = runs /\ db' = [db EXCEPT ![x] = @ \cup {issued + 1}]
      /\ issued \in Nat /\ acked \subseteq 1..issued /\ db = [y \in Data |-> db[y]]
  BY DEF Elsewhere, Typed, Shape
<1>2. db'[r] = db[r] \/ db'[r] = db[r] \cup {issued + 1}
  BY <1>1
<1>3. issued + 1 \notin acked
  BY <1>1
<1>4. acked' \cap db'[r] = acked \cap db[r]
  BY <1>1, <1>2, <1>3
<1> QED BY <1>1, <1>4 DEF Coming, Fresh

-----------------------------------------------------------------------------
(* Pages that reload or patch: the numbers a handler has still to use are   *)
(* in no resource, and what it stores or was answered has all that was.     *)
Carries(run, r, told, store) ==
  LET call == Code(run.h).calls[run.at]
  IN  Writes(run.h) # {} =>
        /\ \A n : Pristine(run, n) /\ (n = Number(run) => r \notin call.on) => n \notin store[r]
        /\ IsWrite(call) /\ r \in call.on =>
             /\ "sent" \in Code(run.h).local => told \cap store[r] \subseteq run.snap[r]
             /\ r \in DOMAIN run.got => told \cap store[r] \subseteq run.got[r] /\ Number(run) \in run.got[r]

(* A handler that changes something is the only one under way.              *)
Single(under) ==
  \A s, q \in Slots : under[s] # Free /\ under[q] # Free /\ Writes(under[s].h) # {} => s = q

Follow(r, told, data, store, under) ==
  /\ Coming(r, told, data, store, under) /\ Single(under)
  /\ \A s \in Slots : under[s] # Free => Carries(under[s], r, told, store)

Followed(r) == Beside => Follow(r, acked, view, db, runs)

LEMMA FollowPrimed ==
  ASSUME page' = page, NEW r
  PROVE  Follow(r, acked, view, db, runs)' <=> Follow(r, acked', view', db', runs')
BY DEF Follow, Single, Carries, Pristine, Numbers, Number, Asked, Writes, Coming, Fresh, Brings, Fetches, Follows,
       IsWrite, Code, Slots

LEMMA SingleKept ==
  ASSUME Single(runs),
         \A q \in Slots : runs'[q] # Free =>
           runs[q] # Free /\ (runs'[q].h = runs[q].h \/ Writes(runs'[q].h) = {})
  PROVE  Single(runs')
BY DEF Single

LEMMA OneNumber ==
  ASSUME NEW run, run.base \in Nat, DOMAIN Code(run.h).calls = {1}, run.at = 1, IsWrite(Code(run.h).calls[1]),
         NEW n, Pristine(run, n)
  PROVE  n = Number(run)
<1>1. Writes(run.h) = {1}
  BY DEF Writes
<1>2. Asked(run) = {1}
  BY <1>1 DEF Asked
<1>3. Cardinality({1}) = 1
  BY FS_Singleton
<1>4. Number(run) = run.base + 1 /\ n \in run.base + 1 .. run.base + 1
  BY <1>1, <1>2, <1>3 DEF Number, Numbers, Pristine
<1> QED BY <1>4

LEMMA FollowStart ==
  ASSUME Shape, Typed, Plain(page), NEW r \in Data, Follow(r, acked, view, db, runs),
         NEW h \in DOMAIN Script[page].code, NEW update, Start(h, update), ~crossed'
  PROVE  Follow(r, acked', view', db', runs')
<1>1. /\ \A s \in Slots :
           \/ runs'[s] = runs[s]
           \/ s \in Idle /\ Place(s) = 1 /\ runs'[s] = Begun(h, ui', view, issued)
      /\ acked' = acked /\ db' = db /\ page \in Pages /\ issued \in Nat /\ db[r] \subseteq 1..issued
  BY PlainStart DEF Shape, Typed
<1>2. Coming(r, acked', view', db', runs')
  BY ComingStart DEF Follow
<1>3. \A s \in Slots : Busy(s) => Writes(h) = {} /\ Writes(runs[s].h) = {}
  <2>1. crossed' = (crossed \/ \E s \in Slots : Busy(s) /\ Writes(h) \cup Writes(runs[s].h) # {})
    BY DEF Start
  <2> QED BY <2>1
<1>4. PICK run : run = Begun(h, ui', view, issued)
  OBVIOUS
<1>5. run.h = h /\ run.at = 1 /\ DOMAIN run.got = {}
  BY <1>4, BegunNothing
<1>6. CASE Writes(h) = {}
  <2>1. \A s \in Slots : runs'[s] # Free => Writes(runs'[s].h) = {}
    BY <1>1, <1>3, <1>4, <1>5, <1>6 DEF Busy
  <2> QED BY <1>2, <2>1 DEF Follow, Single, Carries
<1>7. CASE Writes(h) # {}
  <2>1. \A s \in Slots : runs[s] = Free
    BY <1>3, <1>7 DEF Busy
  <2>2. \A s \in Slots : runs'[s] # Free => s \in Idle /\ Place(s) = 1 /\ runs'[s] = run
    BY <1>1, <1>4, <2>1
  <2>3. Single(runs')
    <3> SUFFICES ASSUME NEW s \in Slots, NEW q \in Slots, runs'[s] # Free, runs'[q] # Free PROVE s = q
      BY DEF Single
    <3>1. s \in Idle /\ q \in Idle /\ Place(s) = 1 /\ Place(q) = 1
      BY <2>2
    <3>2. s \in Int /\ q \in Int
      BY ConsoleAssumption DEF Slots
    <3> QED BY <3>1, <3>2, Places
  <2>4. acked \cap db[r] \subseteq view[r].seen
    BY <2>1 DEF Follow, Coming
  <2>5. \A n : Pristine(run, n) => n \notin db[r]
    <3> SUFFICES ASSUME NEW n, Pristine(run, n) PROVE n \notin db[r]
      OBVIOUS
    <3>1. PICK state, data : state = ui' /\ data = view
      OBVIOUS
    <3>2. Pristine(Begun(h, state, data, issued), n)
      BY <1>4, <3>1
    <3>3. n \notin 1..issued
      BY <1>1, <3>2, PristineBegun
    <3> QED BY <1>1, <3>3
  <2>6. ASSUME IsWrite(Code(h).calls[1]), r \in Code(h).calls[1].on, 1 \in DOMAIN Code(h).calls
        PROVE  run.snap[r] = view[r].seen
    <3>1. 1 \in Writes(h)
      BY <2>6 DEF Writes
    <3> QED BY <1>4, <2>6, <3>1 DEF Begun
  <2>7. 1 \in DOMAIN Code(h).calls
    <3>1. DOMAIN Code(h).calls # {}
      BY <1>7 DEF Writes
    <3>2. PICK n \in Nat : DOMAIN Code(h).calls = 1..n
      BY <1>1, CallsTyped
    <3>3. n # 0
      BY <3>1, <3>2
    <3> QED BY <3>2, <3>3
  <2>8. Carries(run, r, acked', db')
    BY <1>1, <1>5, <2>4, <2>5, <2>6, <2>7 DEF Carries
  <2> QED BY <1>2, <2>2, <2>3, <2>8 DEF Follow
<1> QED BY <1>6, <1>7

(* The request of a page that reloads or patches, if it changes something.  *)
LEMMA ReloadsWrite ==
  ASSUME Reloads(page), NEW run, Run(run), IsWrite(Code(run.h).calls[run.at])
  PROVE  LET call == Code(run.h).calls[run.at]
             local == Code(run.h).local
         IN  /\ Writes(run.h) # {}
             /\ call.op = "put" => "sent" \in local
             /\ "sent" \in local => local = {"sent"} /\ DOMAIN Code(run.h).calls = {1} /\ run.at = 1
             /\ local \cap {"sent", "now", "answer"} = {} =>
                  \A r \in call.on : Fetches(page, run.h, r, run.at + 1) \/ Follows(page, run.h, r)
<1>1. run.at \in Changes(page, run.h) /\ run.at \in DOMAIN Code(run.h).calls /\ run.h \in DOMAIN Script[page].code
  BY DEF Run, Changes, Code, IsWrite
<1> QED BY <1>1 DEF Reloads, Writes, Code

LEMMA FollowServe ==
  ASSUME Shape, Typed, Unacked, Reloads(page), NEW r \in Data, Follow(r, acked, view, db, runs),
         NEW s \in Slots, NEW x \in Data, Serve(s, x)
  PROVE  Follow(r, acked', view', db', runs')
<1>1. PICK run, changes : run = runs[s] /\ changes = Handled(s, x)
  OBVIOUS
<1>2. PICK more : more = Got(run, x, changes)
  OBVIOUS
<1>3. /\ page \in Pages /\ view' = view /\ acked' = acked /\ Busy(s) /\ Run(run)
      /\ x \in Call(s).on /\ db'[x] = changes /\ \A y \in Data \ {x} : db'[y] = db[y]
      /\ runs'[s] = more /\ \A q \in Slots \ {s} : runs'[q] = runs[q]
  BY <1>1, <1>2, ServeForm
<1>4. /\ run.at \in DOMAIN Code(run.h).calls /\ run.h \in DOMAIN Script[page].code
      /\ Call(s) = Code(run.h).calls[run.at]
  BY <1>1, <1>3 DEF Run, Call
<1>5. /\ more.h = run.h /\ more.at = run.at /\ more.snap = run.snap /\ Number(more) = Number(run)
      /\ DOMAIN more.got = DOMAIN run.got \cup {x}
      /\ more.got[x] = changes /\ \A y \in DOMAIN run.got : y # x => more.got[y] = run.got[y]
  BY <1>2, <1>3, GotMore
<1>6. Call(s).op \in {"get", "add", "put"}
  <2>1. Call(s) \in Requests(page)
    BY <1>3, <1>4, CallsTyped
  <2> QED BY <2>1 DEF Requests
<1>7. IsWrite(Call(s)) => /\ Writes(run.h) # {} /\ \A q \in Slots : Busy(q) => q = s
                          /\ (Call(s).op = "put" => "sent" \in Code(run.h).local)
                          /\ ("sent" \in Code(run.h).local => DOMAIN Code(run.h).calls = {1} /\ run.at = 1)
  <2> SUFFICES ASSUME IsWrite(Call(s))
               PROVE  /\ Writes(run.h) # {} /\ \A q \in Slots : Busy(q) => q = s
                      /\ (Call(s).op = "put" => "sent" \in Code(run.h).local)
                      /\ ("sent" \in Code(run.h).local => DOMAIN Code(run.h).calls = {1} /\ run.at = 1)
    OBVIOUS
  <2>1. /\ Writes(run.h) # {}
        /\ (Call(s).op = "put" => "sent" \in Code(run.h).local)
        /\ ("sent" \in Code(run.h).local => DOMAIN Code(run.h).calls = {1} /\ run.at = 1)
    BY <1>3, <1>4, ReloadsWrite
  <2> QED BY <1>1, <1>3, <2>1 DEF Follow, Single, Busy
<1>8. Coming(r, acked', view', db', runs')
  <2>1. Call(s).op = "put" => "sent" \in Code(runs[s].h).local /\ \A q \in Slots : Busy(q) => q = s
    BY <1>1, <1>7 DEF IsWrite
  <2> QED BY <2>1, ComingServe DEF Follow
<1>9. Single(runs')
  BY <1>1, <1>3, <1>5, SingleKept DEF Follow, Busy
<1>10. Carries(run, r, acked, db) /\ run.base \in Nat
  BY <1>1, <1>3, Numbered DEF Follow, Busy
<1>11. \A n : Pristine(more, n) => Pristine(run, n)
  BY <1>2, <1>3, PristineGot
<1>12. CASE ~IsWrite(Call(s))
  <2>1. db'[r] = db[r]
    BY <1>1, <1>3, <1>12 DEF Handled, IsWrite
  <2>2. Carries(more, r, acked', db')
    BY <1>3, <1>4, <1>5, <1>10, <1>11, <1>12, <2>1 DEF Carries
  <2>3. \A q \in Slots : runs'[q] # Free => Carries(runs'[q], r, acked', db')
    BY <1>3, <2>1, <2>2 DEF Follow, Carries
  <2> QED BY <1>8, <1>9, <2>3 DEF Follow
<1>13. CASE IsWrite(Call(s))
  <2>1. Number(run) \notin acked
    <3>1. Pristine(run, Number(run))
      BY <1>1, <1>3, <1>4, <1>13, NumbersOf DEF Pristine
    <3> QED BY <1>1, <1>3, <3>1 DEF Unacked
  <2>2. "sent" \in Code(run.h).local => \A n : Pristine(run, n) => n = Number(run)
    <3>1. SUFFICES ASSUME "sent" \in Code(run.h).local, NEW n, Pristine(run, n) PROVE n = Number(run)
      OBVIOUS
    <3>2. DOMAIN Code(run.h).calls = {1} /\ run.at = 1 /\ IsWrite(Code(run.h).calls[1])
      BY <1>4, <1>7, <1>13, <3>1
    <3> QED BY <1>10, <3>1, <3>2, OneNumber
  <2>3. ASSUME NEW n, Pristine(more, n), n = Number(more) => r \notin Call(s).on PROVE n \notin db'[r]
    <3>1. Pristine(run, n) /\ n \notin db[r]
      BY <1>4, <1>5, <1>7, <1>10, <1>11, <1>13, <2>3 DEF Carries
    <3>2. CASE r # x
      BY <1>3, <3>1, <3>2
    <3>3. CASE r = x
      <4>1. n # Number(run) /\ "sent" \notin Code(run.h).local
        BY <1>3, <1>5, <2>2, <2>3, <3>1, <3>3
      <4>2. db'[r] = db[r] \cup {Number(run)}
        BY <1>1, <1>3, <1>6, <1>7, <1>13, <3>3, <4>1 DEF Handled, IsWrite
      <4> QED BY <3>1, <4>1, <4>2
    <3> QED BY <3>2, <3>3
  <2>4. ASSUME r \in Call(s).on, "sent" \in Code(run.h).local PROVE acked \cap db'[r] \subseteq run.snap[r]
    <3>1. acked \cap db[r] \subseteq run.snap[r]
      BY <1>4, <1>7, <1>10, <1>13, <2>4 DEF Carries
    <3>2. CASE r # x
      BY <1>3, <3>1, <3>2
    <3>3. CASE r = x
      <4>1. db'[r] = db[r] \cup {Number(run)} \/ db'[r] = run.snap[r] \cup {Number(run)}
        BY <1>1, <1>3, <1>6, <1>13, <3>3 DEF Handled, IsWrite
      <4> QED BY <2>1, <3>1, <4>1
    <3> QED BY <3>2, <3>3
  <2>5. ASSUME r \in Call(s).on, r \in DOMAIN more.got
        PROVE  acked \cap db'[r] \subseteq more.got[r] /\ Number(run) \in more.got[r]
    <3>1. CASE r # x
      <4>1. r \in DOMAIN run.got /\ more.got[r] = run.got[r] /\ db'[r] = db[r]
        BY <1>3, <1>5, <2>5, <3>1
      <4> QED BY <1>4, <1>7, <1>10, <1>13, <2>5, <4>1 DEF Carries
    <3>2. CASE r = x
      <4>1. Number(run) \in changes
        BY <1>1, <1>6, <1>13 DEF Handled, IsWrite
      <4> QED BY <1>3, <1>5, <3>2, <4>1
    <3> QED BY <3>1, <3>2
  <2>6. Carries(more, r, acked', db')
    BY <1>3, <1>4, <1>5, <2>3, <2>4, <2>5 DEF Carries
  <2>7. \A q \in Slots : runs'[q] # Free => q = s
    BY <1>3, <1>7, <1>13 DEF Busy
  <2> QED BY <1>3, <1>8, <1>9, <2>6, <2>7 DEF Follow
<1> QED BY <1>12, <1>13

(* What an answer leaves to carry. *)
LEMMA FollowOnward ==
  ASSUME Shape, Typed, Current, Plain(page), Reloads(page), NEW r \in Data, Follow(r, acked, view, db, runs),
         NEW s \in Slots, Answer(s), NEW told
  PROVE  Single(runs') /\ (runs'[s] # Free => Carries(runs'[s], r, told, db'))
<1>1. PICK run : run = runs[s]
  OBVIOUS
<1>2. PICK then : then = Code(run.h).next
  OBVIOUS
<1>3. PICK got : got = IF Call(s).late THEN run.got ELSE <<>>
  OBVIOUS
<1>4. /\ page \in Pages /\ db' = db /\ Busy(s) /\ Run(run)
      /\ \A q \in Slots \ {s} : runs'[q] \in {runs[q], Free}
      /\ \/ run.at < Len(Code(run.h).calls) /\ runs'[s] = Onward(run, got) /\ DOMAIN got \subseteq Data
         \/ runs'[s] = Free
         \/ then \in DOMAIN Script[page].code /\ runs'[s] = Begun(then, ui', view', issued)
  BY <1>1, <1>2, <1>3, AnswerForm
<1>5. run.h \in DOMAIN Script[page].code /\ run.at \in DOMAIN Code(run.h).calls /\ Call(s) = Code(run.h).calls[run.at]
  BY <1>1, <1>4 DEF Run, Call
<1>6. CASE run.at < Len(Code(run.h).calls) /\ runs'[s] = Onward(run, got) /\ DOMAIN got \subseteq Data
  <2>1. PICK more : more = Onward(run, got)
    OBVIOUS
  <2>2. Run(more) /\ more.h = run.h /\ more.got = got /\ more.at = run.at + 1
    BY <1>4, <1>6, <2>1, OnwardRuns
  <2>3. \A q \in Slots : runs'[q] # Free => runs[q] # Free /\ runs'[q].h = runs[q].h
    BY <1>1, <1>4, <1>6, <2>1, <2>2 DEF Busy
  <2>4. Single(runs')
    BY <2>3, SingleKept DEF Follow
  <2>5. ASSUME Writes(run.h) # {} PROVE Carries(more, r, told, db)
    <3>1. ~Call(s).late
      BY <1>4, <1>5, <2>5, NeverLate
    <3>2. DOMAIN more.got = {}
      <4>1. DOMAIN <<>> = {}
        OBVIOUS
      <4> QED BY <1>3, <2>2, <3>1, <4>1
    <3>3. IsWrite(Code(more.h).calls[more.at]) => "sent" \notin Code(more.h).local
      <4> SUFFICES ASSUME IsWrite(Code(more.h).calls[more.at]), "sent" \in Code(more.h).local PROVE FALSE
        OBVIOUS
      <4>1. DOMAIN Code(more.h).calls = {1} /\ more.at = 1
        BY <2>2, ReloadsWrite
      <4>2. run.at \in {1} /\ run.at + 1 = 1
        BY <1>5, <2>2, <4>1
      <4> QED BY <4>2
    <3>4. ASSUME NEW n, Pristine(more, n) PROVE n \notin db[r]
      <4>1. run.base \in Nat
        BY <1>1, <1>4, Numbered
      <4>2. Pristine(run, n) /\ n # Number(run)
        BY <1>4, <1>6, <2>1, <3>4, <4>1, PristineOnward
      <4> QED BY <1>1, <1>4, <2>5, <4>2 DEF Follow, Carries, Busy
    <3> QED BY <3>2, <3>3, <3>4 DEF Carries
  <2>6. Writes(run.h) = {} => Carries(more, r, told, db)
    BY <2>2 DEF Carries
  <2> QED BY <1>4, <1>6, <2>1, <2>4, <2>5, <2>6
<1>7. CASE runs'[s] = Free \/ (then \in DOMAIN Script[page].code /\ runs'[s] = Begun(then, ui', view', issued))
  <2>1. runs'[s] # Free => Writes(runs'[s].h) = {}
    <3> SUFFICES ASSUME then \in DOMAIN Script[page].code, runs'[s] = Begun(then, ui', view', issued)
                 PROVE  Writes(runs'[s].h) = {}
      BY <1>7
    <3>1. Writes(then) = {}
      BY <1>2, <1>5, PlainNext
    <3> QED BY <3>1, BegunNamed
  <2>2. \A q \in Slots : runs'[q] # Free => runs[q] # Free /\ (runs'[q].h = runs[q].h \/ Writes(runs'[q].h) = {})
    BY <1>4, <2>1 DEF Busy
  <2> QED BY <2>1, <2>2, SingleKept DEF Follow, Carries
<1> QED BY <1>4, <1>6, <1>7

(* A change is answered: it is shown, or what comes next asks for it.       *)
LEMMA FollowWritten ==
  ASSUME Shape, Typed, Fetched, Current, Plain(page), Reloads(page), NEW r \in Data,
         Follow(r, acked, view, db, runs), NEW s \in Slots, Answer(s), IsWrite(Call(s)), ui.here
  PROVE  \/ acked' \cap db'[r] \subseteq view'[r].seen
         \/ runs'[s] # Free /\ Brings(runs'[s], r)
<1>1. PICK run : run = runs[s]
  OBVIOUS
<1>2. /\ page \in Pages /\ db' = db /\ Busy(s) /\ Run(run) /\ Served(s) /\ view'[r] = Held(s, r)
      /\ acked' = acked \cup {Number(run)}
  BY <1>1, AnswerForm
<1>3. Call(s) = Code(run.h).calls[run.at] /\ run.h \in DOMAIN Script[page].code /\ run.at \in DOMAIN Code(run.h).calls
  BY <1>1, <1>2 DEF Run, Call
<1>4. /\ Writes(run.h) # {}
      /\ "sent" \in Code(run.h).local => Code(run.h).local = {"sent"}
      /\ Code(run.h).local \cap {"sent", "now", "answer"} = {} =>
           \A x \in Call(s).on : Fetches(page, run.h, x, run.at + 1) \/ Follows(page, run.h, x)
  BY <1>2, <1>3, ReloadsWrite
<1>5. ~Call(s).late
  BY <1>2, <1>3, <1>4, NeverLate
<1>6. \A q \in Slots : runs[q] # Free => q = s
  BY <1>1, <1>2, <1>4 DEF Follow, Single, Busy
<1>7. Carries(run, r, acked, db)
  BY <1>1, <1>2 DEF Follow, Busy
<1>8. acked \cap db[r] \subseteq view[r].seen \/ Brings(run, r)
  BY <1>1, <1>6 DEF Follow, Coming
<1>9. CASE Brings(run, r) /\ ~(r \in Call(s).on /\ "sent" \in Code(run.h).local)
  BY <1>1, <1>9, BringsAnswer
<1>10. CASE r \notin Call(s).on /\ acked \cap db[r] \subseteq view[r].seen
  <2>1. r \notin DOMAIN run.got
    BY <1>1, <1>2, <1>4, <1>10 DEF Current
  <2>2. view'[r] = view[r]
    BY <1>1, <1>2, <2>1 DEF Held
  <2>3. Number(run) \notin db[r]
    <3>1. Pristine(run, Number(run))
      <4>1. Number(run) \in Numbers(run)
        BY <1>1, <1>2, NumbersOf
      <4> QED BY <1>3, <4>1 DEF Pristine
    <3> QED BY <1>3, <1>4, <1>7, <1>10, <3>1 DEF Carries
  <2> QED BY <1>2, <1>10, <2>2, <2>3
<1>11. CASE r \in Call(s).on
  <2>1. r \in DOMAIN run.got
    BY <1>1, <1>2, <1>11 DEF Served
  <2>2. view'[r] = Written(s, r)
    BY <1>1, <1>2, <1>5, <1>11, <2>1 DEF Held
  <2>3. acked \cap db[r] \subseteq run.got[r] /\ Number(run) \in run.got[r]
    BY <1>3, <1>4, <1>7, <1>11, <2>1 DEF Carries
  <2>4. CASE "sent" \in Code(run.h).local
    <3>1. acked \cap db[r] \subseteq run.snap[r]
      BY <1>3, <1>4, <1>7, <1>11, <2>4 DEF Carries
    <3>2. Written(s, r).seen = run.snap[r] \cup {Number(run)}
      <4>1. Code(run.h).local = {"sent"}
        BY <1>4, <2>4
      <4> QED BY <1>1, <4>1 DEF Written
    <3> QED BY <1>2, <2>2, <3>1, <3>2
  <2>5. CASE Code(run.h).local \cap {"sent", "now", "answer"} = {}
    <3>1. runs'[s] # Free /\ Brings(runs'[s], r)
      BY <1>1, <1>4, <1>11, <2>5, BringsOn
    <3> QED BY <3>1
  <2>6. CASE /\ "sent" \notin Code(run.h).local /\ Code(run.h).local \cap {"now", "answer"} # {}
             /\ acked \cap db[r] \subseteq view[r].seen
    <3>1. \/ Written(s, r).seen = view[r].seen \cup {Number(run)}
          \/ Written(s, r).seen = run.got[r]
      BY <1>1, <2>6 DEF Written
    <3> QED BY <1>2, <2>2, <2>3, <2>6, <3>1
  <2> QED BY <1>8, <1>9, <1>11, <2>4, <2>5, <2>6
<1> QED BY <1>8, <1>9, <1>10, <1>11

(* After a change was answered, a run holds no answer.                      *)
LEMMA AnswerEmpty ==
  ASSUME Shape, NEW s \in Slots, Answer(s), Writes(runs[s].h) # {}, runs'[s] # Free
  PROVE  DOMAIN runs'[s].got = {}
<1>1. PICK run : run = runs[s]
  OBVIOUS
<1>2. page \in Pages /\ Run(run)
  BY <1>1, AnswerForm
<1>3. ~Call(s).late
  BY <1>1, <1>2, NeverLate DEF Call
<1>4. ASSUME run.at < Len(Code(run.h).calls), NEW got, DOMAIN got = {}, runs'[s] = Onward(run, got)
      PROVE  DOMAIN runs'[s].got = {}
  <2>1. DOMAIN got \subseteq Data
    BY <1>4
  <2> QED BY <1>2, <1>4, <2>1, OnwardRuns
<1>5. ASSUME NEW h, NEW state, NEW data, runs'[s] = Begun(h, state, data, issued) PROVE DOMAIN runs'[s].got = {}
  BY <1>5, BegunNothing
<1> QED BY <1>1, <1>3, <1>4, <1>5, AnswerMoves

LEMMA FollowAnswer ==
  ASSUME Shape, Typed, Fetched, Current, Plain(page), Reloads(page), NEW r \in Data,
         Follow(r, acked, view, db, runs), NEW s \in Slots, Answer(s), ui.here
  PROVE  Follow(r, acked', view', db', runs')
<1>1. Single(runs') /\ (runs'[s] # Free => Carries(runs'[s], r, acked', db'))
  BY FollowOnward
<1>2. /\ db' = db /\ Busy(s) /\ \A q \in Slots \ {s} : runs'[q] \in {runs[q], Free}
      /\ (~IsWrite(Call(s)) => acked' = acked)
  BY AnswerForm
<1>3. CASE ~IsWrite(Call(s))
  <2>1. Coming(r, acked', view', db', runs')
    BY <1>3, ComingRead DEF Follow
  <2>2. \A q \in Slots \ {s} : runs'[q] # Free => Carries(runs'[q], r, acked', db')
    BY <1>2, <1>3 DEF Follow
  <2> QED BY <1>1, <2>1, <2>2 DEF Follow
<1>4. CASE IsWrite(Call(s))
  <2>1. Writes(runs[s].h) # {}
    BY <1>2, <1>4 DEF Writes, Call, Shape, Run
  <2>2. \A q \in Slots : runs'[q] # Free => q = s
    BY <1>2, <2>1 DEF Follow, Single, Busy
  <2>3. runs'[s] # Free => DOMAIN runs'[s].got = {}
    BY <1>2, <2>1, AnswerEmpty DEF Busy
  <2>4. \A q \in Slots : runs'[q] # Free => Fresh(runs'[q], r, acked', db')
    BY <2>2, <2>3 DEF Fresh
  <2>5. acked' \cap db'[r] \subseteq view'[r].seen \/ (runs'[s] # Free /\ Brings(runs'[s], r))
    BY <1>4, FollowWritten
  <2>6. Coming(r, acked', view', db', runs')
    BY <2>4, <2>5 DEF Coming
  <2> QED BY <1>1, <2>2, <2>6 DEF Follow
<1> QED BY <1>3, <1>4

LEMMA FollowedStep ==
  ASSUME Shape, Typed, Fetched, Unacked, Current, Plain(page), Reloads(page), NEW r \in Data, Followed(r), [Next]_vars
  PROVE  Followed(r)'
<1>1. page' = page /\ page \in Pages /\ faults \in Nat
  <2>1. faults \in Nat
    BY ConsoleAssumption DEF Typed
  <2> QED BY <2>1, ShapeStep DEF Shape
<1> SUFFICES ASSUME Beside' PROVE Follow(r, acked', view', db', runs')
  BY <1>1, FollowPrimed DEF Followed
<1>2. ASSUME NEW h \in DOMAIN Script[page].code, Use(h) \/ Tick(h) PROVE Follow(r, acked', view', db', runs')
  <2>1. PICK update : Start(h, update)
    BY <1>2 DEF Use, Tick
  <2>2. Beside /\ ~crossed'
    BY <2>1 DEF Start, Beside
  <2> QED BY <2>1, <2>2, FollowStart DEF Followed
<1>3. ASSUME NEW s \in Slots, NEW x \in Data, Serve(s, x) PROVE Follow(r, acked', view', db', runs')
  <2>1. Beside
    BY <1>3 DEF Serve, Beside
  <2> QED BY <1>3, <2>1, FollowServe DEF Followed
<1>4. ASSUME NEW s \in Slots, NEW x \in Data, Catch(s, x) PROVE FALSE
  BY <1>1, <1>4 DEF Catch, Beside
<1>5. ASSUME NEW s \in Slots, Answer(s) PROVE Follow(r, acked', view', db', runs')
  <2>1. ~ui.here => ui' = ui
    BY <1>5 DEF Answer, GoOn
  <2>2. Beside
    BY <1>5, <2>1 DEF Answer, Beside
  <2>3. ui.here
    BY <2>2 DEF Beside
  <2> QED BY <1>5, <2>2, <2>3, FollowAnswer DEF Followed
<1>6. ASSUME NEW s \in Slots, Fail(s) \/ Expel(s) PROVE FALSE
  <2>1. faults' = faults + 1
    BY <1>6 DEF Fail, Expel
  <2> QED BY <1>1, <2>1 DEF Beside
<1>7. ASSUME NEW x \in Data, Elsewhere(x) PROVE Follow(r, acked', view', db', runs')
  <2>1. Beside
    BY <1>7 DEF Elsewhere, Beside
  <2>2. Coming(r, acked', view', db', runs')
    BY <1>7, <2>1, ComingElsewhere DEF Followed, Follow
  <2>3. /\ acked' = acked /\ runs' = runs /\ db' = [db EXCEPT ![x] = @ \cup {issued + 1}]
        /\ db = [y \in Data |-> db[y]] /\ issued \in Nat /\ acked \subseteq 1..issued
    BY <1>7 DEF Elsewhere, Shape, Typed
  <2>4. db'[r] \subseteq db[r] \cup {issued + 1} /\ acked' \cap db'[r] = acked \cap db[r]
    <3>1. db'[r] = db[r] \/ db'[r] = db[r] \cup {issued + 1}
      BY <2>3
    <3>2. issued + 1 \notin acked
      BY <2>3
    <3> QED BY <2>3, <3>1, <3>2
  <2>5. ASSUME NEW s \in Slots, runs[s] # Free PROVE Carries(runs[s], r, acked', db')
    <3>1. Carries(runs[s], r, acked, db)
      BY <2>1, <2>5 DEF Followed, Follow
    <3>2. \A n : Pristine(runs[s], n) => n # issued + 1
      <4>1. Numbers(runs[s]) \subseteq 1..issued
        BY <2>5, NumbersOf DEF Busy
      <4> QED BY <2>3, <4>1 DEF Pristine
    <3> QED BY <2>4, <3>1, <3>2 DEF Carries
  <2>6. Single(runs')
    BY <2>1, <2>3 DEF Followed, Follow
  <2> QED BY <2>2, <2>3, <2>5, <2>6 DEF Follow
<1>8. ASSUME UNCHANGED vars PROVE Follow(r, acked', view', db', runs')
  <2>1. Beside /\ acked' = acked /\ view' = view /\ runs' = runs /\ db' = db
    BY <1>8 DEF vars, Beside
  <2>2. Follow(r, acked, view, db, runs)
    BY <2>1 DEF Followed
  <2> QED BY <2>1, <2>2
<1> QED BY <1>2, <1>3, <1>4, <1>5, <1>6, <1>7, <1>8 DEF Next

LEMMA ComingInit == ASSUME Init, NEW r \in Data PROVE Coming(r, acked, view, db, runs)
<1>1. acked = {}
  BY DEF Init
<1>2. \A s \in Slots : runs[s] # Free => DOMAIN runs[s].got = {}
  BY MountedReads DEF Busy
<1> QED BY <1>1, <1>2 DEF Coming, Fresh

LEMMA FollowedInit == ASSUME Init, NEW r \in Data PROVE Followed(r)
<1>1. Coming(r, acked, view, db, runs)
  BY ComingInit
<1>2. \A s \in Slots : runs[s] # Free => Writes(runs[s].h) = {}
  BY MountedReads DEF Busy
<1> QED BY <1>1, <1>2 DEF Followed, Follow, Single, Carries

-----------------------------------------------------------------------------
(* Pages that ask for all data after each change. *)
Refetched == ui.here /\ faults = 0 => \A r \in Data : Coming(r, acked, view, db, runs)

LEMMA RefetchesWrite ==
  ASSUME NEW m \in DOMAIN Script[page].code, NEW flag, Refetches(page, m, flag), NEW run, Run(run), IsWrite(Code(run.h).calls[run.at])
  PROVE  /\ Writes(run.h) # {} /\ Code(run.h).calls[run.at].op = "add"
         /\ \/ Leaves(page, run.h, run.at)
            \/ \A r \in Data :
                 /\ Fetches(page, run.h, r, run.at + 1) \/ Follows(page, run.h, r)
                 /\ \A g \in DOMAIN Script[page].code \ {m} : Fetches(page, g, r, 1) =>
                      \/ g = run.h /\ \E lock \in Script[page].busy : Locked(page, {run.h}, lock)
                      \/ g = Code(run.h).next /\ Code(g).latest /\ run.at = Len(Code(run.h).calls)
                      \/ \E f \in DOMAIN Script[page].start : AfterFault(page, g, f)
<1>1. run.at \in Changes(page, run.h) /\ run.at \in DOMAIN Code(run.h).calls /\ run.h \in DOMAIN Script[page].code
  BY DEF Run, Changes, Code, IsWrite
<1> QED BY <1>1 DEF Refetches, Writes, Code, Data

(* Who asks the same is cancelled at the end of the handler that asks.      *)
LEMMA Cancelled ==
  ASSUME Shape, NEW s \in Slots, Answer(s), runs[s].at = Len(Code(runs[s].h).calls),
         NEW q \in Slots \ {s}, Busy(q), runs[q].h = Code(runs[s].h).next, Code(runs[q].h).latest
  PROVE  runs'[q] = Free
<1>1. PICK then : then = Code(runs[s].h).next
  OBVIOUS
<1>2. Run(runs[s]) /\ page \in Pages /\ runs[s].h \in DOMAIN Script[page].code
  BY AnswerForm DEF Run
<1>3. ~(runs[s].at < Len(Code(runs[s].h).calls))
  <2>1. PICK n \in Nat : n = Len(Code(runs[s].h).calls)
    BY <1>2, CallsTyped
  <2>2. ~(n < n)
    OBVIOUS
  <2> QED BY <2>1, <2>2
<1>4. \E more : runs' = [Left(then) EXCEPT ![s] = more]
  BY <1>1, <1>3 DEF Answer, GoOn
<1>5. Left(then)[q] = Free
  BY <1>1 DEF Left
<1> QED BY <1>4, <1>5 DEF Left

(* The flags that lock one handler. *)
LockedAlone ==
  \A h \in DOMAIN Script[page].code, flag \in Script[page].busy : Locked(page, {h}, flag) => Alone({h}, flag)

LEMMA LockedAloneStep == ASSUME Shape, LockedAlone, [Next]_vars PROVE LockedAlone'
<1>1. page' = page
  BY ShapeStep
<1>2. SUFFICES ASSUME NEW h \in DOMAIN Script[page].code, NEW flag \in Script[page].busy, Locked(page, {h}, flag)
               PROVE  Alone({h}, flag)'
  BY <1>1 DEF LockedAlone
<1> QED BY <1>2, AloneStep DEF LockedAlone

LEMMA LockedAloneInit == Init => LockedAlone
<1> SUFFICES ASSUME Init, NEW h \in DOMAIN Script[page].code, NEW flag \in Script[page].busy, Locked(page, {h}, flag)
             PROVE  Alone({h}, flag)
  BY DEF LockedAlone
<1>1. flag \in DOMAIN ui
  BY DEF Init, Locked
<1>2. ASSUME NEW s \in Slots, Busy(s) PROVE runs[s].h # h
  <2>1. s \in DOMAIN Script[page].mount /\ runs[s] = Begun(Script[page].mount[s], ui, view, 0)
    BY <1>2, Mounted
  <2>2. runs[s].h = Script[page].mount[s]
    BY <2>1, BegunNamed
  <2>3. Script[page].mount[s] # h
    BY <2>1 DEF Locked
  <2> QED BY <2>2, <2>3
<1> QED BY <1>1, <1>2 DEF Alone

LEMMA RefetchedWrite ==
  ASSUME Shape, Typed, Fetched, Current, Plain(page), NEW m \in DOMAIN Script[page].code, NEW flag, Refetches(page, m, flag), Loading(m, flag), LockedAlone, Unfailed,
         NEW s \in Slots, Answer(s), IsWrite(Call(s)), ui.here, ui'.here, faults = 0,
         NEW r \in Data, Coming(r, acked, view, db, runs)
  PROVE  Coming(r, acked', view', db', runs')
<1>1. PICK run : run = runs[s]
  OBVIOUS
<1>2. /\ page \in Pages /\ Busy(s) /\ Run(run) /\ run.h \in DOMAIN Script[page].code
      /\ \A q \in Slots \ {s} : runs'[q] \in {runs[q], Free}
      /\ Call(s) = Code(run.h).calls[run.at]
  BY <1>1, AnswerForm DEF Run, Call
<1>3. /\ Writes(run.h) # {}
      /\ \/ Leaves(page, run.h, run.at)
         \/ /\ Fetches(page, run.h, r, run.at + 1) \/ Follows(page, run.h, r)
            /\ \A g \in DOMAIN Script[page].code \ {m} : Fetches(page, g, r, 1) =>
                 \/ g = run.h /\ \E lock \in Script[page].busy : Locked(page, {run.h}, lock)
                 \/ g = Code(run.h).next /\ Code(g).latest /\ run.at = Len(Code(run.h).calls)
                 \/ \E f \in DOMAIN Script[page].start : AfterFault(page, g, f)
  BY <1>2, RefetchesWrite
<1>4. ~Leaves(page, run.h, run.at)
  BY <1>1, LeavesPage
<1>5. runs'[s] # Free /\ Brings(runs'[s], r)
  BY <1>1, <1>3, <1>4, BringsOn
<1>6. Fresh(runs'[s], r, acked', db')
  <2>1. DOMAIN runs'[s].got = {}
    BY <1>1, <1>3, <1>5, AnswerEmpty
  <2> QED BY <2>1 DEF Fresh
<1>7. ASSUME NEW q \in Slots \ {s}, runs'[q] # Free PROVE Fresh(runs'[q], r, acked', db')
  <2>1. runs'[q] = runs[q] /\ Busy(q) /\ Run(runs[q])
    BY <1>2, <1>7 DEF Busy, Shape
  <2> SUFFICES ASSUME r \in DOMAIN runs[q].got, ~IsWrite(Call(q)) PROVE FALSE
    BY <2>1 DEF Fresh, Call
  <2>2. PICK g \in DOMAIN Script[page].code : g = runs[q].h /\ Fetches(page, g, r, 1)
    BY <2>1, GotFetches DEF Run
  <2>3. g # m
    <3>1. runs[q].h \in Loaders(m) => Aside(page, run.h)
      BY <1>1, <1>2, <2>1 DEF Loading
    <3> QED BY <1>3, <2>2, <3>1, AsideOnly DEF Loaders
  <2>4. CASE g = run.h /\ \E lock \in Script[page].busy : Locked(page, {run.h}, lock)
    <3>1. PICK lock \in Script[page].busy : Alone({run.h}, lock)
      BY <1>2, <2>4 DEF LockedAlone
    <3> QED BY <1>1, <1>2, <2>1, <2>2, <2>4, <3>1 DEF Alone
  <2>5. CASE g = Code(run.h).next /\ Code(g).latest /\ run.at = Len(Code(run.h).calls)
    BY <1>1, <1>7, <2>1, <2>2, <2>5, Cancelled
  <2>6. ASSUME NEW f \in DOMAIN Script[page].start, AfterFault(page, g, f) PROVE FALSE
    BY <2>1, <2>2, <2>6 DEF Unfailed
  <2> QED BY <1>3, <1>4, <2>2, <2>3, <2>4, <2>5, <2>6
<1> QED BY <1>5, <1>6, <1>7 DEF Coming

LEMMA RefetchedStep ==
  ASSUME Shape, Typed, Fetched, Unacked, Current, Plain(page), NEW m \in DOMAIN Script[page].code, NEW flag, Refetches(page, m, flag), Loading(m, flag), LockedAlone, Unfailed,
         Refetched, [Next]_vars
  PROVE  Refetched'
<1>1. page' = page /\ page \in Pages /\ faults \in Nat
  <2>1. faults \in Nat
    BY ConsoleAssumption DEF Typed
  <2> QED BY <2>1, ShapeStep DEF Shape
<1>2. SUFFICES ASSUME ui'.here, faults' = 0, NEW r \in Data PROVE Coming(r, acked', view', db', runs')
  BY <1>1, ComingPrimed DEF Refetched, Data
<1>3. ASSUME NEW h \in DOMAIN Script[page].code, Use(h) \/ Tick(h) PROVE Coming(r, acked', view', db', runs')
  <2>1. PICK update : Start(h, update) /\ ui.here /\ faults = 0
    BY <1>2, <1>3 DEF Use, Tick, Start
  <2> QED BY <2>1, ComingStart DEF Refetched
<1>4. ASSUME NEW s \in Slots, NEW x \in Data, Serve(s, x) PROVE Coming(r, acked', view', db', runs')
  <2>1. ui.here /\ faults = 0 /\ Run(runs[s])
    BY <1>2, <1>4 DEF Serve, Shape
  <2>2. Call(s).op # "put"
    <3>1. IsWrite(Call(s)) => Call(s).op = "add"
      BY <2>1, RefetchesWrite DEF Call
    <3> QED BY <3>1 DEF IsWrite
  <2> QED BY <1>4, <2>1, <2>2, ComingServe DEF Refetched
<1>5. ASSUME NEW s \in Slots, NEW x \in Data, Catch(s, x) PROVE FALSE
  BY <1>1, <1>2, <1>5 DEF Catch
<1>6. ASSUME NEW s \in Slots, Answer(s) PROVE Coming(r, acked', view', db', runs')
  <2>1. ~ui.here => ui' = ui
    BY <1>6 DEF Answer, GoOn
  <2>2. ui.here /\ faults = 0
    BY <1>2, <1>6, <2>1 DEF Answer
  <2> QED BY <1>2, <1>6, <2>2, ComingRead, RefetchedWrite DEF Refetched
<1>7. ASSUME NEW s \in Slots, Fail(s) \/ Expel(s) PROVE FALSE
  <2>1. faults' = faults + 1
    BY <1>7 DEF Fail, Expel
  <2> QED BY <1>1, <1>2, <2>1
<1>8. ASSUME NEW x \in Data, Elsewhere(x) PROVE Coming(r, acked', view', db', runs')
  <2>1. ui.here /\ faults = 0
    BY <1>2, <1>8 DEF Elsewhere
  <2> QED BY <1>8, <2>1, ComingElsewhere DEF Refetched
<1>9. ASSUME UNCHANGED vars PROVE Coming(r, acked', view', db', runs')
  <2>1. ui.here /\ faults = 0 /\ acked' = acked /\ view' = view /\ db' = db /\ runs' = runs
    BY <1>2, <1>9 DEF vars
  <2>2. Coming(r, acked, view, db, runs)
    BY <2>1 DEF Refetched
  <2> QED BY <2>1, <2>2
<1> QED BY <1>3, <1>4, <1>5, <1>6, <1>7, <1>8, <1>9 DEF Next

-----------------------------------------------------------------------------
(* What each kind of page keeps. *)
Reaching ==
  Plain(page) =>
    /\ Unfailed
    /\ Reloads(page) => \A r \in Data : Followed(r)
    /\ \A m \in DOMAIN Script[page].code, flag \in DOMAIN Script[page].start :
         /\ Loads(page, m, flag) => Loading(m, flag)
         /\ Accumulates(page, m, flag) => Accumulated
         /\ Refetches(page, m, flag) => Refetched

LEMMA ReachingInit == Init => Reaching
<1> SUFFICES ASSUME Init, Plain(page) PROVE Reaching
  BY DEF Reaching
<1>1. Accumulated /\ Unfailed /\ \A r \in Data : Followed(r) /\ Coming(r, acked, view, db, runs)
  BY AccumulatedInit, UnfailedInit, FollowedInit, ComingInit
<1>2. \A m \in DOMAIN Script[page].code, flag \in DOMAIN Script[page].start : Loads(page, m, flag) => Loading(m, flag)
  BY LoadingInit
<1> QED BY <1>1, <1>2 DEF Reaching, Refetched

LEMMA ReachingStep ==
  ASSUME Shape, Typed, Fetched, Unacked, Current, LockedAlone, Reaching, [Next]_vars
  PROVE  Reaching'
<1>1. page' = page
  BY ShapeStep
<1>2. SUFFICES ASSUME Plain(page)
               PROVE  /\ Unfailed'
                      /\ Reloads(page) => \A r \in Data : Followed(r)'
                      /\ \A m \in DOMAIN Script[page].code, flag \in DOMAIN Script[page].start :
                           /\ Loads(page, m, flag) => Loading(m, flag)'
                           /\ Accumulates(page, m, flag) => Accumulated'
                           /\ Refetches(page, m, flag) => Refetched'
  BY <1>1 DEF Reaching, Data
<1>3. Unfailed /\ Unfailed'
  BY <1>2, UnfailedStep DEF Reaching
<1>4. ASSUME Reloads(page), NEW r \in Data PROVE Followed(r)'
  BY <1>2, <1>4, FollowedStep DEF Reaching
<1>5. ASSUME NEW m \in DOMAIN Script[page].code, NEW flag \in DOMAIN Script[page].start, Loads(page, m, flag)
      PROVE  Loading(m, flag) /\ Loading(m, flag)'
  BY <1>2, <1>5, LoadingStep DEF Reaching
<1>6. ASSUME NEW m \in DOMAIN Script[page].code, NEW flag \in DOMAIN Script[page].start, Accumulates(page, m, flag)
      PROVE  Accumulated'
  <2>1. Loading(m, flag) /\ Accumulated
    BY <1>2, <1>6 DEF Reaching, Accumulates
  <2> QED BY <1>2, <1>6, <2>1, AccumulatedStep
<1>7. ASSUME NEW m \in DOMAIN Script[page].code, NEW flag \in DOMAIN Script[page].start, Refetches(page, m, flag)
      PROVE  Refetched'
  <2>1. Loading(m, flag) /\ Refetched
    BY <1>2, <1>7 DEF Reaching, Refetches
  <2> QED BY <1>2, <1>3, <1>7, <2>1, RefetchedStep
<1> QED BY <1>3, <1>4, <1>5, <1>6, <1>7

LEMMA ReachingShown ==
  ASSUME Shape, Reaching
  PROVE  OwnChangesShown
<1>1. page \in Pages /\ \A s \in Slots : Quiet => runs[s] = Free
  BY DEF Shape, Quiet, Busy
<1>2. ASSUME NEW r \in Data, Quiet, Coming(r, acked, view, db, runs) PROVE acked \cap db[r] \subseteq view[r].seen
  BY <1>1, <1>2 DEF Coming
<1>3. ASSUME page \in Reloading, Calm, NEW r \in Data PROVE acked \cap db[r] \subseteq view[r].seen
  <2>1. Plain(page) /\ Reloads(page) /\ Beside /\ Quiet
    BY <1>1, <1>3, ReloadingAssumption DEF Calm, Settled, Beside
  <2> QED BY <1>2, <2>1 DEF Reaching, Followed, Follow
<1>4. ASSUME page \in Raceless, Settled, faults = 0, NEW r \in Data PROVE acked \cap db[r] \subseteq view[r].seen
  <2>1. Plain(page) /\ ui.here /\ Quiet
    BY <1>1, <1>4, RacelessAssumption DEF Settled
  <2>2. PICK m \in DOMAIN Script[page].code, flag \in DOMAIN Script[page].start :
          Accumulates(page, m, flag) \/ Refetches(page, m, flag)
    BY <1>1, <1>4, RacelessAssumption
  <2>3. CASE Accumulates(page, m, flag)
    BY <2>1, <2>3 DEF Reaching, Accumulated, Added
  <2>4. CASE Refetches(page, m, flag)
    BY <1>2, <1>4, <2>1, <2>4 DEF Reaching, Refetched
  <2> QED BY <2>2, <2>3, <2>4
<1> QED BY <1>3, <1>4 DEF OwnChangesShown

LEMMA ReachingHolds == Spec => [](Shape /\ Reaching)
<1>1. Shape /\ Typed /\ Fetched /\ Unacked /\ Current /\ LockedAlone /\ Reaching /\ [Next]_vars
        => Reaching'
  BY ReachingStep
<1> QED BY ShapeHolds, TypedInit, TypedStep, FetchedInit, FetchedStep, UnackedInit, UnackedStep, CurrentInit, CurrentStep,
           LockedAloneInit, LockedAloneStep, ReachingInit, <1>1, PTL DEF Spec

(* What a page of either kind did and was told had been done is on the      *)
(* screen when it comes to rest, for any number of handlers under way and   *)
(* of changes: on the pages that reload or patch if no change was made      *)
(* beside another request, on the others however their answers cross.       *)
THEOREM OwnChangesShownHolds == Spec => []OwnChangesShown
<1>1. Shape /\ Reaching => OwnChangesShown
  BY ReachingShown
<1> QED BY ReachingHolds, <1>1, PTL

(* A page that only adds to what it shows need not come to rest, and its    *)
(* requests may fail: what was answered is shown, until the page is left.   *)
AnsweredShown ==
  Plain(page) /\ (\E m \in DOMAIN Script[page].code, flag \in DOMAIN Script[page].start : Accumulates(page, m, flag)) /\ ui.here =>
    \A r \in Data : acked \subseteq view[r].seen

(* The pages that keep their own copy, such as the documents of the         *)
(* compliance part: no answer or failure takes an acknowledged change away. *)
THEOREM AnsweredShownHolds == Spec => []AnsweredShown
<1>1. Reaching => AnsweredShown
  BY DEF Reaching, AnsweredShown, Accumulated, Added
<1> QED BY ReachingHolds, <1>1, PTL
=============================================================================
