----------------------------- MODULE StudioProofs ----------------------------
(***************************************************************************)
(* Proofs about the transfer cards of Studio (StudioCards), for any ids,   *)
(* links and starts: what a card shown as moving can rely on.              *)
(***************************************************************************)
EXTENDS StudioCards, SequenceTheorems, TLAPS

Moving == Active \cup {"pausing", "stopping"}

Cmd ==
    [ref : Refs \cup {"resume"}, id : Keys, todo : Seq(Ids),
     st : {"resolve", "register", "next", "begin", "run", "emit"}, end : Ends \cup {None}]
Ev == [k : {"registered", "progress"} \cup Ends, key : Keys, id : Keys]
Ctl ==
    [ref : {None} \cup Refs \cup {"resume"}, req : {None, "pause", "stop"},
     st : {None, "idle", "active", "paused", "stopped", "waiting", "over"}]
Shown == {None, "downloading", "paused", "waiting"}

(* A command has come to the transfer [i]: it will say how that ends. *)
WorkedOn(cs, i) == \E c \in cs : c.id = i /\ c.st # "resolve"

(* The end of [i] is on its way, behind event n. *)
Ending(es, i, n) == \E m \in DOMAIN es : m > n /\ es[m].k \in Ends /\ es[m].id = i

(* What the card [k] can rely on: a command, the end of its transfer, or its
   passing on to an id. *)
Accounted(cs, es, k) ==
    \/ WorkedOn(cs, k)
    \/ Ending(es, k, 0)
    \/ \E c \in cs : c.ref = k /\ c.st \in {"resolve", "register"}
    \/ \E n \in DOMAIN es : es[n].k = "registered" /\ es[n].key = k

(* No event starts a card of a transfer that nobody works on and whose end has
   been told before. *)
Backed(cs, es) ==
    \A n \in DOMAIN es : es[n].k \in {"registered", "progress"} =>
        WorkedOn(cs, es[n].id) \/ Ending(es, es[n].id, n)

Known(cs, rg) ==
    \A k \in Keys : rg[k].ref # None => \E c \in cs : c.ref = rg[k].ref /\ c.id = k /\ c.st = "run"

CardsShape ==
    /\ cards \in [Keys -> Phases \cup {None}] /\ stale \subseteq Ids /\ used \subseteq Refs
    /\ cbs \in [Keys -> Refs \cup {None}]
    /\ reg \in [Keys -> Ctl] /\ events \in Seq(Ev) /\ cmds \subseteq Cmd
    /\ mount \in [st : {"up", "asked", "listed"}, list : [Ids -> Shown]]

CmdsShape(cs) ==
    \A c \in cs : /\ c.st \in {"resolve", "register"} => c.ref \in Refs
                  /\ c.st = "emit" => c.end \in Ends

CardsBacked == \A k \in Keys \ stale : cards[k] \in Moving => Accounted(cmds, events, k)

CardsInv ==
    /\ CardsShape /\ CmdsShape(cmds)
    /\ Backed(cmds, events) /\ Known(cmds, reg) /\ CardsBacked

-----------------------------------------------------------------------------
(* Events *)

LEMMA EventAt ==
    ASSUME NEW e \in Ev
    PROVE  e.id \in Keys /\ e.key \in Keys /\ e.k \in {"registered", "progress"} \cup Ends
  BY DEF Ev

(* The commands cs2 take over the work of cs, but for what the event e ends. *)
CarriesOn(cs, cs2, e) ==
    /\ \A i : WorkedOn(cs, i) => WorkedOn(cs2, i) \/ (e.k \in Ends /\ e.id = i)
    /\ e.k \in {"registered", "progress"} => WorkedOn(cs2, e.id)

(* What holds of the events es and the commands cs still does of es2 and cs2. *)
Emitted(cs, cs2, es, es2, e) ==
    /\ es2 \in Seq(Ev) /\ Backed(cs2, es2)
    /\ \A k : Accounted(cs, es, k) =>
            \/ Accounted(cs2, es2, k)
            \/ \E c \in cs : c.ref = k /\ c.st \in {"resolve", "register"}
    /\ \A k : e.k = "registered" /\ e.key = k => Accounted(cs2, es2, k)

(* An event follows those under way. *)
LEMMA Emits ==
    ASSUME NEW cs, NEW cs2, NEW es \in Seq(Ev), NEW e \in Ev, Backed(cs, es), CarriesOn(cs, cs2, e)
    PROVE  Emitted(cs, cs2, es, Append(es, e), e)
  <1>1. PICK es2 : es2 = Append(es, e)
    OBVIOUS
  <1>2. /\ es2 \in Seq(Ev) /\ Len(es2) = Len(es) + 1 /\ es2[Len(es) + 1] = e
        /\ \A n \in 1 .. Len(es) : es2[n] = es[n]
    BY <1>1, AppendProperties
  <1>3. DOMAIN es = 1 .. Len(es) /\ DOMAIN es2 = 1 .. Len(es) + 1 /\ Len(es) \in Nat
    BY <1>2
  <1>4. ASSUME NEW i, NEW n \in Nat, Ending(es, i, n) PROVE Ending(es2, i, n)
    BY <1>2, <1>3, <1>4 DEF Ending
  <1>5. ASSUME NEW i, NEW n \in Nat, n <= Len(es), e.k \in Ends, e.id = i PROVE Ending(es2, i, n)
    <2>1. Len(es) + 1 \in DOMAIN es2 /\ Len(es) + 1 > n
      BY <1>3, <1>5
    <2> QED
      BY <1>2, <1>5, <2>1 DEF Ending
  <1>6. Backed(cs2, es2)
    <2> SUFFICES ASSUME NEW n \in DOMAIN es2, es2[n].k \in {"registered", "progress"}
                 PROVE  WorkedOn(cs2, es2[n].id) \/ Ending(es2, es2[n].id, n)
      BY DEF Backed
    <2>1. CASE n \in 1 .. Len(es)
      <3>1. WorkedOn(cs, es[n].id) \/ Ending(es, es[n].id, n)
        BY <1>2, <1>3, <2>1 DEF Backed
      <3>2. n \in Nat /\ n <= Len(es) /\ es2[n] = es[n]
        BY <1>2, <1>3, <2>1
      <3> QED
        BY <1>4, <1>5, <3>1, <3>2 DEF CarriesOn
    <2>2. CASE n = Len(es) + 1
      BY <1>2, <2>2 DEF CarriesOn
    <2> QED
      BY <1>3, <2>1, <2>2
  <1>7. ASSUME NEW k, Accounted(cs, es, k)
        PROVE  Accounted(cs2, es2, k) \/ \E c \in cs : c.ref = k /\ c.st \in {"resolve", "register"}
    <2>1. CASE WorkedOn(cs, k)
      <3>1. WorkedOn(cs2, k) \/ Ending(es2, k, 0)
        BY <1>3, <1>5, <2>1 DEF CarriesOn
      <3> QED
        BY <3>1 DEF Accounted
    <2>2. CASE Ending(es, k, 0)
      BY <1>4, <2>2 DEF Accounted
    <2>3. CASE \E n \in DOMAIN es : es[n].k = "registered" /\ es[n].key = k
      <3>1. \E n \in DOMAIN es2 : es2[n].k = "registered" /\ es2[n].key = k
        BY <1>2, <1>3, <2>3
      <3> QED
        BY <3>1 DEF Accounted
    <2> QED
      BY <1>7, <2>1, <2>2, <2>3 DEF Accounted
  <1>8. ASSUME NEW k, e.k = "registered", e.key = k PROVE Accounted(cs2, es2, k)
    <2>1. Len(es) + 1 \in DOMAIN es2
      BY <1>3
    <2> QED
      BY <1>2, <1>8, <2>1 DEF Accounted
  <1> QED
    BY <1>1, <1>2, <1>6, <1>7, <1>8 DEF Emitted

(* The event e is handled, and what it held up is now up to its card. *)
Accepted(cs, es, es2, e) ==
    /\ e \in Ev /\ es2 \in Seq(Ev) /\ Backed(cs, es2)
    /\ \A k : Accounted(cs, es, k) =>
            \/ Accounted(cs, es2, k)
            \/ e.k \in Ends /\ e.id = k
            \/ e.k = "registered" /\ e.key = k
    /\ e.k \in {"registered", "progress"} => Accounted(cs, es2, e.id)

(* The first event is handled. *)
LEMMA Handled ==
    ASSUME NEW cs, NEW es \in Seq(Ev), es # <<>>, Backed(cs, es)
    PROVE  Accepted(cs, es, Tail(es), Head(es))
  <1>1. PICK es2 : es2 = Tail(es)
    OBVIOUS
  <1>2. /\ Head(es) \in Ev /\ es2 \in Seq(Ev) /\ Head(es) = es[1] /\ Len(es) \in Nat /\ Len(es) >= 1
        /\ Len(es2) = Len(es) - 1
        /\ \A n \in 1 .. Len(es2) : es2[n] = es[n + 1]
    BY <1>1, HeadTailProperties
  <1>3. DOMAIN es = 1 .. Len(es) /\ DOMAIN es2 = 1 .. Len(es) - 1
    BY <1>2
  <1>4. ASSUME NEW i, NEW n \in Nat, n >= 1, Ending(es, i, n) PROVE Ending(es2, i, n - 1)
    <2>1. PICK m \in DOMAIN es : m > n /\ es[m].k \in Ends /\ es[m].id = i
      BY <1>4 DEF Ending
    <2>2. m - 1 \in DOMAIN es2 /\ m - 1 > n - 1 /\ (m - 1) + 1 = m
      BY <1>2, <1>3, <1>4, <2>1
    <2>3. es2[m - 1] = es[m]
      BY <1>2, <1>3, <2>2
    <2> QED
      BY <2>1, <2>2, <2>3 DEF Ending
  <1>5. Backed(cs, es2)
    <2> SUFFICES ASSUME NEW n \in DOMAIN es2, es2[n].k \in {"registered", "progress"}
                 PROVE  WorkedOn(cs, es2[n].id) \/ Ending(es2, es2[n].id, n)
      BY DEF Backed
    <2>1. n + 1 \in DOMAIN es /\ es2[n] = es[n + 1] /\ n + 1 \in Nat /\ n + 1 >= 1 /\ (n + 1) - 1 = n
      BY <1>2, <1>3
    <2>2. WorkedOn(cs, es[n + 1].id) \/ Ending(es, es[n + 1].id, n + 1)
      BY <2>1 DEF Backed
    <2>3. Ending(es, es[n + 1].id, n + 1) => Ending(es2, es[n + 1].id, (n + 1) - 1)
      BY <1>4, <2>1
    <2> QED
      BY <2>1, <2>2, <2>3
  <1>6. ASSUME NEW k, Accounted(cs, es, k)
        PROVE  \/ Accounted(cs, es2, k)
               \/ Head(es).k \in Ends /\ Head(es).id = k
               \/ Head(es).k = "registered" /\ Head(es).key = k
    <2>1. CASE WorkedOn(cs, k) \/ \E c \in cs : c.ref = k /\ c.st \in {"resolve", "register"}
      BY <2>1 DEF Accounted
    <2>2. CASE Ending(es, k, 0)
      <3>1. PICK m \in DOMAIN es : es[m].k \in Ends /\ es[m].id = k
        BY <2>2 DEF Ending
      <3>2. CASE m = 1
        BY <1>2, <3>1, <3>2
      <3>3. CASE m # 1
        <4>1. m - 1 \in DOMAIN es2 /\ m - 1 > 0 /\ (m - 1) + 1 = m
          BY <1>2, <1>3, <3>1, <3>3
        <4>2. es2[m - 1] = es[m]
          BY <1>2, <1>3, <4>1
        <4>3. Ending(es2, k, 0)
          BY <3>1, <4>1, <4>2 DEF Ending
        <4> QED
          BY <4>3 DEF Accounted
      <3> QED
        BY <3>2, <3>3
    <2>3. CASE \E n \in DOMAIN es : es[n].k = "registered" /\ es[n].key = k
      <3>1. PICK m \in DOMAIN es : es[m].k = "registered" /\ es[m].key = k
        BY <2>3
      <3>2. CASE m = 1
        BY <1>2, <3>1, <3>2
      <3>3. CASE m # 1
        <4>1. m - 1 \in DOMAIN es2 /\ (m - 1) + 1 = m
          BY <1>2, <1>3, <3>1, <3>3
        <4>2. es2[m - 1] = es[m]
          BY <1>2, <1>3, <4>1
        <4> QED
          BY <3>1, <4>1, <4>2 DEF Accounted
      <3> QED
        BY <3>2, <3>3
    <2> QED
      BY <1>6, <2>1, <2>2, <2>3 DEF Accounted
  <1>7. Head(es).k \in {"registered", "progress"} => Accounted(cs, es2, Head(es).id)
    <2> SUFFICES ASSUME Head(es).k \in {"registered", "progress"} PROVE Accounted(cs, es2, Head(es).id)
      OBVIOUS
    <2>1. 1 \in DOMAIN es /\ es[1] = Head(es)
      BY <1>2, <1>3
    <2>2. WorkedOn(cs, Head(es).id) \/ Ending(es, Head(es).id, 1)
      BY <2>1 DEF Backed
    <2>3. Ending(es, Head(es).id, 1) => Ending(es2, Head(es).id, 1 - 1)
      BY <1>4
    <2> QED
      BY <2>2, <2>3 DEF Accounted
  <1> QED
    BY <1>1, <1>2, <1>5, <1>6, <1>7 DEF Accepted

-----------------------------------------------------------------------------
(* Commands *)

LEMMA CommandAt ==
    ASSUME NEW c \in Cmd
    PROVE  /\ c.ref \in Refs \cup {"resume"} /\ c.id \in Keys /\ c.todo \in Seq(Ids)
           /\ c.st \in {"resolve", "register", "next", "begin", "run", "emit"}
           /\ c.end \in Ends \cup {None}
  BY DEF Cmd

LEMMA CommandMoves ==
    ASSUME NEW c \in Cmd, NEW s \in {"register", "begin", "run"}
    PROVE  /\ [c EXCEPT !.st = s] \in Cmd
           /\ [c EXCEPT !.st = s].ref = c.ref /\ [c EXCEPT !.st = s].id = c.id
           /\ [c EXCEPT !.st = s].st = s
  BY DEF Cmd

(* A command goes on with the file it is at. *)
LEMMA Moved ==
    ASSUME NEW cs \in SUBSET Cmd, NEW c \in cs, NEW d \in Cmd, d.id = c.id, d.st # "resolve",
           CmdsShape(cs), CmdsShape({d})
    PROVE  /\ (cs \ {c}) \cup {d} \subseteq Cmd
           /\ CmdsShape((cs \ {c}) \cup {d})
           /\ \A i : WorkedOn(cs, i) => WorkedOn((cs \ {c}) \cup {d}, i)
           /\ \A k : (\E b \in cs : b.ref = k /\ b.st \in {"resolve", "register"}) =>
                \/ \E b \in (cs \ {c}) \cup {d} : b.ref = k /\ b.st \in {"resolve", "register"}
                \/ c.ref = k /\ c.st \in {"resolve", "register"} 
  BY DEF CmdsShape, WorkedOn

(* The runs the registry knows of. *)
LEMMA KnownKept ==
    ASSUME NEW cs, NEW cs2, NEW rg, Known(cs, rg), \A c \in cs : c.st = "run" => c \in cs2
    PROVE  Known(cs2, rg)
  BY DEF Known

-----------------------------------------------------------------------------
(* The initial state and the steps *)

LEMMA CardsInit ==
    ASSUME Init PROVE CardsInv
  <1>1. cards \in [Keys -> Phases \cup {None}] /\ cbs \in [Keys -> Refs \cup {None}]
    BY DEF Init
  <1>2. NoCtl \in Ctl
    BY DEF NoCtl, Ctl
  <1>3. reg \in [Keys -> Ctl]
    BY <1>2 DEF Init
  <1>4. mount \in [st : {"up", "asked", "listed"}, list : [Ids -> Shown]]
    BY DEF Init, NoMount, Shown
  <1>5. events \in Seq(Ev) /\ events = <<>> /\ DOMAIN events = {}
    BY DEF Init
  <1>6. CardsShape
    BY <1>1, <1>3, <1>4, <1>5 DEF Init, CardsShape
  <1>7. CmdsShape(cmds) /\ Backed(cmds, events)
    BY <1>5 DEF Init, CmdsShape, Backed
  <1>8. Known(cmds, reg)
    BY DEF Init, Known, NoCtl
  <1>9. CardsBacked
    BY DEF Init, CardsBacked, Moving, Active, None
  <1> QED
    BY <1>6, <1>7, <1>8, <1>9 DEF CardsInv

(* Of what a start brings. *)
LEMMA Starts ==
    ASSUME CardsInv, CardsAssumption, NEW r \in Refs, NEW todo \in Seq(Ids), todo # <<>>, NEW hub \in BOOLEAN,
           Start(r, todo, hub)
    PROVE  CardsInv'
  <1> DEFINE c == [ref |-> r, id |-> Head(todo), todo |-> Tail(todo),
                   st |-> IF hub THEN "resolve" ELSE "register", end |-> None]
  <1>1. Head(todo) \in Ids /\ Tail(todo) \in Seq(Ids)
    BY HeadTailProperties
  <1>2. c \in Cmd /\ c.st \in {"resolve", "register"} /\ c.ref = r
    BY <1>1 DEF Cmd, Keys
  <1>3. /\ cmds' = cmds \cup {c} /\ cards' = [cards EXCEPT ![r] = "starting"]
        /\ cbs' = [cbs EXCEPT ![r] = r] /\ used' = used \cup {r}
        /\ stale' = stale /\ reg' = reg /\ events' = events /\ mount' = mount
    BY DEF Start
  <1> HIDE DEF c
  <1>4. CardsShape
    BY DEF CardsInv
  <1>5. cards' \in [Keys -> Phases \cup {None}]
    BY <1>3, <1>4 DEF CardsShape, Phases, Active
  <1>6. cbs' \in [Keys -> Refs \cup {None}]
    BY <1>3, <1>4 DEF CardsShape
  <1>7. CardsShape'
    BY <1>2, <1>3, <1>4, <1>5, <1>6 DEF CardsShape
  <1>8. CmdsShape(cmds')
    BY <1>2, <1>3 DEF CardsInv, CmdsShape
  <1>9. \A i : WorkedOn(cmds, i) => WorkedOn(cmds', i)
    BY <1>3 DEF WorkedOn
  <1>10. Backed(cmds', events')
    BY <1>3, <1>9 DEF CardsInv, Backed
  <1>11. Known(cmds', reg')
    BY <1>3, KnownKept DEF CardsInv
  <1>12. \A k : Accounted(cmds, events, k) => Accounted(cmds', events', k)
    BY <1>3, <1>9 DEF Accounted
  <1>13. Accounted(cmds', events', r)
    BY <1>2, <1>3 DEF Accounted
  <1>14. CardsBacked'
    BY <1>3, <1>4, <1>12, <1>13 DEF CardsInv, CardsShape, CardsBacked
  <1> QED
    BY <1>7, <1>8, <1>10, <1>11, <1>14 DEF CardsInv

(* What a step of a command leaves of the shape, when cards and callbacks stay. *)
LEMMA CommandShape ==
    ASSUME CardsShape, UNCHANGED <<cards, stale, cbs, used, mount>>,
           cmds' \subseteq Cmd, events' \in Seq(Ev), reg' \in [Keys -> Ctl]
    PROVE  CardsShape'
  BY DEF CardsShape

LEMMA Resolves ==
    ASSUME CardsInv, NEW c \in cmds, Resolve(c)
    PROVE  CardsInv'
  <1> DEFINE d == [c EXCEPT !.st = "register"]
  <1>1. /\ c.st = "resolve" /\ cmds' = (cmds \ {c}) \cup {d}
        /\ UNCHANGED <<cards, stale, cbs, used, reg, events, mount>>
    BY DEF Resolve, Becomes
  <1>2. CardsShape /\ cmds \subseteq Cmd /\ c \in Cmd /\ events \in Seq(Ev) /\ reg \in [Keys -> Ctl]
    BY DEF CardsInv, CardsShape
  <1>3. d = [c EXCEPT !.st = "register"]
    OBVIOUS
  <1> HIDE DEF d
  <1>4. d \in Cmd /\ d.ref = c.ref /\ d.id = c.id /\ d.st = "register"
    BY <1>2, <1>3, CommandMoves
  <1>5. CmdsShape({d})
    BY <1>1, <1>4 DEF CardsInv, CmdsShape
  <1>6. /\ cmds' \subseteq Cmd /\ CmdsShape(cmds')
        /\ \A i : WorkedOn(cmds, i) => WorkedOn(cmds', i)
    BY <1>1, <1>2, <1>4, <1>5, Moved DEF CardsInv
  <1>7. CardsShape'
    BY <1>1, <1>2, <1>6, CommandShape
  <1>8. Backed(cmds', events')
    <2>1. Backed(cmds, events) /\ UNCHANGED events
      BY <1>1 DEF CardsInv
    <2> QED
      BY <1>6, <2>1 DEF Backed
  <1>9. Known(cmds', reg')
    BY <1>1, KnownKept DEF CardsInv
  <1>10. \A k : Accounted(cmds, events, k) => Accounted(cmds', events', k)
    <2>1. \A k : (\E b \in cmds : b.ref = k /\ b.st \in {"resolve", "register"}) =>
                    \E b \in cmds' : b.ref = k /\ b.st \in {"resolve", "register"}
      BY <1>1, <1>4
    <2> QED
      BY <1>1, <1>6, <2>1 DEF Accounted
  <1>11. CardsBacked'
    BY <1>1, <1>10 DEF CardsInv, CardsBacked
  <1> QED
    BY <1>6, <1>7, <1>8, <1>9, <1>11 DEF CardsInv

LEMMA ResolveErrs ==
    ASSUME CardsInv, NEW c \in cmds, ResolveFails(c)
    PROVE  CardsInv'
  <1>1. /\ c.st = "resolve" /\ cmds' = cmds \ {c} /\ cbs' = [cbs EXCEPT ![c.ref] = None]
        /\ cards' = IF cards[c.ref] = None THEN cards ELSE [cards EXCEPT ![c.ref] = "error"]
        /\ UNCHANGED <<stale, used, reg, events, mount>>
    BY DEF ResolveFails
  <1>2. CardsShape /\ cmds \subseteq Cmd /\ c \in Cmd /\ events \in Seq(Ev) /\ reg \in [Keys -> Ctl]
    BY DEF CardsInv, CardsShape
  <1>3. c.ref \in Refs /\ c.ref \in Keys
    BY <1>1 DEF CardsInv, CmdsShape, Keys
  <1>4. cards' \in [Keys -> Phases \cup {None}] /\ cbs' \in [Keys -> Refs \cup {None}]
    BY <1>1, <1>2 DEF CardsShape, Phases, Settled
  <1>5. CardsShape'
    BY <1>1, <1>2, <1>4 DEF CardsShape
  <1>6. CmdsShape(cmds')
    BY <1>1 DEF CardsInv, CmdsShape
  <1>7. \A i : WorkedOn(cmds, i) => WorkedOn(cmds', i)
    BY <1>1 DEF WorkedOn
  <1>8. Backed(cmds', events')
    BY <1>1, <1>7 DEF CardsInv, Backed
  <1>9. Known(cmds', reg')
    BY <1>1, KnownKept DEF CardsInv
  <1>10. ASSUME NEW k, k # c.ref, Accounted(cmds, events, k) PROVE Accounted(cmds', events', k)
    BY <1>1, <1>7, <1>10 DEF Accounted
  <1>11. cards'[c.ref] \notin Moving
    BY <1>1, <1>2, <1>3 DEF CardsShape, Moving, Active, None
  <1>12. \A k \in Keys : k # c.ref => cards'[k] = cards[k]
    BY <1>1, <1>2 DEF CardsShape
  <1>13. CardsBacked'
    BY <1>1, <1>10, <1>11, <1>12 DEF CardsInv, CardsBacked
  <1> QED
    BY <1>5, <1>6, <1>8, <1>9, <1>13 DEF CardsInv

(* The event of a step that brings its command on. *)
LEMMA Registers ==
    ASSUME CardsInv, NEW c \in cmds, Register(c)
    PROVE  CardsInv'
  <1> DEFINE d == [c EXCEPT !.st = "begin"]
             e == [k |-> "registered", key |-> c.ref, id |-> c.id]
  <1>1. /\ c.st = "register" /\ cmds' = (cmds \ {c}) \cup {d} /\ events' = Append(events, e)
        /\ reg' = IF reg[c.id] = NoCtl THEN [reg EXCEPT ![c.id] = Idle] ELSE reg
        /\ UNCHANGED <<cards, stale, cbs, used, mount>>
    BY DEF Register, Becomes, Emit
  <1>2. CardsShape /\ cmds \subseteq Cmd /\ c \in Cmd /\ events \in Seq(Ev) /\ reg \in [Keys -> Ctl]
    BY DEF CardsInv, CardsShape
  <1>3. c.ref \in Refs /\ c.id \in Keys
    BY <1>1, <1>2, CommandAt DEF CardsInv, CmdsShape
  <1>4. e \in Ev /\ e.k = "registered" /\ e.key = c.ref /\ e.id = c.id
    BY <1>3 DEF Ev, Keys
  <1>5. d = [c EXCEPT !.st = "begin"]
    OBVIOUS
  <1> HIDE DEF d, e
  <1>6. d \in Cmd /\ d.ref = c.ref /\ d.id = c.id /\ d.st = "begin"
    BY <1>2, <1>5, CommandMoves
  <1>7. CmdsShape({d})
    BY <1>6 DEF CmdsShape
  <1>8. /\ cmds' \subseteq Cmd /\ CmdsShape(cmds')
        /\ \A i : WorkedOn(cmds, i) => WorkedOn(cmds', i)
    BY <1>1, <1>2, <1>6, <1>7, Moved DEF CardsInv
  <1>9. Idle \in Ctl
    BY DEF Idle, Ctl
  <1>10. reg' \in [Keys -> Ctl] /\ \A k \in Keys : reg'[k].ref = reg[k].ref
    BY <1>1, <1>2, <1>3, <1>9 DEF Idle, NoCtl
  <1>11. WorkedOn(cmds', e.id)
    BY <1>1, <1>4, <1>6 DEF WorkedOn
  <1>12. Backed(cmds, events) /\ Known(cmds, reg) /\ CardsBacked
    BY DEF CardsInv
  <1>13. /\ Append(events, e) \in Seq(Ev) /\ Backed(cmds', Append(events, e))
         /\ \A k : Accounted(cmds, events, k) =>
                \/ Accounted(cmds', Append(events, e), k)
                \/ \E b \in cmds : b.ref = k /\ b.st \in {"resolve", "register"}
         /\ \A k : e.k = "registered" /\ e.key = k => Accounted(cmds', Append(events, e), k)
    <2>1. Backed(cmds, events) /\ events \in Seq(Ev) /\ e \in Ev
      BY <1>2, <1>4, <1>12
    <2>2. CarriesOn(cmds, cmds', e)
      BY <1>8, <1>11 DEF CarriesOn
    <2>3. Emitted(cmds, cmds', events, Append(events, e), e)
      BY <2>1, <2>2, Emits
    <2> QED
      BY <2>3 DEF Emitted
  <1>14. CardsShape'
    BY <1>1, <1>2, <1>8, <1>10, <1>13, CommandShape
  <1>15. Known(cmds', reg')
    <2>1. Known(cmds', reg)
      BY <1>1, <1>12, KnownKept
    <2> QED
      BY <1>10, <2>1 DEF Known
  <1>16. ASSUME NEW k, Accounted(cmds, events, k) PROVE Accounted(cmds', events', k)
    <2>1. CASE k = c.ref
      BY <1>1, <1>4, <1>13, <2>1
    <2>2. CASE k # c.ref /\ \E b \in cmds : b.ref = k /\ b.st \in {"resolve", "register"}
      <3>1. \E b \in cmds' : b.ref = k /\ b.st \in {"resolve", "register"}
        BY <1>1, <2>2
      <3> QED
        BY <3>1 DEF Accounted
    <2> QED
      BY <1>1, <1>13, <1>16, <2>1, <2>2
  <1>17. CardsBacked'
    BY <1>1, <1>12, <1>16 DEF CardsBacked
  <1> QED
    BY <1>1, <1>8, <1>13, <1>14, <1>15, <1>17 DEF CardsInv

(* A command that has passed its registration goes on without an event. *)
LEMMA GoesOn ==
    ASSUME CardsInv, NEW c \in cmds, NEW d \in Cmd, d.id = c.id, d.st # "resolve", CmdsShape({d}),
           c.st \notin {"resolve", "register"}, cmds' = (cmds \ {c}) \cup {d},
           reg' \in [Keys -> Ctl], Known(cmds', reg'),
           UNCHANGED <<cards, stale, cbs, used, events, mount>>
    PROVE  CardsInv'
  <1>1. CardsShape /\ cmds \subseteq Cmd /\ c \in Cmd /\ events \in Seq(Ev)
    BY DEF CardsInv, CardsShape
  <1>2. /\ cmds' \subseteq Cmd /\ CmdsShape(cmds')
        /\ \A i : WorkedOn(cmds, i) => WorkedOn(cmds', i)
    BY <1>1, Moved DEF CardsInv
  <1>3. Backed(cmds, events) /\ CardsBacked /\ UNCHANGED events
    BY DEF CardsInv
  <1>4. Backed(cmds', events')
    <2>1. \A i : WorkedOn(cmds, i) => WorkedOn(cmds', i)
      BY <1>2
    <2>2. Backed(cmds', events)
      BY <1>3, <2>1 DEF Backed
    <2> QED
      BY <1>3, <2>2
  <1>5. CardsShape'
    BY <1>1, <1>2, <1>3, CommandShape
  <1>6. \A k : Accounted(cmds, events, k) => Accounted(cmds', events', k)
    BY <1>2, <1>3 DEF Accounted
  <1>7. CardsBacked'
    BY <1>3, <1>6 DEF CardsBacked
  <1> QED
    BY <1>2, <1>4, <1>5, <1>7 DEF CardsInv

LEMMA RegistersNext ==
    ASSUME CardsInv, NEW c \in cmds, RegisterNext(c)
    PROVE  CardsInv'
  <1> DEFINE d == [c EXCEPT !.st = "begin"]
  <1>1. /\ c.st = "next" /\ cmds' = (cmds \ {c}) \cup {d}
        /\ reg' = IF reg[c.id] = NoCtl THEN [reg EXCEPT ![c.id] = Idle] ELSE reg
        /\ UNCHANGED <<cards, stale, cbs, used, events, mount>>
    BY DEF RegisterNext, Becomes
  <1>2. CardsShape /\ c \in Cmd /\ reg \in [Keys -> Ctl] /\ Known(cmds, reg)
    BY DEF CardsInv, CardsShape
  <1>3. d = [c EXCEPT !.st = "begin"]
    OBVIOUS
  <1> HIDE DEF d
  <1>4. d \in Cmd /\ d.ref = c.ref /\ d.id = c.id /\ d.st = "begin"
    BY <1>2, <1>3, CommandMoves
  <1>5. CmdsShape({d})
    BY <1>4 DEF CmdsShape
  <1>6. Idle \in Ctl /\ c.id \in Keys
    BY <1>2, CommandAt DEF Idle, Ctl
  <1>7. reg' \in [Keys -> Ctl] /\ \A k \in Keys : reg'[k].ref = reg[k].ref
    BY <1>1, <1>2, <1>6 DEF Idle, NoCtl
  <1>8. Known(cmds', reg')
    <2>1. Known(cmds', reg)
      BY <1>1, <1>2, KnownKept
    <2> QED
      BY <1>7, <2>1 DEF Known
  <1> QED
    BY <1>1, <1>4, <1>5, <1>7, <1>8, GoesOn

(* try_begin takes a free control, so no run is forgotten. *)
LEMMA Begins ==
    ASSUME CardsInv, NEW c \in cmds, Begin(c)
    PROVE  CardsInv'
  <1> DEFINE d == [c EXCEPT !.st = "run"]
             ctl == [ref |-> c.ref, req |-> None, st |-> "active"]
  <1>1. /\ c.st = "begin" /\ reg[c.id].ref = None /\ cmds' = (cmds \ {c}) \cup {d}
        /\ reg' = [reg EXCEPT ![c.id] = ctl]
        /\ UNCHANGED <<cards, stale, cbs, used, events, mount>>
    BY DEF Begin, Becomes
  <1>2. CardsShape /\ c \in Cmd /\ reg \in [Keys -> Ctl] /\ Known(cmds, reg)
    BY DEF CardsInv, CardsShape
  <1>3. d = [c EXCEPT !.st = "run"]
    OBVIOUS
  <1>4. c.ref \in Refs \cup {"resume"} /\ c.id \in Keys
    BY <1>2, CommandAt
  <1>5. ctl \in Ctl /\ ctl.ref = c.ref
    BY <1>4 DEF Ctl
  <1> HIDE DEF d, ctl
  <1>6. d \in Cmd /\ d.ref = c.ref /\ d.id = c.id /\ d.st = "run"
    BY <1>2, <1>3, CommandMoves
  <1>7. CmdsShape({d})
    BY <1>6 DEF CmdsShape
  <1>8. reg' \in [Keys -> Ctl]
    BY <1>1, <1>2, <1>5
  <1>9. Known(cmds', reg')
    <2>1. Known(cmds', reg)
      BY <1>1, <1>2, KnownKept
    <2>2. reg'[c.id].ref = c.ref /\ \A k \in Keys : k # c.id => reg'[k] = reg[k]
      BY <1>1, <1>2, <1>4, <1>5
    <2>3. d \in cmds'
      BY <1>1
    <2> QED
      BY <1>6, <2>1, <2>2, <2>3 DEF Known
  <1> QED
    BY <1>1, <1>6, <1>7, <1>8, <1>9, GoesOn

(* A running transfer is worked on by the command whose run it is, so a refused
   resume leaves its card to that one. *)
LEMMA Refuses ==
    ASSUME CardsInv, NEW c \in cmds, Refused(c)
    PROVE  CardsInv'
  <1>1. /\ c.st = "begin" /\ reg[c.id].ref # None
        /\ UNCHANGED <<cards, stale, cbs, used, reg, events, mount>>
    BY DEF Refused
  <1>2. /\ CardsShape /\ cmds \subseteq Cmd /\ c \in Cmd /\ reg \in [Keys -> Ctl]
        /\ Known(cmds, reg) /\ Backed(cmds, events) /\ CardsBacked
    BY DEF CardsInv, CardsShape
  <1>3. CASE c.ref = "resume"
    <2>1. cmds' = cmds \ {c}
      BY <1>3 DEF Refused
    <2>2. c.id \in Keys
      BY <1>2, CommandAt
    <2>3. PICK b \in cmds : b.id = c.id /\ b.st = "run"
      BY <1>1, <1>2, <2>2 DEF Known
    <2>4. b \in cmds' /\ b.st # "resolve"
      BY <1>1, <2>1, <2>3
    <2>5. \A i : WorkedOn(cmds, i) => WorkedOn(cmds', i)
      BY <2>1, <2>3, <2>4 DEF WorkedOn
    <2>6. Backed(cmds', events')
      BY <1>1, <1>2, <2>5 DEF Backed
    <2>7. CmdsShape(cmds') /\ cmds' \subseteq Cmd
      BY <1>2, <2>1 DEF CardsInv, CmdsShape
    <2>8. CardsShape'
      BY <1>1, <1>2, <2>7 DEF CardsShape
    <2>9. Known(cmds', reg')
      BY <1>1, <1>2, <2>1, KnownKept
    <2>10. \A k : Accounted(cmds, events, k) => Accounted(cmds', events', k)
      BY <1>1, <2>1, <2>5 DEF Accounted
    <2>11. CardsBacked'
      BY <1>1, <1>2, <2>10 DEF CardsBacked
    <2> QED
      BY <2>6, <2>7, <2>8, <2>9, <2>11 DEF CardsInv
  <1>4. CASE c.ref # "resume"
    <2> DEFINE d == [c EXCEPT !.st = "emit", !.end = "error"]
    <2>1. cmds' = (cmds \ {c}) \cup {d} /\ d = [c EXCEPT !.st = "emit", !.end = "error"]
      BY <1>4 DEF Refused, Becomes
    <2> HIDE DEF d
    <2>2. "error" \in Ends
      BY DEF Ends
    <2>3. d \in Cmd /\ d.ref = c.ref /\ d.id = c.id /\ d.st = "emit" /\ d.end = "error"
      BY <1>2, <2>1, <2>2 DEF Cmd
    <2>4. CmdsShape({d})
      BY <2>2, <2>3 DEF CmdsShape
    <2>5. Known(cmds', reg')
      BY <1>1, <1>2, <2>1, KnownKept
    <2> QED
      BY <1>1, <1>2, <2>1, <2>3, <2>4, <2>5, GoesOn
  <1> QED
    BY <1>3, <1>4

(* A run that ends releases its own control and no other. *)
LEMMA Ended ==
    ASSUME CardsInv, NEW c \in cmds, NEW end \in Ends, RunEnds(c, end)
    PROVE  CardsInv'
  <1> DEFINE d == [c EXCEPT !.st = "emit", !.end = end]
             ctl == [Idle EXCEPT !.st = IF end \in {"paused", "stopped", "waiting"} THEN end ELSE "over"]
  <1>1. /\ c.st = "run" /\ cmds' = (cmds \ {c}) \cup {d}
        /\ reg' = IF reg[c.id].ref = c.ref THEN [reg EXCEPT ![c.id] = ctl] ELSE reg
        /\ UNCHANGED <<cards, stale, cbs, used, events, mount>>
    BY DEF RunEnds, Becomes
  <1>2. CardsShape /\ c \in Cmd /\ reg \in [Keys -> Ctl] /\ Known(cmds, reg)
    BY DEF CardsInv, CardsShape
  <1>3. d = [c EXCEPT !.st = "emit", !.end = end] /\ c.id \in Keys
    BY <1>2, CommandAt
  <1>4. ctl \in Ctl /\ ctl.ref = None
    <2>1. PICK s \in {"paused", "stopped", "waiting", "over"} : ctl = [Idle EXCEPT !.st = s]
      OBVIOUS
    <2> HIDE DEF ctl
    <2> QED
      BY <2>1 DEF Idle, Ctl
  <1> HIDE DEF d, ctl
  <1>5. d \in Cmd /\ d.ref = c.ref /\ d.id = c.id /\ d.st = "emit" /\ d.end = end
    BY <1>2, <1>3 DEF Cmd
  <1>6. CmdsShape({d})
    BY <1>5 DEF CmdsShape
  <1>7. reg' \in [Keys -> Ctl]
    BY <1>1, <1>2, <1>4
  <1>8. Known(cmds', reg')
    <2> SUFFICES ASSUME NEW k \in Keys, reg'[k].ref # None
                 PROVE  \E b \in cmds' : b.ref = reg'[k].ref /\ b.id = k /\ b.st = "run"
      BY DEF Known
    <2>1. reg'[k] = reg[k]
      BY <1>1, <1>2, <1>3, <1>4
    <2>2. PICK b \in cmds : b.ref = reg[k].ref /\ b.id = k /\ b.st = "run"
      BY <1>2, <2>1 DEF Known
    <2>3. b # c
      <3>1. SUFFICES ASSUME b = c PROVE FALSE
        OBVIOUS
      <3>2. reg' = [reg EXCEPT ![c.id] = ctl] /\ k = c.id
        BY <1>1, <2>2, <3>1
      <3>3. reg'[k] = ctl
        BY <1>2, <1>3, <3>2
      <3> QED
        BY <1>4, <3>3
    <2> QED
      BY <1>1, <2>1, <2>2, <2>3
  <1> QED
    BY <1>1, <1>5, <1>6, <1>7, <1>8, GoesOn

(* A step that emits an event and leaves the webview alone. *)
LEMMA EmitStep ==
    ASSUME CardsInv, NEW e \in Ev, events' = Append(events, e),
           cmds' \subseteq Cmd, CmdsShape(cmds'), CarriesOn(cmds, cmds', e),
           \A c \in cmds : c.st \in {"resolve", "register", "run"} => c \in cmds',
           UNCHANGED <<cards, stale, cbs, used, mount, reg>>
    PROVE  CardsInv'
  <1>1. /\ CardsShape /\ events \in Seq(Ev) /\ reg \in [Keys -> Ctl]
        /\ Backed(cmds, events) /\ Known(cmds, reg) /\ CardsBacked
    BY DEF CardsInv, CardsShape
  <1>2. Emitted(cmds, cmds', events, Append(events, e), e)
    BY <1>1, Emits
  <1>3. events' \in Seq(Ev) /\ Backed(cmds', events')
    BY <1>2 DEF Emitted
  <1>4. \A k : Accounted(cmds, events, k) => Accounted(cmds', events', k)
    BY <1>2 DEF Emitted, Accounted
  <1>5. CardsShape'
    BY <1>1, <1>3, CommandShape
  <1>6. Known(cmds', reg')
    BY <1>1, KnownKept
  <1>7. CardsBacked'
    BY <1>1, <1>4 DEF CardsBacked
  <1> QED
    BY <1>3, <1>5, <1>6, <1>7 DEF CardsInv

LEMMA Progresses ==
    ASSUME CardsInv, NEW c \in cmds, Progress(c)
    PROVE  CardsInv'
  <1> DEFINE e == [k |-> "progress", key |-> c.id, id |-> c.id]
  <1>1. c.st = "run" /\ events' = Append(events, e) /\ UNCHANGED <<cards, stale, cbs, used, cmds, reg, mount>>
    BY DEF Progress, Emit
  <1>2. c \in Cmd /\ cmds \subseteq Cmd /\ CmdsShape(cmds)
    BY DEF CardsInv, CardsShape
  <1>3. c.id \in Keys
    BY <1>2, CommandAt
  <1>4. e \in Ev /\ e.k = "progress" /\ e.id = c.id
    BY <1>3 DEF Ev
  <1> HIDE DEF e
  <1>5. CarriesOn(cmds, cmds', e)
    BY <1>1, <1>4 DEF CarriesOn, WorkedOn
  <1> QED
    BY <1>1, <1>2, <1>4, <1>5, EmitStep

(* The `done` of a file tells how its transfer ended; the command goes on with
   the next one. *)
LEMMA Done ==
    ASSUME CardsInv, NEW c \in cmds, EmitDone(c)
    PROVE  CardsInv'
  <1> DEFINE e == [k |-> c.end, key |-> c.id, id |-> c.id]
             d == [c EXCEPT !.id = Head(c.todo), !.todo = Tail(c.todo), !.st = "next", !.end = None]
  <1>1. /\ c.st = "emit" /\ events' = Append(events, e) /\ UNCHANGED <<cards, stale, cbs, used, reg, mount>>
        /\ \/ cmds' = cmds \ {c}
           \/ c.todo # <<>> /\ cmds' = (cmds \ {c}) \cup {d}
    BY DEF EmitDone, Emit, Becomes
  <1>2. c \in Cmd /\ cmds \subseteq Cmd /\ CmdsShape(cmds)
    BY DEF CardsInv, CardsShape
  <1>3. c.id \in Keys /\ c.end \in Ends /\ c.todo \in Seq(Ids)
    BY <1>1, <1>2, CommandAt DEF CmdsShape
  <1>4. e \in Ev /\ e.k \in Ends /\ e.id = c.id /\ e.k \notin {"registered", "progress"}
    BY <1>3 DEF Ev, Ends
  <1>5. ASSUME c.todo # <<>> PROVE d \in Cmd /\ d.st = "next"
    <2>1. Head(c.todo) \in Keys /\ Tail(c.todo) \in Seq(Ids)
      BY <1>3, <1>5, HeadTailProperties DEF Keys
    <2>2. PICK i, t : i = Head(c.todo) /\ t = Tail(c.todo)
      OBVIOUS
    <2>3. d = [c EXCEPT !.id = i, !.todo = t, !.st = "next", !.end = None] /\ i \in Keys /\ t \in Seq(Ids)
      BY <2>1, <2>2
    <2> HIDE DEF d
    <2> QED
      BY <1>2, <2>3 DEF Cmd
  <1> HIDE DEF d, e
  <1>6. cmds' \subseteq Cmd /\ CmdsShape(cmds')
    BY <1>1, <1>2, <1>5 DEF CmdsShape
  <1>7. CarriesOn(cmds, cmds', e)
    BY <1>1, <1>4 DEF CarriesOn, WorkedOn
  <1> QED
    BY <1>1, <1>4, <1>6, <1>7, EmitStep

-----------------------------------------------------------------------------
(* The webview handles an event. *)

LEMMA RegisteredHandled ==
    ASSUME CardsInv, OnRegistered
    PROVE  CardsInv'
  <1> DEFINE e == Head(events)
  <1>1. /\ events # <<>> /\ e.k = "registered" /\ events' = Tail(events)
        /\ UNCHANGED <<used, cmds, reg, mount>>
    BY DEF OnRegistered, Next1
  <1>2. \/ cards[e.key] = None /\ UNCHANGED <<cards, stale, cbs>>
        \/ /\ cards' = [cards EXCEPT ![e.id] = cards[e.key], ![e.key] = None]
           /\ stale' = stale \ {e.id}
           /\ cbs' = IF cbs[e.key] = None THEN cbs ELSE [cbs EXCEPT ![e.id] = cbs[e.key], ![e.key] = None]
    BY DEF OnRegistered, Next1
  <1>3. /\ CardsShape /\ events \in Seq(Ev) /\ Known(cmds, reg) /\ CmdsShape(cmds)
        /\ Backed(cmds, events) /\ CardsBacked
    BY DEF CardsInv, CardsShape
  <1>4. Accepted(cmds, events, events', e)
    BY <1>1, <1>3, Handled
  <1> HIDE DEF e
  <1>5. /\ events' \in Seq(Ev) /\ Backed(cmds, events') /\ e \in Ev
        /\ Accounted(cmds, events', e.id)
        /\ \A k : Accounted(cmds, events, k) => Accounted(cmds, events', k) \/ e.key = k
    BY <1>1, <1>4 DEF Accepted, Ends
  <1>6. e.id \in Keys /\ e.key \in Keys
    BY <1>5, EventAt
  <1>7. CASE cards[e.key] = None /\ UNCHANGED <<cards, stale, cbs>>
    <2>1. CardsShape'
      BY <1>1, <1>3, <1>5, <1>7 DEF CardsShape
    <2>2. None \notin Moving
      BY DEF Moving, Active, None
    <2>3. CardsBacked'
      BY <1>1, <1>3, <1>5, <1>6, <1>7, <2>2 DEF CardsBacked
    <2> QED
      BY <1>1, <1>3, <1>5, <2>1, <2>3 DEF CardsInv
  <1>8. CASE /\ cards' = [cards EXCEPT ![e.id] = cards[e.key], ![e.key] = None]
             /\ stale' = stale \ {e.id}
             /\ cbs' = IF cbs[e.key] = None THEN cbs ELSE [cbs EXCEPT ![e.id] = cbs[e.key], ![e.key] = None]
    <2>1. cards' \in [Keys -> Phases \cup {None}] /\ cbs' \in [Keys -> Refs \cup {None}]
      BY <1>3, <1>6, <1>8 DEF CardsShape
    <2>2. CardsShape'
      BY <1>1, <1>3, <1>5, <1>8, <2>1 DEF CardsShape
    <2>3. cards'[e.key] \notin Moving
      BY <1>3, <1>6, <1>8 DEF CardsShape, Moving, Active, None
    <2>4. \A k \in Keys \ {e.id, e.key} : cards'[k] = cards[k] /\ (k \notin stale' => k \notin stale)
      BY <1>3, <1>6, <1>8 DEF CardsShape
    <2>5. CardsBacked'
      BY <1>1, <1>3, <1>5, <2>3, <2>4 DEF CardsBacked
    <2> QED
      BY <1>1, <1>3, <1>5, <2>2, <2>5 DEF CardsInv
  <1> QED
    BY <1>2, <1>7, <1>8

LEMMA ProgressHandled ==
    ASSUME CardsInv, OnProgress
    PROVE  CardsInv'
  <1> DEFINE e == Head(events)
  <1>1. /\ events # <<>> /\ e.k = "progress" /\ events' = Tail(events)
        /\ UNCHANGED <<cbs, used, cmds, reg, mount>>
    BY DEF OnProgress, Next1
  <1>2. \/ UNCHANGED <<cards, stale>>
        \/ cards' = [cards EXCEPT ![e.id] = "downloading"] /\ stale' = stale \ {e.id}
    BY DEF OnProgress, Next1
  <1>3. /\ CardsShape /\ events \in Seq(Ev) /\ Known(cmds, reg) /\ CmdsShape(cmds)
        /\ Backed(cmds, events) /\ CardsBacked
    BY DEF CardsInv, CardsShape
  <1>4. Accepted(cmds, events, events', e)
    BY <1>1, <1>3, Handled
  <1> HIDE DEF e
  <1>5. /\ events' \in Seq(Ev) /\ Backed(cmds, events') /\ e \in Ev
        /\ Accounted(cmds, events', e.id)
        /\ \A k : Accounted(cmds, events, k) => Accounted(cmds, events', k)
    BY <1>1, <1>4 DEF Accepted, Ends
  <1>6. e.id \in Keys
    BY <1>5, EventAt
  <1>7. cards' \in [Keys -> Phases \cup {None}]
    BY <1>2, <1>3 DEF CardsShape, Phases, Active
  <1>8. CardsShape'
    BY <1>1, <1>2, <1>3, <1>5, <1>7 DEF CardsShape
  <1>9. \A k \in Keys \ {e.id} : cards'[k] = cards[k] /\ (k \notin stale' => k \notin stale)
    BY <1>2, <1>3 DEF CardsShape
  <1>10. CardsBacked'
    BY <1>1, <1>3, <1>5, <1>9 DEF CardsBacked
  <1> QED
    BY <1>1, <1>3, <1>5, <1>8, <1>10 DEF CardsInv

(* The end of a transfer settles its card. *)
LEMMA DoneHandled ==
    ASSUME CardsInv, OnDone
    PROVE  CardsInv'
  <1> DEFINE e == Head(events)
             next == IF cards[e.id] = None \/ e.k = "stopped" THEN None ELSE e.k
  <1>1. /\ events # <<>> /\ e.k \in Ends /\ events' = Tail(events)
        /\ cbs' = [cbs EXCEPT ![e.id] = None]
        /\ cards' = [cards EXCEPT ![e.id] = next]
        /\ (stale' = stale \/ stale' = stale \ {e.id})
        /\ UNCHANGED <<used, cmds, reg, mount>>
    BY DEF OnDone, Next1
  <1>2. /\ CardsShape /\ events \in Seq(Ev) /\ Known(cmds, reg) /\ CmdsShape(cmds)
        /\ Backed(cmds, events) /\ CardsBacked
    BY DEF CardsInv, CardsShape
  <1>3. Accepted(cmds, events, events', e)
    BY <1>1, <1>2, Handled
  <1>4. next \in Settled \cup {None}
    BY <1>1 DEF Ends, Settled
  <1> HIDE DEF e, next
  <1>5. /\ events' \in Seq(Ev) /\ Backed(cmds, events') /\ e \in Ev
        /\ \A k : k # e.id /\ Accounted(cmds, events, k) => Accounted(cmds, events', k)
    BY <1>1, <1>3 DEF Accepted, Ends
  <1>6. e.id \in Keys
    BY <1>5, EventAt
  <1>7. cards' \in [Keys -> Phases \cup {None}] /\ cbs' \in [Keys -> Refs \cup {None}]
    BY <1>1, <1>2, <1>4 DEF CardsShape, Phases
  <1>8. CardsShape'
    BY <1>1, <1>2, <1>5, <1>7 DEF CardsShape
  <1>9. cards'[e.id] \notin Moving
    <2>1. cards'[e.id] = next
      BY <1>1, <1>2, <1>6 DEF CardsShape
    <2> QED
      BY <1>4, <2>1 DEF Settled, Moving, Active, None
  <1>10. \A k \in Keys \ {e.id} : cards'[k] = cards[k] /\ (k \notin stale' => k \notin stale)
    BY <1>1, <1>2 DEF CardsShape
  <1>11. CardsBacked'
    BY <1>1, <1>2, <1>5, <1>9, <1>10 DEF CardsBacked
  <1> QED
    BY <1>1, <1>2, <1>5, <1>8, <1>11 DEF CardsInv

-----------------------------------------------------------------------------
(* The user and the engine's list *)

(* No card begins to move, and no run is registered. *)
LEMMA CardsOnly ==
    ASSUME CardsInv, UNCHANGED <<used, cmds>>,
           cards' \in [Keys -> Phases \cup {None}], cbs' \in [Keys -> Refs \cup {None}], stale' \subseteq Ids,
           mount' \in [st : {"up", "asked", "listed"}, list : [Ids -> Shown]],
           reg' \in [Keys -> Ctl], \A k \in Keys : reg'[k].ref = reg[k].ref \/ reg'[k].ref = None,
           events' = events,
           \A k \in Keys : cards'[k] \in Moving /\ k \notin stale' => cards[k] \in Moving /\ k \notin stale
    PROVE  CardsInv'
  <1>1. /\ CardsShape /\ Known(cmds, reg) /\ CmdsShape(cmds) /\ Backed(cmds, events) /\ CardsBacked
    BY DEF CardsInv
  <1>2. CardsShape'
    BY <1>1 DEF CardsShape
  <1>3. Known(cmds', reg')
    BY <1>1 DEF Known
  <1>4. Backed(cmds', events') /\ CmdsShape(cmds')
    BY <1>1
  <1>5. CardsBacked'
    BY <1>1 DEF CardsBacked
  <1> QED
    BY <1>2, <1>3, <1>4, <1>5 DEF CardsInv

LEMMA Requests ==
    ASSUME reg \in [Keys -> Ctl], NEW k \in Keys, NEW q \in {"pause", "stop"}
    PROVE  /\ Requested(k, q) \in [Keys -> Ctl]
           /\ \A j \in Keys : Requested(k, q)[j].ref = reg[j].ref
  <1>1. CASE reg[k] = NoCtl
    BY <1>1 DEF Requested
  <1>2. CASE reg[k] # NoCtl
    <2>1. PICK s \in {"paused", "stopped"} :
              Requested(k, q) = [reg EXCEPT ![k] = [[reg[k] EXCEPT !.req = q] EXCEPT !.st = s]]
      BY <1>2 DEF Requested
    <2>2. PICK c : c = [[reg[k] EXCEPT !.req = q] EXCEPT !.st = s]
      OBVIOUS
    <2>3. reg[k] \in Ctl
      OBVIOUS
    <2>4. c \in Ctl /\ c.ref = reg[k].ref
      BY <2>2, <2>3 DEF Ctl
    <2>5. Requested(k, q) = [reg EXCEPT ![k] = c]
      BY <2>1, <2>2
    <2> QED
      BY <2>4, <2>5
  <1> QED
    BY <1>1, <1>2

LEMMA Pauses ==
    ASSUME CardsInv, NEW k \in Keys, Pause(k) \/ Stop(k)
    PROVE  CardsInv'
  <1>1. PICK q \in {"pause", "stop"}, p \in {"pausing", "stopping"} :
            /\ cards[k] \in Active /\ cards' = [cards EXCEPT ![k] = p] /\ reg' = Requested(k, q)
            /\ UNCHANGED <<stale, cbs, used, cmds, events, mount>>
    BY DEF Pause, Stop
  <1>2. CardsShape /\ reg \in [Keys -> Ctl]
    BY DEF CardsInv, CardsShape
  <1>3. reg' \in [Keys -> Ctl] /\ \A j \in Keys : reg'[j].ref = reg[j].ref
    BY <1>1, <1>2, Requests
  <1>4. cards' \in [Keys -> Phases \cup {None}]
    BY <1>1, <1>2 DEF CardsShape, Phases
  <1>5. \A j \in Keys : cards'[j] \in Moving /\ j \notin stale' => cards[j] \in Moving /\ j \notin stale
    BY <1>1, <1>2 DEF CardsShape, Moving
  <1>6. /\ cbs' \in [Keys -> Refs \cup {None}] /\ stale' \subseteq Ids /\ events' = events
        /\ mount' \in [st : {"up", "asked", "listed"}, list : [Ids -> Shown]]
    BY <1>1, <1>2 DEF CardsShape
  <1> QED
    BY <1>1, <1>3, <1>4, <1>5, <1>6, CardsOnly

LEMMA Resumes ==
    ASSUME CardsInv, NEW k \in Keys, Resume(k)
    PROVE  CardsInv'
  <1> DEFINE c == [ref |-> "resume", id |-> k, todo |-> <<>>, st |-> "begin", end |-> None]
  <1>1. /\ cards' = [cards EXCEPT ![k] = "starting"] /\ cmds' = cmds \cup {c}
        /\ UNCHANGED <<stale, cbs, used, reg, events, mount>>
    BY DEF Resume
  <1>2. c \in Cmd /\ c.st = "begin" /\ c.id = k
    BY DEF Cmd
  <1> HIDE DEF c
  <1>3. /\ CardsShape /\ Known(cmds, reg) /\ CmdsShape(cmds) /\ Backed(cmds, events) /\ CardsBacked
    BY DEF CardsInv
  <1>4. cards' \in [Keys -> Phases \cup {None}]
    BY <1>1, <1>3 DEF CardsShape, Phases, Active
  <1>5. CardsShape'
    BY <1>1, <1>2, <1>3, <1>4 DEF CardsShape
  <1>6. CmdsShape(cmds')
    BY <1>1, <1>2, <1>3 DEF CmdsShape
  <1>7. WorkedOn(cmds', k) /\ \A i : WorkedOn(cmds, i) => WorkedOn(cmds', i)
    BY <1>1, <1>2 DEF WorkedOn
  <1>8. Backed(cmds', events')
    BY <1>1, <1>3, <1>7 DEF Backed
  <1>9. Known(cmds', reg')
    BY <1>1, <1>3, KnownKept
  <1>10. /\ Accounted(cmds', events', k)
         /\ \A j : Accounted(cmds, events, j) => Accounted(cmds', events', j)
    BY <1>1, <1>7 DEF Accounted
  <1>11. \A j \in Keys \ {k} : cards'[j] = cards[j]
    BY <1>1, <1>3 DEF CardsShape
  <1>12. CardsBacked'
    BY <1>1, <1>3, <1>10, <1>11 DEF CardsBacked
  <1> QED
    BY <1>5, <1>6, <1>8, <1>9, <1>12 DEF CardsInv

LEMMA Removes ==
    ASSUME CardsInv, NEW k \in Keys, Remove(k) \/ Expire(k)
    PROVE  CardsInv'
  <1>1. /\ cards' = [cards EXCEPT ![k] = None]
        /\ stale' \subseteq stale /\ (\A j \in Keys : j # k => (j \in stale <=> j \in stale'))
        /\ reg' = reg \/ reg' = Requested(k, "stop") \/ reg' = [reg EXCEPT ![k] = NoCtl]
        /\ UNCHANGED <<cbs, used, cmds, events, mount>>
    BY DEF Remove, Expire
  <1>2. CardsShape /\ reg \in [Keys -> Ctl]
    BY DEF CardsInv, CardsShape
  <1>3. NoCtl \in Ctl /\ NoCtl.ref = None
    BY DEF NoCtl, Ctl
  <1>4. reg' \in [Keys -> Ctl] /\ \A j \in Keys : reg'[j].ref = reg[j].ref \/ reg'[j].ref = None
    <2>1. CASE reg' = Requested(k, "stop")
      BY <1>2, <2>1, Requests
    <2>2. CASE reg' = [reg EXCEPT ![k] = NoCtl]
      BY <1>2, <1>3, <2>2
    <2> QED
      BY <1>1, <1>2, <2>1, <2>2
  <1>5. cards' \in [Keys -> Phases \cup {None}]
    BY <1>1, <1>2 DEF CardsShape
  <1>6. \A j \in Keys : cards'[j] \in Moving /\ j \notin stale' => cards[j] \in Moving /\ j \notin stale
    BY <1>1, <1>2 DEF CardsShape, Moving, Active, None
  <1>7. /\ cbs' \in [Keys -> Refs \cup {None}] /\ stale' \subseteq Ids /\ events' = events
        /\ mount' \in [st : {"up", "asked", "listed"}, list : [Ids -> Shown]]
    BY <1>1, <1>2 DEF CardsShape
  <1> QED
    BY <1>1, <1>4, <1>5, <1>6, <1>7, CardsOnly

(* Nothing moves in a window that has just been opened. *)
LEMMA Reloads ==
    ASSUME CardsInv, Reload
    PROVE  CardsInv'
  <1>1. CardsShape /\ Known(cmds, reg) /\ CmdsShape(cmds)
    BY DEF CardsInv
  <1>2. mount' \in [st : {"up", "asked", "listed"}, list : [Ids -> Shown]]
    <2>1. NoMount \in [st : {"up", "asked", "listed"}, list : [Ids -> Shown]]
      BY DEF NoMount, Shown
    <2> QED
      BY <2>1 DEF Reload
  <1>3. cards' \in [Keys -> Phases \cup {None}] /\ cbs' \in [Keys -> Refs \cup {None}]
    BY DEF Reload
  <1>4. events' \in Seq(Ev) /\ DOMAIN events' = {}
    BY DEF Reload
  <1>5. UNCHANGED <<used, cmds, reg>> /\ stale' = {} /\ \A k \in Keys : cards'[k] = None
    BY DEF Reload
  <1>6. CardsShape'
    BY <1>1, <1>2, <1>3, <1>4, <1>5 DEF CardsShape
  <1>7. Backed(cmds', events')
    BY <1>4 DEF Backed
  <1>8. CardsBacked'
    BY <1>5 DEF CardsBacked, Moving, Active, None
  <1>9. Known(cmds', reg') /\ CmdsShape(cmds')
    BY <1>1, <1>5
  <1> QED
    BY <1>6, <1>7, <1>8, <1>9 DEF CardsInv

(* A card made from the engine's list is one of those that may be out of date. *)
LEMMA Mounts ==
    ASSUME CardsInv, Mount
    PROVE  CardsInv'
  <1>1. /\ CardsShape /\ reg \in [Keys -> Ctl] /\ cards \in [Keys -> Phases \cup {None}]
        /\ stale \subseteq Ids /\ Ids \subseteq Keys
    BY DEF CardsInv, CardsShape, Keys
  <1>2. CASE ListTransfers
    <2>1. \A i \in Ids : Listed(i) \in Shown
      BY DEF Listed, Shown
    <2>2. mount' \in [st : {"up", "asked", "listed"}, list : [Ids -> Shown]]
      BY <1>2, <2>1 DEF ListTransfers
    <2>3. UNCHANGED <<cards, stale, cbs, used, cmds, reg, events>>
      BY <1>2 DEF ListTransfers
    <2>4. cbs' \in [Keys -> Refs \cup {None}]
      BY <1>1, <2>3 DEF CardsShape
    <2> QED
      BY <1>1, <2>2, <2>3, <2>4, CardsOnly
  <1>3. CASE Reconcile
    <2>1. /\ cards' = [k \in Keys |-> IF k \in Ids /\ cards[k] = None THEN mount.list[k] ELSE cards[k]]
          /\ stale' = stale \cup {i \in Ids : cards[i] = None /\ mount.list[i] # None}
          /\ mount' = NoMount
          /\ UNCHANGED <<cbs, used, cmds, reg, events>>
      BY <1>3 DEF Reconcile
    <2>2. mount.list \in [Ids -> Shown]
      BY <1>1 DEF CardsShape
    <2>3. cards' \in [Keys -> Phases \cup {None}]
      BY <1>1, <2>1, <2>2 DEF Shown, Phases, Settled, Active
    <2>4. mount' \in [st : {"up", "asked", "listed"}, list : [Ids -> Shown]]
      BY <2>1 DEF NoMount, Shown
    <2>5. stale' \subseteq Ids /\ cbs' \in [Keys -> Refs \cup {None}]
      BY <1>1, <2>1 DEF CardsShape
    <2>6. \A k \in Keys : cards'[k] \in Moving /\ k \notin stale' => cards[k] \in Moving /\ k \notin stale
      <3> SUFFICES ASSUME NEW k \in Keys, cards'[k] \in Moving, k \notin stale'
                   PROVE  cards[k] \in Moving /\ k \notin stale
        OBVIOUS
      <3>1. None \notin Moving
        BY DEF Moving, Active, None
      <3>2. ~(k \in Ids /\ cards[k] = None)
        BY <2>1, <3>1
      <3> QED
        BY <2>1, <3>2
    <2> QED
      BY <1>1, <2>1, <2>3, <2>4, <2>5, <2>6, CardsOnly
  <1> QED
    BY <1>2, <1>3 DEF Mount

-----------------------------------------------------------------------------
LEMMA CardsStep ==
    ASSUME CardsInv, CardsAssumption, Next
    PROVE  CardsInv'
  <1>1. ASSUME NEW r \in Refs, NEW todo \in Links, Start(r, todo, FALSE) PROVE CardsInv'
    <2>1. todo \in Seq(Ids) /\ todo # <<>>
      BY DEF CardsAssumption
    <2> QED
      BY <1>1, <2>1, Starts
  <1>2. ASSUME NEW r \in Refs, NEW i \in Hub, Start(r, <<i>>, TRUE) PROVE CardsInv'
    <2>1. <<i>> \in Seq(Ids) /\ <<i>> # <<>>
      BY DEF CardsAssumption
    <2> QED
      BY <1>2, <2>1, Starts
  <1>3. ASSUME NEW c \in cmds, Command(c) \/ Progress(c) PROVE CardsInv'
    BY <1>3, Resolves, ResolveErrs, Registers, RegistersNext, Begins, Refuses, Ended, Done, Progresses
       DEF Command
  <1>4. CASE Handle
    BY <1>4, RegisteredHandled, ProgressHandled, DoneHandled DEF Handle
  <1>5. CASE User
    BY <1>5, Pauses, Resumes, Removes DEF User
  <1>6. ASSUME NEW k \in Keys, Expire(k) PROVE CardsInv'
    BY <1>6, Removes
  <1> QED
    BY <1>1, <1>2, <1>3, <1>4, <1>5, <1>6, Mounts, Reloads DEF Next

LEMMA CardsFrame ==
    ASSUME CardsInv, UNCHANGED cardVars
    PROVE  CardsInv'
  BY DEF CardsInv, CardsShape, CmdsShape, Backed, Known, CardsBacked, cardVars, Accounted, WorkedOn, Ending

(* Every card shown as moving, but for those made from the engine's list, has a
   command or an event to come. *)
LEMMA CardsMean ==
    ASSUME CardsInv
    PROVE  CardsTypeOK /\ MovingIsMoving
  <1>1. CardsShape /\ CardsBacked
    BY DEF CardsInv
  <1>2. CardsTypeOK
    BY <1>1 DEF CardsShape, CardsTypeOK, Ctl
  <1>3. \A k : Accounted(cmds, events, k) =>
            \/ \E c \in cmds : c.id = k \/ c.ref = k
            \/ \E n \in DOMAIN events : events[n].k \in Ends /\ events[n].id = k
            \/ \E n \in DOMAIN events : events[n].k = "registered" /\ events[n].key = k
    BY DEF Accounted, WorkedOn, Ending
  <1>4. MovingIsMoving
    BY <1>1, <1>3 DEF CardsBacked, MovingIsMoving, Moving
  <1> QED
    BY <1>2, <1>4

=============================================================================
