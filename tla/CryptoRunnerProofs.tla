------------------------- MODULE CryptoRunnerProofs -------------------------
(***************************************************************************)
(* Theorems about CryptoRunner, for any strategies, positions, sides and   *)
(* bounds: type correctness, that no exit opens or turns round a position, *)
(* that a stop halts entries, and that positions stay protected as long as *)
(* no entry tick overlaps another thread.                                  *)
(***************************************************************************)
EXTENDS CryptoRunner, TLAPS

\* Arithmetic of signed sizes.
LEMMA SignFacts ==
    ASSUME NEW n \in Int
    PROVE /\ Sign(n) \in {-1, 0, 1}
          /\ Abs(n) \in Nat
          /\ n # 0 => Sign(n) \in {1, -1} /\ Abs(n) > 0
          /\ n = 0 => Sign(n) = 0
          /\ \A m \in Nat : Abs(n) <= m => n \in -m .. m
          /\ \A m \in Nat : n \in -m .. m => Abs(n) \in 0 .. m
  BY DEF Sign, Abs

\* An execution leaves every position within the exchange's limit.
LEMMA FillType ==
    ASSUME TypeOK, NEW s \in Strategies, NEW d \in Int, NEW n \in Int, Fill(s, d, n)
    PROVE net' \in [Strategies -> -MaxNet .. MaxNet]
<1>1. net \in [Strategies -> -MaxNet .. MaxNet]
  BY DEF TypeOK
<1> DEFINE after == net[s] + d * n
<1>2. after \in Int /\ net' = [net EXCEPT ![s] = after] /\ Abs(after) <= MaxNet
  BY <1>1, CryptoAssumption DEF Fill
<1>3. after \in -MaxNet .. MaxNet
  BY <1>2, SignFacts, CryptoAssumption
<1>4. QED
  BY <1>1, <1>2, <1>3

\* The objects that are kept keep their type.
LEMMA KeepType ==
    ASSUME TypeOK, NEW objects \in [Positions -> Objects], Keep(objects)
    PROVE heap' \in [Positions -> Objects] /\ due' \subseteq Positions
  BY CryptoAssumption DEF TypeOK, Keep, Blank, Objects

\* Where a thread goes, and what the others keep.
LEMMA GoFacts ==
    ASSUME TypeOK, NEW t \in Threads, NEW place \in Places, Go(t, place)
    PROVE /\ at' \in [Threads -> Places] /\ at'[t] = place
          /\ \A u \in Threads : u # t => at'[u] = at[u]
  BY DEF TypeOK, Go

Items == (Strategies \cup {None}) \X (Positions \cup {None})

\* The same with the item a thread turns to.
LEMMA TurnFacts ==
    ASSUME TypeOK, NEW t \in Threads, NEW place \in Places, NEW x \in Items,
           Turn(t, place, x)
    PROVE /\ at' \in [Threads -> Places] /\ at'[t] = place
          /\ \A u \in Threads : u # t => at'[u] = at[u]
          /\ cur' \in [Threads -> Items] /\ cur'[t] = x
          /\ \A u \in Threads : u # t => cur'[u] = cur[u]
<1>1. Go(t, place) /\ cur' = [cur EXCEPT ![t] = x]
  BY DEF Turn
<1>2. cur \in [Threads -> Items]
  BY DEF TypeOK, Items
<1>3. QED
  BY <1>1, <1>2, GoFacts

\* A thread that goes on to its next item has none in hand.
LEMMA AgainFacts ==
    ASSUME TypeOK, NEW t \in Threads, Again(t)
    PROVE /\ at' \in [Threads -> Places] /\ at'[t] \in {"next", "idle", "remove"}
          /\ t # "manage" => at'[t] # "remove"
          /\ at'[t] = "idle" => todo'[t] = {}
          /\ \A u \in Threads : u # t => at'[u] = at[u]
          /\ cur' \in [Threads -> Items]
          /\ \A u \in Threads : u # t => cur'[u] = cur[u]
<1> DEFINE place == IF todo'[t] # {} THEN "next"
                    ELSE IF t = "manage" /\ leaving' # {} THEN "remove" ELSE "idle"
<1>1. Turn(t, place, Nobody)
  BY DEF Again
<1>2. place \in {"next", "idle", "remove"} /\ (t # "manage" => place # "remove")
      /\ (place = "idle" => todo'[t] = {})
  OBVIOUS
<1> HIDE DEF place
<1>3. place \in Places /\ Nobody \in Items
  BY <1>2 DEF Places, Nobody, Items
<1>4. QED
  BY <1>1, <1>2, <1>3, TurnFacts

\* The items that are left when one is taken or a loop is started.
LEMMA TodoFacts ==
    ASSUME TypeOK, NEW t \in Threads, NEW items,
           items \subseteq Strategies \X (Positions \cup {None}),
           todo' = [todo EXCEPT ![t] = items]
    PROVE /\ todo' \in [Threads -> SUBSET (Strategies \X (Positions \cup {None}))]
          /\ todo'[t] = items
          /\ \A u \in Threads : u # t => todo'[u] = todo[u]
  BY DEF TypeOK

\* The initial state satisfies the inductive invariant.
LEMMA InitIInv == Init => IInv
<1> SUFFICES ASSUME Init PROVE IInv
  OBVIOUS
<1>1. TypeOK
  <2>1. /\ slot \in [Strategies -> Positions \cup {None}]
        /\ heap \in [Positions -> Objects] /\ due \subseteq Positions
    BY CryptoAssumption DEF Init, Objects, Blank
  <2>2. /\ killed \in BOOLEAN /\ up \in BOOLEAN
        /\ at \in [Threads -> Places]
        /\ leaving \subseteq Pairs /\ bet \in {1, -1}
        /\ answer \in [Threads -> BOOLEAN]
    BY DEF Init, Places
  <2>3. todo \in [Threads -> SUBSET (Strategies \X (Positions \cup {None}))]
    BY DEF Init
  <2>4. cur \in [Threads -> (Strategies \cup {None}) \X (Positions \cup {None})]
    BY DEF Init, Nobody
  <2>5. /\ seen \in [Strategies -> -MaxNet .. MaxNet]
        /\ net \in [Strategies -> -MaxNet .. MaxNet]
        /\ armed \in [Strategies -> {-1, 0, 1}]
        /\ {entries, faults, kills, restarts} \subseteq 0 .. MaxEvents
    BY CryptoAssumption DEF Init
  <2>6. QED
    BY <2>1, <2>2, <2>3, <2>4, <2>5 DEF TypeOK
<1>2. LoopInv
  BY DEF Init, LoopInv, Threads, Busy, Claiming
<1>3. QED
  BY <1>1, <1>2 DEF IInv

\* An item taken from a loop, and the thread that took it.
LEMMA TakeFacts ==
    ASSUME TypeOK, NEW t \in Threads, NEW place \in Places, NEW x, Take(t, x, place)
    PROVE /\ x \in todo[t] /\ x \in Items
          /\ todo' \in [Threads -> SUBSET (Strategies \X (Positions \cup {None}))]
          /\ todo'[t] = todo[t] \ {x}
          /\ \A u \in Threads : u # t => todo'[u] = todo[u]
          /\ at' \in [Threads -> Places] /\ at'[t] = place /\ at[t] = "next"
          /\ \A u \in Threads : u # t => at'[u] = at[u]
          /\ cur' \in [Threads -> Items] /\ cur'[t] = x
          /\ \A u \in Threads : u # t => cur'[u] = cur[u]
<1>1. x \in todo[t] /\ at[t] = "next" /\ todo' = [todo EXCEPT ![t] = @ \ {x}]
      /\ Turn(t, place, x)
  BY DEF Take
<1>2. todo[t] \subseteq Strategies \X (Positions \cup {None})
  BY DEF TypeOK
<1>3. x \in Items
  BY <1>1, <1>2 DEF Items
<1>4. todo' = [todo EXCEPT ![t] = todo[t] \ {x}]
      /\ todo[t] \ {x} \subseteq Strategies \X (Positions \cup {None})
  BY <1>1, <1>2
<1>5. /\ todo' \in [Threads -> SUBSET (Strategies \X (Positions \cup {None}))]
      /\ todo'[t] = todo[t] \ {x}
      /\ \A u \in Threads : u # t => todo'[u] = todo[u]
  BY <1>4, TodoFacts
<1>6. /\ at' \in [Threads -> Places] /\ at'[t] = place
      /\ \A u \in Threads : u # t => at'[u] = at[u]
      /\ cur' \in [Threads -> Items] /\ cur'[t] = x
      /\ \A u \in Threads : u # t => cur'[u] = cur[u]
  BY <1>1, <1>3, TurnFacts
<1>7. QED
  BY <1>1, <1>3, <1>5, <1>6

\* An item a loop leaves alone.
LEMMA SkipFacts ==
    ASSUME TypeOK, NEW t \in Threads, NEW x, Skip(t, x)
    PROVE /\ todo' \in [Threads -> SUBSET (Strategies \X (Positions \cup {None}))]
          /\ todo'[t] \subseteq todo[t]
          /\ \A u \in Threads : u # t => todo'[u] = todo[u]
          /\ Again(t)
<1>1. x \in todo[t] /\ todo' = [todo EXCEPT ![t] = todo[t] \ {x}] /\ Again(t)
  BY DEF Skip
<1>2. todo[t] \ {x} \subseteq Strategies \X (Positions \cup {None})
  BY DEF TypeOK
<1>3. QED
  BY <1>1, <1>2, TodoFacts

\* The exchange stays within its types whatever is asked of it.
LEMMA BracketType ==
    ASSUME TypeOK, NEW s \in Strategies
    PROVE /\ \A side \in {1, -1}, ok \in BOOLEAN :
                PlaceBracket(s, side, ok) => /\ armed' \in [Strategies -> {-1, 0, 1}]
                                             /\ faults' \in 0 .. MaxEvents
          /\ CancelBracket(s) => /\ armed' \in [Strategies -> {-1, 0, 1}]
                                 /\ faults' \in 0 .. MaxEvents
<1>1. armed \in [Strategies -> {-1, 0, 1}] /\ faults \in 0 .. MaxEvents
  BY DEF TypeOK
<1>2. Fails => faults' \in 0 .. MaxEvents
  BY CryptoAssumption DEF TypeOK, Fails, MayHappen
<1>3. \A side \in {1, -1}, ok \in BOOLEAN :
         PlaceBracket(s, side, ok) => /\ armed' \in [Strategies -> {-1, 0, 1}]
                                      /\ faults' \in 0 .. MaxEvents
  BY <1>1, <1>2 DEF PlaceBracket
<1>4. CancelBracket(s) => /\ armed' \in [Strategies -> {-1, 0, 1}]
                          /\ faults' \in 0 .. MaxEvents
  BY <1>1, <1>2 DEF CancelBracket
<1>5. QED
  BY <1>3, <1>4

\* What an exit closes of a position: an execution within the limit.
LEMMA ReduceType ==
    ASSUME TypeOK, NEW s \in Strategies, NEW p \in Positions, Reduce(s, p)
    PROVE net' \in [Strategies -> -MaxNet .. MaxNet]
<1>1. heap[p].side \in Int /\ heap[p].size \in Int /\ net[s] \in Int
  BY CryptoAssumption DEF TypeOK, Objects
<1>2. Closable(s, p) \in Int
  BY <1>1 DEF Closable, Least
<1>3. -heap[p].side \in Int
  BY <1>1
<1>4. Fill(s, -heap[p].side, Closable(s, p))
  BY DEF Reduce
<1>5. QED
  BY <1>2, <1>3, <1>4, FillType

\* A bracket is placed by thread t, on the side it is told.
LEMMA ArmedKeeps ==
    ASSUME IInv, NEW t \in {"entry", "reconcile"}, NEW side \in {1, -1}, Armed(t, side)
    PROVE IInv'
<1>1. TypeOK /\ LoopInv /\ t \in Threads
  BY DEF IInv, Threads
<1>2. at[t] = "arm" /\ Go(t, "attach") /\ "attach" \in Places
  BY DEF Armed, Places
<1>3. cur[t][1] \in Strategies
  BY <1>1, <1>2 DEF LoopInv, Busy
<1>4. PICK ok \in BOOLEAN :
         PlaceBracket(cur[t][1], side, ok) /\ answer' = [answer EXCEPT ![t] = ok]
  BY DEF Armed
<1>5. /\ armed' \in [Strategies -> {-1, 0, 1}] /\ faults' \in 0 .. MaxEvents
      /\ answer' \in [Threads -> BOOLEAN]
  BY <1>1, <1>3, <1>4, BracketType DEF TypeOK
<1>6. /\ at' \in [Threads -> Places] /\ at'[t] = "attach"
      /\ \A u \in Threads : u # t => at'[u] = at[u]
  BY <1>1, <1>2, GoFacts
<1>7. UNCHANGED <<slot, heap, due, runVars, todo, cur, leaving, bet, seen, net>>
  BY DEF Armed
<1>8. TypeOK'
  BY <1>1, <1>5, <1>6, <1>7 DEF TypeOK, runVars
<1>9. LoopInv'
  BY <1>1, <1>2, <1>6, <1>7 DEF LoopInv, runVars, Busy, Claiming, Threads
<1>10. QED
  BY <1>8, <1>9 DEF IInv

\* What place_bracket answered is written to whatever object is in the book.
LEMMA AttachedKeeps ==
    ASSUME IInv, NEW t \in {"entry", "reconcile"}, Attached(t)
    PROVE IInv'
<1>1. TypeOK /\ LoopInv /\ t \in Threads
  BY DEF IInv, Threads
<1> DEFINE s == cur[t][1]
<1>2. at[t] = "attach" /\ s \in Strategies
  BY <1>1 DEF Attached, LoopInv, Busy
<1>3. /\ UNCHANGED <<slot, leaving, runVars, bet, seen, exchangeVars>>
      /\ answer' \in [Threads -> BOOLEAN]
  BY <1>1 DEF Attached, TypeOK
<1>4. CASE slot[s] = None
  <2>1. Abort(t) /\ Keep(heap)
    BY <1>4 DEF Attached
  <2>2. heap' \in [Positions -> Objects] /\ due' \subseteq Positions
    BY <1>1, <2>1, KeepType DEF TypeOK
  <2>3. Turn(t, "idle", Nobody) /\ todo' = [todo EXCEPT ![t] = {}]
        /\ "idle" \in Places /\ Nobody \in Items
    BY <2>1 DEF Abort, Places, Nobody, Items
  <2>4. /\ todo' \in [Threads -> SUBSET (Strategies \X (Positions \cup {None}))]
        /\ todo'[t] = {}
        /\ \A u \in Threads : u # t => todo'[u] = todo[u]
    BY <1>1, <2>3, TodoFacts
  <2>5. /\ at' \in [Threads -> Places] /\ at'[t] = "idle"
        /\ \A u \in Threads : u # t => at'[u] = at[u]
        /\ cur' \in [Threads -> Items]
        /\ \A u \in Threads : u # t => cur'[u] = cur[u]
    BY <1>1, <2>3, TurnFacts
  <2>6. TypeOK'
    BY <1>1, <1>3, <2>2, <2>4, <2>5 DEF TypeOK, runVars, exchangeVars, Items
  <2>7. LoopInv'
    BY <1>1, <1>3, <2>4, <2>5 DEF LoopInv, Busy, Claiming, Threads
  <2>8. QED
    BY <2>6, <2>7 DEF IInv
<1>5. CASE slot[s] # None
  <2>1. /\ todo' = todo
        /\ IF t = "entry" THEN Again(t) ELSE Turn(t, "next", Nobody)
        /\ Keep([heap EXCEPT ![slot[s]].safe = answer[t]])
    BY <1>5 DEF Attached
  <2>2. [heap EXCEPT ![slot[s]].safe = answer[t]] \in [Positions -> Objects]
    <3>1. slot[s] \in Positions /\ answer[t] \in BOOLEAN
          /\ heap \in [Positions -> Objects]
      BY <1>1, <1>2, <1>5 DEF TypeOK
    <3>2. [heap[slot[s]] EXCEPT !.safe = answer[t]] \in Objects
      BY <3>1 DEF Objects
    <3>3. QED
      BY <3>1, <3>2
  <2>3. heap' \in [Positions -> Objects] /\ due' \subseteq Positions
    BY <1>1, <2>1, <2>2, KeepType
  <2>4. /\ at' \in [Threads -> Places] /\ at'[t] \in {"next", "idle", "remove"}
        /\ t # "manage" => at'[t] # "remove"
        /\ at'[t] = "idle" => todo'[t] = {}
        /\ \A u \in Threads : u # t => at'[u] = at[u]
        /\ cur' \in [Threads -> Items]
        /\ \A u \in Threads : u # t => cur'[u] = cur[u]
    <3>1. CASE t = "entry"
      BY <1>1, <2>1, <3>1, AgainFacts
    <3>2. CASE t # "entry"
      <4>1. Turn(t, "next", Nobody) /\ "next" \in Places /\ Nobody \in Items
        BY <2>1, <3>2 DEF Places, Nobody, Items
      <4>2. QED
        BY <1>1, <4>1, TurnFacts
    <3>3. QED
      BY <3>1, <3>2
  <2>5. TypeOK'
    BY <1>1, <1>3, <2>1, <2>3, <2>4 DEF TypeOK, runVars, exchangeVars, Items
  <2>6. LoopInv'
    BY <1>1, <1>3, <2>1, <2>4 DEF LoopInv, Busy, Claiming, Threads
  <2>7. QED
    BY <2>5, <2>6 DEF IInv
<1>6. QED
  BY <1>4, <1>5

\* A bracket is cancelled, whoever asks.
LEMMA DroppedKeeps ==
    ASSUME IInv, NEW t \in Threads, NEW place \in Places, NEW next \in Places,
           BracketDropped(t, place, next), cur[t][1] \in Strategies,
           /\ t \in {"manage", "kill"} => next = "close" /\ cur[t] \in Pairs
           /\ t = "reconcile" => next \in {"delete", "arm"}
           /\ t = "reconcile" /\ next = "arm" => seen[cur[t][1]] # 0
           /\ t # "entry"
    PROVE IInv'
<1>1. TypeOK /\ LoopInv
  BY DEF IInv
<1>2. /\ at' \in [Threads -> Places] /\ at'[t] = next
      /\ \A u \in Threads : u # t => at'[u] = at[u]
  BY <1>1, GoFacts DEF BracketDropped
<1>3. armed' \in [Strategies -> {-1, 0, 1}] /\ faults' \in 0 .. MaxEvents
  BY <1>1, BracketType DEF BracketDropped
<1>4. UNCHANGED <<slot, heap, due, runVars, todo, cur, passVars, net>>
  BY DEF BracketDropped
<1>5. TypeOK'
  BY <1>1, <1>2, <1>3, <1>4 DEF TypeOK, runVars, passVars
<1>6. LoopInv'
  BY <1>1, <1>2, <1>4 DEF LoopInv, Busy, Claiming, Threads, passVars
<1>7. QED
  BY <1>5, <1>6 DEF IInv

\* A new object enters the book.
LEMMA RecordType ==
    ASSUME TypeOK, NEW s \in Strategies, NEW side \in {1, -1}, NEW size \in 1 .. MaxNet,
           Record(s, side, size)
    PROVE /\ slot' \in [Strategies -> Positions \cup {None}]
          /\ heap' \in [Positions -> Objects] /\ due' \subseteq Positions
<1>1. PICK p \in Positions :
         /\ slot' = [slot EXCEPT ![s] = p]
         /\ Keep([heap EXCEPT ![p] = [side |-> side, size |-> size, safe |-> FALSE]])
  BY DEF Record
<1>2. [heap EXCEPT ![p] = [side |-> side, size |-> size, safe |-> FALSE]]
         \in [Positions -> Objects]
  BY DEF TypeOK, Objects
<1>3. QED
  BY <1>1, <1>2, KeepType DEF TypeOK

\* A thread that is done with an item, whatever it did with it, keeps the
\* invariant when what it leaves behind has its type.
LEMMA OnwardKeeps ==
    ASSUME IInv, NEW t \in {"entry", "manage", "kill"}, Again(t),
           todo' \in [Threads -> SUBSET (Strategies \X (Positions \cup {None}))],
           todo'[t] \subseteq todo[t],
           \A u \in Threads : u # t => todo'[u] = todo[u],
           slot' \in [Strategies -> Positions \cup {None}],
           heap' \in [Positions -> Objects], due' \subseteq Positions,
           leaving' \subseteq Pairs,
           net' \in [Strategies -> -MaxNet .. MaxNet],
           armed' \in [Strategies -> {-1, 0, 1}],
           faults' \in 0 .. MaxEvents,
           UNCHANGED <<runVars, bet, answer, seen>>
    PROVE IInv'
<1>1. TypeOK /\ LoopInv /\ t \in Threads
  BY DEF IInv, Threads
<1>2. /\ at' \in [Threads -> Places] /\ at'[t] \in {"next", "idle", "remove"}
      /\ t # "manage" => at'[t] # "remove"
      /\ \A u \in Threads : u # t => at'[u] = at[u]
      /\ cur' \in [Threads -> Items]
      /\ \A u \in Threads : u # t => cur'[u] = cur[u]
  BY <1>1, AgainFacts
<1>3. TypeOK'
  BY <1>1, <1>2 DEF TypeOK, runVars, Items
<1>4. LoopInv'
  BY <1>1, <1>2 DEF LoopInv, Busy, Claiming, Threads
<1>5. QED
  BY <1>3, <1>4 DEF IInv

\* The entry tick keeps the invariant.
LEMMA EntryKeeps == ASSUME IInv, Entry PROVE IInv'
<1>0. TypeOK /\ LoopInv /\ "entry" \in Threads
  BY DEF IInv, Threads
<1>1. CASE \E loss \in BOOLEAN : StartEntries(loss)
  <2>1. PICK loss \in BOOLEAN : StartEntries(loss)
    BY <1>1
  <2>2. CASE UNCHANGED <<at, todo>>
    BY <1>0, <2>1, <2>2 DEF StartEntries, IInv, TypeOK, LoopInv, passVars, exchangeVars
  <2>3. CASE Start("entry", {<<s, None>> : s \in Strategies})
    <3> DEFINE items == {<<s, None>> : s \in Strategies}
               place == IF items = {} THEN "idle" ELSE "next"
    <3>1. items \subseteq Strategies \X (Positions \cup {None})
      OBVIOUS
    <3>2. Go("entry", place) /\ todo' = [todo EXCEPT !["entry"] = items] /\ place \in Places
          /\ place \in {"idle", "next"}
      BY <2>3 DEF Start, Places
    <3> HIDE DEF items, place
    <3>3. /\ todo' \in [Threads -> SUBSET (Strategies \X (Positions \cup {None}))]
          /\ \A u \in Threads : u # "entry" => todo'[u] = todo[u]
      BY <1>0, <3>1, <3>2, TodoFacts
    <3>4. /\ at' \in [Threads -> Places] /\ at'["entry"] \in {"idle", "next"}
          /\ \A u \in Threads : u # "entry" => at'[u] = at[u]
      BY <1>0, <3>2, GoFacts
    <3>5. UNCHANGED <<slot, heap, due, up, entries, kills, restarts, cur, passVars, exchangeVars>>
          /\ killed' \in BOOLEAN
      BY <2>1, <1>0 DEF StartEntries, TypeOK
    <3>6. TypeOK'
      BY <1>0, <3>3, <3>4, <3>5 DEF TypeOK, passVars, exchangeVars
    <3>7. LoopInv'
      BY <1>0, <3>3, <3>4, <3>5 DEF LoopInv, passVars, exchangeVars, Busy, Claiming, Threads
    <3>8. QED
      BY <3>6, <3>7 DEF IInv
  <2>4. QED
    BY <2>1, <2>2, <2>3 DEF StartEntries
<1>2. CASE \E s \in Strategies : PassOver(s)
  <2>1. PICK s \in Strategies : PassOver(s)
    BY <1>2
  <2>2. Skip("entry", <<s, None>>)
    BY <2>1 DEF PassOver
  <2>3. /\ todo' \in [Threads -> SUBSET (Strategies \X (Positions \cup {None}))]
        /\ todo'["entry"] \subseteq todo["entry"]
        /\ \A u \in Threads : u # "entry" => todo'[u] = todo[u]
        /\ Again("entry")
    BY <1>0, <2>2, SkipFacts
  <2>4. UNCHANGED <<leaving, slot, heap, due, runVars, bet, answer, seen, exchangeVars>>
    BY <2>1 DEF PassOver
  <2>5. QED
    BY <1>0, <2>3, <2>4, OnwardKeeps DEF TypeOK, runVars, exchangeVars
<1>3. CASE \E s \in Strategies : \E d \in Sides : Decide(s, d)
  <2>1. PICK s \in Strategies, d \in Sides : Decide(s, d)
    BY <1>3
  <2>2. Take("entry", <<s, None>>, "order") /\ "order" \in Places
    BY <2>1 DEF Decide, Places
  <2>3. /\ todo' \in [Threads -> SUBSET (Strategies \X (Positions \cup {None}))]
        /\ \A u \in Threads : u # "entry" => todo'[u] = todo[u]
        /\ at' \in [Threads -> Places] /\ at'["entry"] = "order"
        /\ \A u \in Threads : u # "entry" => at'[u] = at[u]
        /\ cur' \in [Threads -> Items] /\ cur'["entry"] = <<s, None>>
        /\ \A u \in Threads : u # "entry" => cur'[u] = cur[u]
    BY <1>0, <2>2, TakeFacts
  <2>4. /\ UNCHANGED <<slot, heap, due, killed, up, kills, restarts, leaving, answer, seen,
                       exchangeVars>>
        /\ bet' \in {1, -1} /\ entries' \in 0 .. MaxEvents
    BY <1>0, <2>1, CryptoAssumption DEF Decide, TypeOK, MayHappen
  <2>5. TypeOK'
    BY <1>0, <2>3, <2>4 DEF TypeOK, exchangeVars, Items
  <2>6. LoopInv'
    BY <1>0, <2>3, <2>4 DEF LoopInv, Busy, Claiming, Threads
  <2>7. QED
    BY <2>5, <2>6 DEF IInv
<1>4. CASE EntryOrdered
  <2> DEFINE s == cur["entry"][1]
  <2>1. at["entry"] = "order" /\ s \in Strategies
    BY <1>0, <1>4 DEF EntryOrdered, LoopInv, Busy
  <2>2. UNCHANGED <<todo, slot, heap, due, runVars, passVars, armed>>
    BY <1>4 DEF EntryOrdered
  <2>3. bet \in Int /\ 1 \in Int /\ 2 \in Int
    BY <1>0 DEF TypeOK
  <2>4. net' \in [Strategies -> -MaxNet .. MaxNet]
    <3>1. net' = net \/ \E n \in 1 .. 2 : Fill(s, bet, n)
      BY <1>4 DEF EntryOrdered
    <3>2. ASSUME NEW n \in 1 .. 2, Fill(s, bet, n)
          PROVE net' \in [Strategies -> -MaxNet .. MaxNet]
      BY <1>0, <2>1, <2>3, <3>2, FillType
    <3>3. QED
      BY <1>0, <3>1, <3>2 DEF TypeOK
  <2>5. faults' \in 0 .. MaxEvents
    BY <1>0, <1>4, CryptoAssumption DEF EntryOrdered, Attempts, Fails, MayHappen, TypeOK
  <2>6. CASE Go("entry", "record") /\ UNCHANGED cur
    <3>1. /\ at' \in [Threads -> Places] /\ at'["entry"] = "record"
          /\ \A u \in Threads : u # "entry" => at'[u] = at[u]
      BY <1>0, <2>6, GoFacts DEF Places
    <3>2. TypeOK'
      BY <1>0, <2>2, <2>4, <2>5, <2>6, <3>1 DEF TypeOK, runVars, passVars
    <3>3. LoopInv'
      BY <1>0, <2>1, <2>2, <2>6, <3>1 DEF LoopInv, passVars, Busy, Claiming, Threads
    <3>4. QED
      BY <3>2, <3>3 DEF IInv
  <2>7. CASE Again("entry")
    BY <1>0, <2>2, <2>4, <2>5, <2>7, OnwardKeeps DEF TypeOK, runVars, passVars
  <2>8. QED
    BY <1>4, <2>6, <2>7 DEF EntryOrdered
<1>5. CASE EntryRecorded
  <2>1. /\ at["entry"] = "record" /\ Go("entry", "arm") /\ "arm" \in Places
        /\ Record(cur["entry"][1], bet, 1)
        /\ UNCHANGED <<cur, todo, passVars, runVars, exchangeVars>>
    BY <1>5 DEF EntryRecorded, Places
  <2>2. /\ cur["entry"][1] \in Strategies /\ bet \in {1, -1} /\ 1 \in 1 .. MaxNet
    BY <1>0, <2>1, CryptoAssumption DEF LoopInv, Busy, TypeOK
  <2>3. /\ slot' \in [Strategies -> Positions \cup {None}]
        /\ heap' \in [Positions -> Objects] /\ due' \subseteq Positions
    BY <1>0, <2>1, <2>2, RecordType
  <2>4. /\ at' \in [Threads -> Places] /\ at'["entry"] = "arm"
        /\ \A u \in Threads : u # "entry" => at'[u] = at[u]
    BY <1>0, <2>1, GoFacts
  <2>5. TypeOK'
    BY <1>0, <2>1, <2>3, <2>4 DEF TypeOK, runVars, passVars, exchangeVars
  <2>6. LoopInv'
    BY <1>0, <2>1, <2>2, <2>4 DEF LoopInv, passVars, Busy, Claiming, Threads
  <2>7. QED
    BY <2>5, <2>6 DEF IInv
<1>6. CASE EntryArmed
  BY <1>0, <1>6, ArmedKeeps DEF EntryArmed, TypeOK
<1>7. CASE EntryAttached
  BY <1>7, AttachedKeeps DEF EntryAttached
<1>8. QED
  BY <1>1, <1>2, <1>3, <1>4, <1>5, <1>6, <1>7 DEF Entry

\* An exit of the management tick or of the stop keeps it: they exit alike.
LEMMA ExitKeeps ==
    ASSUME IInv, NEW t \in {"manage", "kill"},
           \/ \E x \in Pairs : Exit(t, x)
           \/ ExitCancelled(t) \/ ExitRefused(t) \/ ExitFilled(t)
    PROVE IInv'
<1>0. TypeOK /\ LoopInv /\ t \in Threads
  BY DEF IInv, Threads
<1>1. ASSUME NEW x \in Pairs, Exit(t, x) PROVE IInv'
  <2> DEFINE place == IF heap[x[2]].safe THEN "cancel" ELSE "close"
  <2>1. place \in Places /\ Take(t, x, place) /\ place \in {"cancel", "close"}
    BY <1>1 DEF Exit, Places
  <2>2. UNCHANGED <<slot, heap, due, runVars, passVars, exchangeVars>>
    BY <1>1 DEF Exit
  <2> HIDE DEF place
  <2>3. /\ todo' \in [Threads -> SUBSET (Strategies \X (Positions \cup {None}))]
        /\ todo'[t] = todo[t] \ {x}
        /\ \A u \in Threads : u # t => todo'[u] = todo[u]
        /\ at' \in [Threads -> Places] /\ at'[t] = place
        /\ \A u \in Threads : u # t => at'[u] = at[u]
        /\ cur' \in [Threads -> Items] /\ cur'[t] = x
        /\ \A u \in Threads : u # t => cur'[u] = cur[u]
    BY <1>0, <2>1, TakeFacts
  <2>4. TypeOK'
    BY <1>0, <2>2, <2>3 DEF TypeOK, runVars, passVars, exchangeVars, Items
  <2>5. LoopInv'
    BY <1>0, <1>1, <2>1, <2>2, <2>3 DEF LoopInv, passVars, Busy, Claiming, Threads
  <2>6. QED
    BY <2>4, <2>5 DEF IInv
<1>2. CASE ExitCancelled(t)
  <2>1. BracketDropped(t, "cancel", "close") /\ "cancel" \in Places /\ "close" \in Places
    BY <1>2 DEF ExitCancelled, Places
  <2>2. cur[t] \in Pairs
    BY <1>0, <2>1 DEF BracketDropped, LoopInv
  <2>3. cur[t][1] \in Strategies
    BY <2>2 DEF Pairs
  <2>4. QED
    BY <1>0, <2>1, <2>2, <2>3, DroppedKeeps
<1>3. CASE ExitRefused(t)
  <2>1. /\ at[t] = "close" /\ Again(t)
        /\ UNCHANGED <<todo, passVars, slot, runVars, armed>>
        /\ Keep(heap)
        /\ net' = net \/ Reduce(cur[t][1], cur[t][2])
        /\ faults' = faults \/ Fails
    BY <1>3 DEF ExitRefused
  <2>2. cur[t] \in Pairs
    BY <1>0, <2>1 DEF LoopInv
  <2>3. cur[t][1] \in Strategies /\ cur[t][2] \in Positions
    BY <2>2 DEF Pairs
  <2>4. net' \in [Strategies -> -MaxNet .. MaxNet]
    BY <1>0, <2>1, <2>3, ReduceType DEF TypeOK
  <2>5. faults' \in 0 .. MaxEvents
    BY <1>0, <2>1, CryptoAssumption DEF Fails, MayHappen, TypeOK
  <2>6. heap' \in [Positions -> Objects] /\ due' \subseteq Positions
    BY <1>0, <2>1, KeepType DEF TypeOK
  <2>7. QED
    BY <1>0, <2>1, <2>4, <2>5, <2>6, OnwardKeeps DEF TypeOK, runVars, passVars
<1>4. CASE ExitFilled(t)
  <2> DEFINE x == cur[t]
  <2>1. /\ at[t] = "close" /\ Reduce(x[1], x[2])
        /\ UNCHANGED <<todo, slot, heap, due, runVars, bet, answer, seen, armed, faults>>
    BY <1>4 DEF ExitFilled
  <2>2. x \in Pairs
    BY <1>0, <2>1 DEF LoopInv
  <2>3. x[1] \in Strategies /\ x[2] \in Positions
    BY <2>2 DEF Pairs
  <2>4. net' \in [Strategies -> -MaxNet .. MaxNet]
    BY <1>0, <2>1, <2>3, ReduceType
  <2>5. CASE t = "manage"
    <3>1. leaving' = leaving \cup {x} /\ Again(t)
      BY <1>4, <2>5 DEF ExitFilled
    <3>2. leaving' \subseteq Pairs
      BY <1>0, <2>2, <3>1 DEF TypeOK
    <3>3. QED
      BY <1>0, <2>1, <2>4, <3>1, <3>2, OnwardKeeps DEF TypeOK, runVars
  <2>6. CASE t = "kill"
    <3>1. Go(t, "remove") /\ UNCHANGED <<cur, leaving>> /\ "remove" \in Places
      BY <1>4, <2>6 DEF ExitFilled, Places
    <3>2. /\ at' \in [Threads -> Places] /\ at'[t] = "remove"
          /\ \A u \in Threads : u # t => at'[u] = at[u]
      BY <1>0, <3>1, GoFacts
    <3>3. TypeOK'
      BY <1>0, <2>1, <2>4, <3>1, <3>2 DEF TypeOK, runVars
    <3>4. LoopInv'
      BY <1>0, <2>1, <2>2, <2>6, <3>1, <3>2 DEF LoopInv, Busy, Claiming, Threads
    <3>5. QED
      BY <3>3, <3>4 DEF IInv
  <2>7. QED
    BY <2>5, <2>6
<1>5. QED
  BY <1>1, <1>2, <1>3, <1>4

\* The book has objects in it only.
LEMMA BookType == ASSUME TypeOK PROVE Book \subseteq Pairs
  BY DEF TypeOK, Book, Pairs

\* Thread t starts a loop over the book.
LoopStarted(t) ==
    /\ Start(t, Book)
    /\ UNCHANGED <<slot, heap, due, up, cur, passVars, exchangeVars>>

\* A loop over the book, started by either thread, keeps the invariant.
LEMMA StartKeeps ==
    ASSUME IInv, NEW t \in {"manage", "kill"}, LoopStarted(t), killed' \in BOOLEAN,
           {entries, kills, restarts}' \subseteq 0 .. MaxEvents
    PROVE IInv'
<1>0. TypeOK /\ LoopInv /\ t \in Threads
  BY DEF IInv, Threads
<1> DEFINE place == IF Book = {} THEN "idle" ELSE "next"
<1>1. /\ todo' = [todo EXCEPT ![t] = Book] /\ Go(t, place)
      /\ UNCHANGED <<slot, heap, due, up, cur, passVars, exchangeVars>>
      /\ place \in Places /\ place \in {"idle", "next"}
  BY DEF LoopStarted, Start, Places
<1> HIDE DEF place
<1>2. Book \subseteq Pairs /\ Book \subseteq Strategies \X (Positions \cup {None})
  BY <1>0, BookType DEF Pairs
<1>3. /\ todo' \in [Threads -> SUBSET (Strategies \X (Positions \cup {None}))]
      /\ todo'[t] = Book
      /\ \A u \in Threads : u # t => todo'[u] = todo[u]
  BY <1>0, <1>1, <1>2, TodoFacts
<1>4. /\ at' \in [Threads -> Places] /\ at'[t] \in {"idle", "next"}
      /\ \A u \in Threads : u # t => at'[u] = at[u]
  BY <1>0, <1>1, GoFacts
<1>5. TypeOK'
  BY <1>0, <1>1, <1>3, <1>4 DEF TypeOK, passVars, exchangeVars
<1>6. LoopInv'
  BY <1>0, <1>1, <1>2, <1>3, <1>4 DEF LoopInv, passVars, Busy, Claiming, Threads
<1>7. QED
  BY <1>5, <1>6 DEF IInv

\* A position read from the exchange has a side and a size.
LEMMA SizeSeen ==
    ASSUME NEW n \in -MaxNet .. MaxNet, n # 0
    PROVE Sign(n) \in {1, -1} /\ Abs(n) \in 1 .. MaxNet
  BY CryptoAssumption DEF Sign, Abs

\* The management tick keeps the invariant: what it exits is an object of the book.
LEMMA ManageKeeps == ASSUME IInv, Manage PROVE IInv'
<1>0. TypeOK /\ LoopInv /\ "manage" \in Threads
  BY DEF IInv, Threads
<1>1. CASE StartManage
  <2>1. LoopStarted("manage") /\ UNCHANGED <<killed, entries, kills, restarts>>
    BY <1>1 DEF StartManage, LoopStarted, runVars
  <2>2. QED
    BY <1>0, <2>1, StartKeeps DEF TypeOK
<1>2. ASSUME NEW x \in Pairs, Hold(x) PROVE IInv'
  <2>1. /\ Skip("manage", x) /\ UNCHANGED <<passVars, slot, runVars, net, armed>>
        /\ Keep(heap) /\ (faults' = faults \/ Fails)
    BY <1>2 DEF Hold
  <2>2. /\ todo' \in [Threads -> SUBSET (Strategies \X (Positions \cup {None}))]
        /\ todo'["manage"] \subseteq todo["manage"]
        /\ \A u \in Threads : u # "manage" => todo'[u] = todo[u]
        /\ Again("manage")
    BY <1>0, <2>1, SkipFacts
  <2>3. heap' \in [Positions -> Objects] /\ due' \subseteq Positions
    BY <1>0, <2>1, KeepType DEF TypeOK
  <2>4. faults' \in 0 .. MaxEvents
    BY <1>0, <2>1, CryptoAssumption DEF Fails, MayHappen, TypeOK
  <2>5. QED
    BY <1>0, <2>1, <2>2, <2>3, <2>4, OnwardKeeps DEF TypeOK, runVars, passVars
<1>3. ASSUME NEW x \in Pairs, Removed(x) PROVE IInv'
  <2>1. /\ slot' = [slot EXCEPT ![x[1]] = None]
        /\ leaving' \subseteq leaving
        /\ UNCHANGED <<runVars, todo, cur, bet, answer, seen, exchangeVars>> /\ Keep(heap)
    BY <1>3 DEF Removed
  <2> DEFINE place == IF leaving' = {} THEN "idle" ELSE "remove"
  <2>2. Go("manage", place) /\ place \in Places /\ place \in {"idle", "remove"}
    BY <1>3 DEF Removed, Places
  <2> HIDE DEF place
  <2>3. /\ at' \in [Threads -> Places] /\ at'["manage"] \in {"idle", "remove"}
        /\ \A u \in Threads : u # "manage" => at'[u] = at[u]
    BY <1>0, <2>2, GoFacts
  <2>4. heap' \in [Positions -> Objects] /\ due' \subseteq Positions
    BY <1>0, <2>1, KeepType DEF TypeOK
  <2>5. slot' \in [Strategies -> Positions \cup {None}] /\ leaving' \subseteq Pairs
    BY <1>0, <2>1 DEF TypeOK
  <2>6. TypeOK'
    BY <1>0, <2>1, <2>3, <2>4, <2>5 DEF TypeOK, runVars, exchangeVars
  <2>7. LoopInv'
    BY <1>0, <2>1, <2>3 DEF LoopInv, Busy, Claiming, Threads
  <2>8. QED
    BY <2>6, <2>7 DEF IInv
<1>4. QED
  BY <1>1, <1>2, <1>3, ExitKeeps DEF Manage

\* So does the emergency stop.
LEMMA StopKeeps == ASSUME IInv, Stop PROVE IInv'
<1>0. TypeOK /\ LoopInv /\ "kill" \in Threads
  BY DEF IInv, Threads
<1>1. CASE Kill
  <2>1. LoopStarted("kill") /\ killed' \in BOOLEAN /\ kills' \in 0 .. MaxEvents
        /\ UNCHANGED <<entries, restarts>>
    BY <1>0, <1>1, CryptoAssumption DEF Kill, LoopStarted, MayHappen, TypeOK
  <2>2. QED
    BY <1>0, <2>1, StartKeeps DEF TypeOK
<1>2. CASE KillRemoved
  <2>1. /\ at["kill"] = "remove" /\ slot' = [slot EXCEPT ![cur["kill"][1]] = None]
        /\ Again("kill") /\ UNCHANGED <<todo, passVars, runVars, exchangeVars>> /\ Keep(heap)
    BY <1>2 DEF KillRemoved
  <2>2. heap' \in [Positions -> Objects] /\ due' \subseteq Positions
    BY <1>0, <2>1, KeepType DEF TypeOK
  <2>3. slot' \in [Strategies -> Positions \cup {None}]
    BY <1>0, <2>1 DEF TypeOK
  <2>4. QED
    BY <1>0, <2>1, <2>2, <2>3, OnwardKeeps DEF TypeOK, runVars, passVars, exchangeVars
<1>3. QED
  BY <1>1, <1>2, ExitKeeps DEF Stop

\* The reconcile tick keeps it: what it adopts it has seen a size of.
LEMMA ReconcileKeeps == ASSUME IInv, Reconcile PROVE IInv'
<1>0. TypeOK /\ LoopInv /\ "reconcile" \in Threads
  BY DEF IInv, Threads
<1>1. CASE ReadExchange
  <2>1. /\ at["reconcile"] = "idle" /\ seen' \in [Strategies -> -MaxNet .. MaxNet]
        /\ up' \in BOOLEAN /\ faults' \in 0 .. MaxEvents
        /\ (at' = at \/ Go("reconcile", "list"))
        /\ UNCHANGED <<slot, heap, due, killed, entries, kills, restarts, todo, cur, leaving,
                       bet, answer, net, armed>>
    <3>1. CASE seen' = net /\ Go("reconcile", "list") /\ UNCHANGED <<up, faults>>
      <4>1. /\ net \in [Strategies -> -MaxNet .. MaxNet]
            /\ up \in BOOLEAN /\ faults \in 0 .. MaxEvents
        BY <1>0 DEF TypeOK
      <4>2. QED
        BY <1>1, <3>1, <4>1 DEF ReadExchange
    <3>2. CASE Fails /\ up' = TRUE /\ UNCHANGED <<seen, at>>
      <4>1. faults' \in 0 .. MaxEvents
        BY <1>0, <3>2, CryptoAssumption DEF TypeOK, Fails, MayHappen
      <4>2. seen \in [Strategies -> -MaxNet .. MaxNet]
        BY <1>0 DEF TypeOK
      <4>3. QED
        BY <1>1, <3>2, <4>1, <4>2 DEF ReadExchange
    <3>3. QED
      BY <1>1, <3>1, <3>2 DEF ReadExchange
  <2>2. /\ at' \in [Threads -> Places] /\ at'["reconcile"] \in {"idle", "list"}
        /\ \A u \in Threads : u # "reconcile" => at'[u] = at[u]
    <3>1. CASE at' = at
      BY <1>0, <2>1, <3>1 DEF TypeOK
    <3>2. CASE Go("reconcile", "list")
      BY <1>0, <3>2, GoFacts DEF Places
    <3>3. QED
      BY <2>1, <3>1, <3>2
  <2>3. TypeOK'
    BY <1>0, <2>1, <2>2 DEF TypeOK
  <2>4. LoopInv'
    BY <1>0, <2>1, <2>2 DEF LoopInv, Busy, Claiming, Threads
  <2>5. QED
    BY <2>3, <2>4 DEF IInv
<1>2. CASE ListBook
  <2> DEFINE live == {<<s, None>> : s \in {r \in Strategies : seen[r] # 0}}
             items == Book \cup live
  <2>1. /\ todo' = [todo EXCEPT !["reconcile"] = items] /\ Go("reconcile", "next")
        /\ UNCHANGED <<slot, heap, due, runVars, cur, passVars, exchangeVars>>
    BY <1>2 DEF ListBook
  <2>2. Book \subseteq Pairs
    BY <1>0, BookType
  <2>3. \A s \in Strategies : <<s, None>> \in items => seen[s] # 0
    <3>1. \A s \in Strategies : <<s, None>> \notin Pairs
      BY CryptoAssumption DEF Pairs
    <3>2. QED
      BY <2>2, <3>1
  <2>4. items \subseteq Strategies \X (Positions \cup {None})
    BY <2>2 DEF Pairs
  <2> HIDE DEF items
  <2>5. /\ todo' \in [Threads -> SUBSET (Strategies \X (Positions \cup {None}))]
        /\ todo'["reconcile"] = items
        /\ \A u \in Threads : u # "reconcile" => todo'[u] = todo[u]
    BY <1>0, <2>1, <2>4, TodoFacts
  <2>6. /\ at' \in [Threads -> Places] /\ at'["reconcile"] = "next"
        /\ \A u \in Threads : u # "reconcile" => at'[u] = at[u]
    BY <1>0, <2>1, GoFacts DEF Places
  <2>7. TypeOK'
    BY <1>0, <2>1, <2>5, <2>6 DEF TypeOK, runVars, passVars, exchangeVars
  <2>8. LoopInv'
    BY <1>0, <2>1, <2>3, <2>5, <2>6 DEF LoopInv, passVars, Busy, Claiming, Threads
  <2>9. QED
    BY <2>7, <2>8 DEF IInv
<1>3. ASSUME NEW x, x \in todo["reconcile"], at["reconcile"] = "next",
             todo' = [todo EXCEPT !["reconcile"] = @ \ {x}],
             UNCHANGED <<slot, runVars, at, cur, passVars, exchangeVars>>,
             heap' \in [Positions -> Objects], due' \subseteq Positions
      PROVE  IInv'
  <2>1. todo["reconcile"] \ {x} \subseteq Strategies \X (Positions \cup {None})
        /\ todo' = [todo EXCEPT !["reconcile"] = todo["reconcile"] \ {x}]
    BY <1>0, <1>3 DEF TypeOK
  <2>2. /\ todo' \in [Threads -> SUBSET (Strategies \X (Positions \cup {None}))]
        /\ todo'["reconcile"] = todo["reconcile"] \ {x}
        /\ \A u \in Threads : u # "reconcile" => todo'[u] = todo[u]
    BY <1>0, <2>1, TodoFacts
  <2>3. TypeOK'
    BY <1>0, <1>3, <2>2 DEF TypeOK, runVars, passVars, exchangeVars
  <2>4. LoopInv'
    BY <1>0, <1>3, <2>2 DEF LoopInv, passVars, Busy, Claiming, Threads
  <2>5. QED
    BY <2>3, <2>4 DEF IInv
<1>4. ASSUME NEW x \in Pairs, Agrees(x) PROVE IInv'
  <2>1. heap' \in [Positions -> Objects] /\ due' \subseteq Positions
    BY <1>0, <1>4, KeepType DEF Agrees, TypeOK
  <2>2. QED
    BY <1>3, <1>4, <2>1 DEF Agrees
<1>5. ASSUME NEW s \in Strategies, IsTracked(s) PROVE IInv'
  <2>1. heap' \in [Positions -> Objects] /\ due' \subseteq Positions
    BY <1>0, <1>5 DEF IsTracked, TypeOK
  <2>2. QED
    BY <1>3, <1>5, <2>1 DEF IsTracked
<1>6. ASSUME NEW x, NEW place \in {"clear", "claim"}, Take("reconcile", x, place),
             x[1] \in Strategies, place = "claim" => seen[x[1]] # 0,
             UNCHANGED <<slot, heap, due, runVars, passVars, exchangeVars>>
      PROVE  IInv'
  <2>1. place \in Places
    BY DEF Places
  <2>2. /\ todo' \in [Threads -> SUBSET (Strategies \X (Positions \cup {None}))]
        /\ todo'["reconcile"] = todo["reconcile"] \ {x}
        /\ \A u \in Threads : u # "reconcile" => todo'[u] = todo[u]
        /\ at' \in [Threads -> Places] /\ at'["reconcile"] = place
        /\ \A u \in Threads : u # "reconcile" => at'[u] = at[u]
        /\ cur' \in [Threads -> Items] /\ cur'["reconcile"] = x
        /\ \A u \in Threads : u # "reconcile" => cur'[u] = cur[u]
    BY <1>0, <1>6, <2>1, TakeFacts
  <2>3. TypeOK'
    BY <1>0, <1>6, <2>2 DEF TypeOK, runVars, passVars, exchangeVars, Items
  <2>4. LoopInv'
    BY <1>0, <1>6, <2>2 DEF LoopInv, passVars, Busy, Claiming, Threads
  <2>5. QED
    BY <2>3, <2>4 DEF IInv
<1>7. ASSUME NEW x \in Pairs, IsGone(x) PROVE IInv'
  <2>1. x[1] \in Strategies
    BY DEF Pairs
  <2>2. QED
    BY <1>6, <1>7, <2>1 DEF IsGone
<1>8. ASSUME NEW s \in Strategies, IsUntracked(s) PROVE IInv'
  <2>1. Take("reconcile", <<s, None>>, "claim") /\ <<s, None>> \in todo["reconcile"]
    BY <1>8 DEF IsUntracked, Take
  <2>2. seen[s] # 0 /\ <<s, None>>[1] = s
    BY <1>0, <2>1 DEF LoopInv
  <2>3. QED
    BY <1>6, <1>8, <2>1, <2>2 DEF IsUntracked
<1>9. CASE GoneCleared
  <2>1. BracketDropped("reconcile", "clear", "delete") /\ at["reconcile"] = "clear"
        /\ "clear" \in Places /\ "delete" \in Places
    BY <1>9 DEF GoneCleared, BracketDropped, Places
  <2>2. cur["reconcile"][1] \in Strategies
    BY <1>0, <2>1 DEF LoopInv, Busy
  <2>3. QED
    BY <1>0, <2>1, <2>2, DroppedKeeps
<1>10. CASE ClaimCleared
  <2>1. BracketDropped("reconcile", "replace", "arm") /\ at["reconcile"] = "replace"
        /\ "replace" \in Places /\ "arm" \in Places
    BY <1>10 DEF ClaimCleared, BracketDropped, Places
  <2>2. cur["reconcile"][1] \in Strategies /\ seen[cur["reconcile"][1]] # 0
    BY <1>0, <2>1 DEF LoopInv, Busy, Claiming
  <2>3. QED
    BY <1>0, <2>1, <2>2, DroppedKeeps
<1>11. CASE GoneDeleted
  <2> DEFINE s == cur["reconcile"][1]
  <2>1. /\ at["reconcile"] = "delete" /\ slot' = [slot EXCEPT ![s] = None]
        /\ UNCHANGED <<runVars, leaving, bet, answer, exchangeVars>> /\ Keep(heap)
    BY <1>11 DEF GoneDeleted
  <2>2. slot' \in [Strategies -> Positions \cup {None}]
    BY <1>0, <2>1 DEF TypeOK
  <2>3. heap' \in [Positions -> Objects] /\ due' \subseteq Positions
    BY <1>0, <2>1, KeepType DEF TypeOK
  <2>4. CASE slot[s] = None
    <3>1. Turn("reconcile", "idle", Nobody) /\ todo' = [todo EXCEPT !["reconcile"] = {}]
          /\ seen' = [r \in Strategies |-> 0] /\ "idle" \in Places /\ Nobody \in Items
      BY <1>11, <2>4 DEF GoneDeleted, Abort, Places, Nobody, Items
    <3>2. /\ todo' \in [Threads -> SUBSET (Strategies \X (Positions \cup {None}))]
          /\ todo'["reconcile"] = {}
          /\ \A u \in Threads : u # "reconcile" => todo'[u] = todo[u]
      BY <1>0, <3>1, TodoFacts
    <3>3. /\ at' \in [Threads -> Places] /\ at'["reconcile"] = "idle"
          /\ \A u \in Threads : u # "reconcile" => at'[u] = at[u]
          /\ cur' \in [Threads -> Items]
          /\ \A u \in Threads : u # "reconcile" => cur'[u] = cur[u]
      BY <1>0, <3>1, TurnFacts
    <3>4. seen' \in [Strategies -> -MaxNet .. MaxNet]
      BY <3>1, CryptoAssumption
    <3>5. TypeOK'
      BY <1>0, <2>1, <2>2, <2>3, <3>2, <3>3, <3>4 DEF TypeOK, runVars, exchangeVars, Items
    <3>6. LoopInv'
      BY <1>0, <2>1, <3>2, <3>3 DEF LoopInv, Busy, Claiming, Threads
    <3>7. QED
      BY <3>5, <3>6 DEF IInv
  <2>5. CASE slot[s] # None
    <3>1. Turn("reconcile", "next", Nobody) /\ UNCHANGED <<todo, seen>>
          /\ "next" \in Places /\ Nobody \in Items
      BY <1>11, <2>5 DEF GoneDeleted, Places, Nobody, Items
    <3>2. /\ at' \in [Threads -> Places] /\ at'["reconcile"] = "next"
          /\ \A u \in Threads : u # "reconcile" => at'[u] = at[u]
          /\ cur' \in [Threads -> Items]
          /\ \A u \in Threads : u # "reconcile" => cur'[u] = cur[u]
      BY <1>0, <3>1, TurnFacts
    <3>3. TypeOK'
      BY <1>0, <2>1, <2>2, <2>3, <3>1, <3>2 DEF TypeOK, runVars, exchangeVars, Items
    <3>4. LoopInv'
      BY <1>0, <2>1, <3>1, <3>2 DEF LoopInv, Busy, Claiming, Threads
    <3>5. QED
      BY <3>3, <3>4 DEF IInv
  <2>6. QED
    BY <2>4, <2>5
<1>12. CASE Claimed
  <2> DEFINE s == cur["reconcile"][1]
  <2>1. /\ at["reconcile"] = "claim" /\ Go("reconcile", "replace") /\ "replace" \in Places
        /\ Record(s, Sign(seen[s]), Abs(seen[s]))
        /\ UNCHANGED <<cur, todo, passVars, runVars, exchangeVars>>
    BY <1>12 DEF Claimed, Places
  <2>2. s \in Strategies /\ seen[s] # 0 /\ seen[s] \in -MaxNet .. MaxNet
    BY <1>0, <2>1 DEF LoopInv, Busy, Claiming, TypeOK
  <2>3. Sign(seen[s]) \in {1, -1} /\ Abs(seen[s]) \in 1 .. MaxNet
    BY <2>2, SizeSeen
  <2>4. /\ slot' \in [Strategies -> Positions \cup {None}]
        /\ heap' \in [Positions -> Objects] /\ due' \subseteq Positions
    BY <1>0, <2>1, <2>2, <2>3, RecordType
  <2>5. /\ at' \in [Threads -> Places] /\ at'["reconcile"] = "replace"
        /\ \A u \in Threads : u # "reconcile" => at'[u] = at[u]
    BY <1>0, <2>1, GoFacts
  <2>6. TypeOK'
    BY <1>0, <2>1, <2>4, <2>5 DEF TypeOK, runVars, passVars, exchangeVars
  <2>7. LoopInv'
    BY <1>0, <2>1, <2>2, <2>5 DEF LoopInv, passVars, Busy, Claiming, Threads
  <2>8. QED
    BY <2>6, <2>7 DEF IInv
<1>13. CASE ClaimArmed
  <2> DEFINE s == cur["reconcile"][1]
  <2>1. Armed("reconcile", Sign(seen[s])) /\ at["reconcile"] = "arm"
    BY <1>13 DEF ClaimArmed, Armed
  <2>2. seen[s] # 0 /\ seen[s] \in -MaxNet .. MaxNet
    BY <1>0, <2>1 DEF LoopInv, Busy, Claiming, TypeOK
  <2>3. Sign(seen[s]) \in {1, -1}
    BY <2>2, SizeSeen
  <2>4. QED
    BY <2>1, <2>3, ArmedKeeps
<1>14. CASE ClaimAttached
  BY <1>14, AttachedKeeps DEF ClaimAttached
<1>15. CASE Resized
  <2>1. /\ at["reconcile"] = "next" /\ todo["reconcile"] = {} /\ Go("reconcile", "idle")
        /\ up' = TRUE /\ seen' = [s \in Strategies |-> 0]
        /\ UNCHANGED <<slot, due, killed, entries, kills, restarts, todo, cur, leaving, bet,
                       answer, exchangeVars>>
    BY <1>15 DEF Resized
  <2>2. /\ at' \in [Threads -> Places] /\ at'["reconcile"] = "idle"
        /\ \A u \in Threads : u # "reconcile" => at'[u] = at[u]
    BY <1>0, <2>1, GoFacts DEF Places
  <2>3. heap' \in [Positions -> Objects]
    <3> DEFINE who(p) == CHOOSE s \in Strategies : Confirmed(s, p)
               fresh(p) == IF \E s \in Strategies : Confirmed(s, p)
                             THEN [heap[p] EXCEPT !.size = Abs(seen[who(p)])] ELSE heap[p]
    <3>1. heap' = [p \in Positions |-> fresh(p)]
      BY <1>15 DEF Resized
    <3>2. ASSUME NEW p \in Positions PROVE fresh(p) \in Objects
      <4>1. heap[p] \in Objects
        BY <1>0 DEF TypeOK
      <4>2. CASE \E s \in Strategies : Confirmed(s, p)
        <5>1. who(p) \in Strategies /\ Confirmed(who(p), p)
          BY <4>2
        <5> HIDE DEF who
        <5>2. seen[who(p)] \in -MaxNet .. MaxNet /\ Sign(seen[who(p)]) \in {1, -1}
          BY <1>0, <4>1, <5>1 DEF TypeOK, Confirmed, SeenOn, Objects
        <5>3. seen[who(p)] # 0
          BY <5>2 DEF Sign
        <5>4. Abs(seen[who(p)]) \in 1 .. MaxNet
          BY <5>2, <5>3, SizeSeen
        <5>5. [heap[p] EXCEPT !.size = Abs(seen[who(p)])] \in Objects
          BY <4>1, <5>4 DEF Objects
        <5>6. QED
          BY <4>2, <5>5
      <4>3. CASE ~\E s \in Strategies : Confirmed(s, p)
        BY <4>1, <4>3
      <4>4. QED
        BY <4>2, <4>3
    <3> HIDE DEF fresh
    <3>3. QED
      BY <3>1, <3>2
  <2>4. seen' \in [Strategies -> -MaxNet .. MaxNet]
    BY <2>1, CryptoAssumption
  <2>5. TypeOK'
    BY <1>0, <2>1, <2>2, <2>3, <2>4 DEF TypeOK, exchangeVars
  <2>6. LoopInv'
    BY <1>0, <2>1, <2>2 DEF LoopInv, Busy, Claiming, Threads
  <2>7. QED
    BY <2>5, <2>6 DEF IInv
<1>16. QED
  BY <1>1, <1>2, <1>4, <1>5, <1>7, <1>8, <1>9, <1>10, <1>11, <1>12, <1>13, <1>14, <1>15
  DEF Reconcile

\* So do the exchange's brackets, the clock and a restart.
LEMMA EnvironmentKeeps == ASSUME IInv, Environment PROVE IInv'
<1>0. TypeOK /\ LoopInv
  BY DEF IInv
<1>1. ASSUME NEW s \in Strategies, BracketFires(s) PROVE IInv'
  <2>1. UNCHANGED <<slot, heap, due, runVars, todo, at, cur, passVars>>
        /\ armed' = [armed EXCEPT ![s] = 0] /\ (faults' = faults \/ Fails)
    BY <1>1 DEF BracketFires
  <2>2. net[s] \in Int /\ -armed[s] \in Int
    BY <1>0, CryptoAssumption DEF TypeOK
  <2>3. Abs(net[s]) \in Int /\ 1 \in Int
    BY <2>2, SignFacts
  <2>4. net' \in [Strategies -> -MaxNet .. MaxNet]
    <3>1. Fill(s, -armed[s], Abs(net[s])) \/ Fill(s, -armed[s], 1)
      BY <1>1 DEF BracketFires
    <3>2. QED
      BY <1>0, <2>2, <2>3, <3>1, FillType
  <2>5. armed' \in [Strategies -> {-1, 0, 1}] /\ faults' \in 0 .. MaxEvents
    BY <1>0, <2>1, CryptoAssumption DEF TypeOK, Fails, MayHappen
  <2>6. TypeOK'
    BY <1>0, <2>1, <2>4, <2>5 DEF TypeOK, runVars, passVars
  <2>7. LoopInv'
    BY <1>0, <2>1 DEF LoopInv, passVars
  <2>8. QED
    BY <2>6, <2>7 DEF IInv
<1>2. ASSUME NEW s \in Strategies, Ages(s) PROVE IInv'
  <2>1. UNCHANGED <<slot, heap, runVars, todo, at, cur, passVars, exchangeVars>>
        /\ due' \subseteq Positions
    BY <1>0, <1>2 DEF Ages, TypeOK
  <2>2. TypeOK'
    BY <1>0, <2>1 DEF TypeOK, runVars, passVars, exchangeVars
  <2>3. LoopInv'
    BY <1>0, <2>1 DEF LoopInv, passVars
  <2>4. QED
    BY <2>2, <2>3 DEF IInv
<1>3. CASE Restart
  <2>1. /\ slot' \in [Strategies -> Positions \cup {None}]
        /\ heap' \in [Positions -> Objects] /\ due' \subseteq Positions
    BY <1>3, CryptoAssumption DEF Restart, Objects, Blank
  <2>2. /\ killed' \in BOOLEAN /\ up' \in BOOLEAN /\ at' \in [Threads -> Places]
        /\ leaving' \subseteq Pairs /\ bet' \in {1, -1} /\ answer' \in [Threads -> BOOLEAN]
    BY <1>3 DEF Restart, Places
  <2>3. /\ todo' \in [Threads -> SUBSET (Strategies \X (Positions \cup {None}))]
        /\ cur' \in [Threads -> (Strategies \cup {None}) \X (Positions \cup {None})]
    BY <1>3 DEF Restart, Nobody
  <2>4. /\ seen' \in [Strategies -> -MaxNet .. MaxNet]
        /\ restarts' \in 0 .. MaxEvents
        /\ UNCHANGED <<entries, kills, exchangeVars>>
    BY <1>0, <1>3, CryptoAssumption DEF Restart, MayHappen, TypeOK
  <2>5. TypeOK'
    BY <1>0, <2>1, <2>2, <2>3, <2>4 DEF TypeOK, exchangeVars
  <2>6. LoopInv'
    BY <1>3 DEF Restart, LoopInv, Threads, Busy, Claiming
  <2>7. QED
    BY <2>5, <2>6 DEF IInv
<1>4. QED
  BY <1>1, <1>2, <1>3 DEF Environment

\* The invariant is inductive.
LEMMA StepIInv == IInv /\ [Next]_vars => IInv'
<1>1. ASSUME IInv, Next PROVE IInv'
  BY <1>1, EntryKeeps, ManageKeeps, StopKeeps, ReconcileKeeps, EnvironmentKeeps DEF Next
<1>2. ASSUME IInv, UNCHANGED vars PROVE IInv'
  BY <1>2 DEF vars, IInv, TypeOK, LoopInv
<1>3. QED
  BY <1>1, <1>2

\* It holds in every state of every behaviour.
LEMMA Invariant == Spec => []IInv
  BY InitIInv, StepIInv, PTL DEF Spec

\* Every variable keeps its type: a size stays a positive number of contracts,
\* whatever was read from the exchange, and a position stays within its limit.
THEOREM TypeCorrect == Spec => []TypeOK
<1>1. IInv => TypeOK
  BY DEF IInv
<1>2. QED
  BY <1>1, Invariant, PTL

\* A reduce-only order leaves nothing where there was nothing, and what it leaves
\* is no larger and on the same side.
LEMMA ReduceNeverOpens ==
    ASSUME IInv, NEW s \in Strategies, NEW p \in Positions, Closable(s, p) > 0, Reduce(s, p)
    PROVE \A r \in Strategies : ~Opens(r)
<1>1. net \in [Strategies -> -MaxNet .. MaxNet] /\ heap[p] \in Objects
  BY DEF IInv, TypeOK
<1>2. net[s] \in Int /\ heap[p].side \in {1, -1} /\ heap[p].size \in Nat
  BY <1>1, CryptoAssumption DEF Objects
<1> DEFINE k == Closable(s, p)
           n == net[s]
           d == heap[p].side
<1>3. k \in Int /\ k > 0 /\ k <= d * n
  BY <1>2 DEF Closable, Least
<1>4. net' = [net EXCEPT ![s] = n + (-d) * k]
  BY DEF Reduce, Fill
<1>5. \A r \in Strategies : r # s => net'[r] = net[r]
  BY <1>1, <1>4
<1>6. net'[s] = n + (-d) * k
  BY <1>1, <1>4
<1>7. net'[s] = 0 \/ (Sign(net'[s]) = Sign(n) /\ Abs(net'[s]) <= Abs(n))
         => \A r \in Strategies : ~Opens(r)
  <2>1. ASSUME NEW r \in Strategies, r # s PROVE ~Opens(r)
    <3>1. net[r] \in Int /\ net'[r] = net[r]
      BY <1>1, <1>5, <2>1, CryptoAssumption
    <3>2. QED
      BY <3>1 DEF Opens, Abs
  <2>2. net'[s] = 0 => ~Opens(s)
    BY DEF Opens
  <2>3. Sign(net'[s]) = Sign(n) /\ Abs(net'[s]) <= Abs(n) => ~Opens(s)
    <3>1. net'[s] \in Int /\ n \in Int
      BY <1>2, <1>3, <1>6
    <3>2. QED
      BY <3>1 DEF Opens, Abs
  <2>4. QED
    BY <2>1, <2>2, <2>3
<1> HIDE DEF k, n, d
<1>8. CASE d = 1
  <2>1. n > 0 /\ n + (-d) * k = n - k /\ n - k >= 0 /\ n - k < n
    BY <1>2, <1>3, <1>8 DEF n, d
  <2>2. net'[s] = 0 \/ (Sign(net'[s]) = Sign(n) /\ Abs(net'[s]) <= Abs(n))
    BY <1>2, <1>3, <1>6, <2>1 DEF Sign, Abs, n
  <2>3. QED
    BY <1>7, <2>2
<1>9. CASE d = -1
  <2>1. n < 0 /\ n + (-d) * k = n + k /\ n + k <= 0 /\ n + k > n
    BY <1>2, <1>3, <1>9 DEF n, d
  <2>2. net'[s] = 0 \/ (Sign(net'[s]) = Sign(n) /\ Abs(net'[s]) <= Abs(n))
    BY <1>2, <1>3, <1>6, <2>1 DEF Sign, Abs, n
  <2>3. QED
    BY <1>7, <2>2
<1>10. QED
  BY <1>2, <1>8, <1>9 DEF d

\* What does not touch the exchange's positions opens none.
LEMMA StillNeverOpens ==
    ASSUME IInv, UNCHANGED net
    PROVE \A r \in Strategies : ~Opens(r)
<1>1. net \in [Strategies -> -MaxNet .. MaxNet]
  BY DEF IInv, TypeOK
<1>2. QED
  BY <1>1, CryptoAssumption DEF Opens, Abs

\* An exit of the management tick or of the stop opens nothing.
LEMMA ExitNeverOpens ==
    ASSUME IInv, NEW t \in {"manage", "kill"},
           \/ \E x \in Pairs : Exit(t, x)
           \/ ExitCancelled(t) \/ ExitRefused(t) \/ ExitFilled(t)
    PROVE \A r \in Strategies : ~Opens(r)
<1> DEFINE x == cur[t]
<1>1. CASE \E y \in Pairs : Exit(t, y)
  BY <1>1, StillNeverOpens DEF Exit, exchangeVars
<1>2. CASE ExitCancelled(t)
  BY <1>2, StillNeverOpens DEF ExitCancelled, BracketDropped
<1>3. CASE at[t] = "close" /\ Closable(x[1], x[2]) > 0 /\ Reduce(x[1], x[2])
  <2>1. x \in Pairs
    BY <1>3 DEF IInv, LoopInv
  <2>2. x[1] \in Strategies /\ x[2] \in Positions
    BY <2>1 DEF Pairs
  <2>3. QED
    BY <1>3, <2>2, ReduceNeverOpens
<1>4. CASE ExitRefused(t)
  BY <1>3, <1>4, StillNeverOpens DEF ExitRefused
<1>5. CASE ExitFilled(t)
  BY <1>3, <1>5 DEF ExitFilled
<1>6. QED
  BY <1>1, <1>2, <1>4, <1>5

\* The order of an entry is the only thing but a bracket that opens a position.
LEMMA OpensOnlyByEntry ==
    ASSUME IInv, [Next]_vars, NEW s \in Strategies, Opens(s)
    PROVE (at["entry"] = "order" /\ cur["entry"][1] = s) \/ Outlived(s)
<1>1. net \in [Strategies -> -MaxNet .. MaxNet] /\ armed \in [Strategies -> {-1, 0, 1}]
  BY DEF IInv, TypeOK
<1>2. UNCHANGED net => FALSE
  BY StillNeverOpens
<1>3. CASE Entry
  <2>1. EntryOrdered
    BY <1>2, <1>3 DEF Entry, StartEntries, PassOver, Decide, EntryRecorded, EntryArmed, EntryAttached,
       Armed, Attached, exchangeVars
  <2>2. at["entry"] = "order"
        /\ (net' = net \/ \E n \in 1 .. 2 : Fill(cur["entry"][1], bet, n))
    BY <2>1 DEF EntryOrdered
  <2>3. cur["entry"][1] = s
    <3>1. PICK n : Fill(cur["entry"][1], bet, n)
      BY <1>2, <2>2
    <3>2. cur["entry"][1] # s => net'[s] = net[s]
      BY <1>1, <3>1 DEF Fill
    <3>3. QED
      BY <1>1, <3>2, CryptoAssumption DEF Opens, Abs
  <2>4. QED
    BY <2>2, <2>3
<1>4. CASE Manage
  BY <1>2, <1>4, ExitNeverOpens DEF Manage, StartManage, Hold, Removed, exchangeVars
<1>5. CASE Stop
  BY <1>2, <1>5, ExitNeverOpens DEF Stop, Kill, KillRemoved, exchangeVars
<1>6. CASE Reconcile
  BY <1>2, <1>6 DEF Reconcile, ReadExchange, ListBook, Agrees, IsGone, GoneCleared, GoneDeleted,
     IsTracked, IsUntracked, Claimed, ClaimCleared, ClaimArmed, ClaimAttached, Resized,
     BracketDropped, Armed, Attached, exchangeVars
<1>7. CASE Environment
  <2>1. PICK r \in Strategies : BracketFires(r)
    BY <1>2, <1>7 DEF Environment, Ages, Restart, exchangeVars
  <2>2. CASE Sign(net[r]) = armed[r] /\ Fill(r, -armed[r], Abs(net[r]))
    <3>1. net[r] \in Int /\ armed[r] \in {-1, 0, 1} /\ armed[r] # 0
      BY <1>1, <2>1, CryptoAssumption DEF BracketFires
    <3>2. net[r] + (-armed[r]) * Abs(net[r]) = 0
      BY <2>2, <3>1 DEF Sign, Abs
    <3>3. net' = [net EXCEPT ![r] = 0]
      BY <2>2, <3>2 DEF Fill
    <3>4. net'[s] = 0 \/ net'[s] = net[s]
      BY <1>1, <3>3
    <3>5. QED
      BY <1>1, <3>4, CryptoAssumption DEF Opens, Abs
  <2>3. CASE Sign(net[r]) # armed[r] /\ Fill(r, -armed[r], 1)
    <3>1. Outlived(r)
      BY <2>1, <2>3 DEF BracketFires, Outlived
    <3>2. r # s => net'[s] = net[s]
      BY <1>1, <2>3 DEF Fill
    <3>3. r = s
      BY <1>1, <3>2, CryptoAssumption DEF Opens, Abs
    <3>4. QED
      BY <3>1, <3>3
  <2>4. QED
    BY <2>1, <2>2, <2>3 DEF BracketFires
<1>8. CASE UNCHANGED vars
  BY <1>2, <1>8 DEF vars
<1>9. QED
  BY <1>3, <1>4, <1>5, <1>6, <1>7, <1>8 DEF Next

\* No exit of any thread opens a position or turns one round, however stale the
\* object it works on: reduce-only orders of what is left of the position.
THEOREM NoExitOpens == Spec => ExitsNeverOpen
<1>1. IInv /\ [Next]_vars
        => [\A s \in Strategies :
               Opens(s) => (at["entry"] = "order" /\ cur["entry"][1] = s) \/ Outlived(s)]_vars
  BY OpensOnlyByEntry
<1>2. QED
  BY <1>1, Invariant, PTL DEF Spec, ExitsNeverOpen

\* The other threads leave the entry tick where it is.
LEMMA EntryUntouched ==
    ASSUME IInv, Manage \/ Stop \/ Reconcile
    PROVE at'["entry"] = at["entry"]
<1>0. "entry" \in Threads /\ at \in [Threads -> Places]
  BY DEF IInv, TypeOK, Threads
<1>1. \A t \in Threads : \A place : t # "entry" /\ Go(t, place) => at'["entry"] = at["entry"]
  BY <1>0 DEF Go
<1>2. \A t \in Threads : \A place, x : t # "entry" /\ Turn(t, place, x) => at'["entry"] = at["entry"]
  BY <1>1 DEF Turn
<1>3. \A t \in Threads : t # "entry" /\ Again(t) => at'["entry"] = at["entry"]
  BY <1>2 DEF Again
<1>4. "manage" \in Threads /\ "kill" \in Threads /\ "reconcile" \in Threads
  BY DEF Threads
<1>5. ASSUME NEW t \in {"manage", "kill"},
             \/ \E x \in Pairs : Exit(t, x)
             \/ ExitCancelled(t) \/ ExitRefused(t) \/ ExitFilled(t)
      PROVE  at'["entry"] = at["entry"]
  BY <1>1, <1>2, <1>3, <1>4, <1>5 DEF Exit, Take, ExitCancelled, BracketDropped, ExitRefused, ExitFilled
<1>6. CASE Manage
  BY <1>1, <1>3, <1>4, <1>5, <1>6 DEF Manage, StartManage, Start, Hold, Skip, Removed
<1>7. CASE Stop
  BY <1>1, <1>3, <1>4, <1>5, <1>7 DEF Stop, Kill, Start, KillRemoved
<1>8. CASE Reconcile
  BY <1>1, <1>2, <1>4, <1>8 DEF Reconcile, ReadExchange, ListBook, Agrees, IsGone, GoneCleared,
     GoneDeleted, IsTracked, IsUntracked, Claimed, ClaimCleared, ClaimArmed, ClaimAttached, Resized,
     BracketDropped, Armed, Attached, Take, Abort
<1>9. QED
  BY <1>6, <1>7, <1>8

\* A thread that has not started does not while the runner is killed.
LEMMA KilledStaysIdle ==
    ASSUME IInv, [Next]_vars, killed, killed', at["entry"] = "idle"
    PROVE at'["entry"] = "idle"
<1>1. CASE Entry
  BY <1>1 DEF Entry, StartEntries, PassOver, Skip, Decide, Take, EntryOrdered, EntryRecorded,
     EntryArmed, EntryAttached, Armed, Attached
<1>2. CASE Manage \/ Stop \/ Reconcile
  BY <1>2, EntryUntouched
<1>3. CASE Environment
  BY <1>3 DEF Environment, BracketFires, Ages, Restart, Threads
<1>4. CASE UNCHANGED vars
  BY <1>4 DEF vars
<1>5. QED
  BY <1>1, <1>2, <1>3, <1>4 DEF Next

\* A stop halts entries: once the tick under way is through, the runner opens no
\* position until it restarts.
THEOREM StopHaltsEntries == Spec => KillHalts
<1>1. IInv /\ [Next]_vars
        => [killed /\ killed' /\ at["entry"] = "idle"
            => /\ at'["entry"] = "idle"
               /\ \A s \in Strategies : Opens(s) => Outlived(s)]_vars
  BY OpensOnlyByEntry, KilledStaysIdle
<1>2. QED
  BY <1>1, Invariant, PTL DEF Spec, KillHalts
---------------------------------------------------------------------------
(* What the place of each thread says of what it has left. *)

\* The part of RestInv that is about thread t.
RestOf(t) ==
    /\ at[t] \in {"idle", "list", "next"} => cur[t] = Nobody
    /\ at[t] = "idle" => todo[t] = {}
    /\ t = "manage" => /\ at[t] = "remove" => cur[t] = Nobody /\ todo[t] = {}
                       /\ leaving # {} => at[t] # "idle"
    /\ t = "reconcile" /\ at[t] \in Claiming => cur[t][2] = None /\ DropsDone
    /\ ~up /\ t # "reconcile" => at[t] = "idle"

LEMMA RestByThread == RestInv <=> \A t \in Threads : RestOf(t)
<1>1. RestInv => \A t \in Threads : RestOf(t)
  BY DEF RestInv, RestOf
<1>2. (\A t \in Threads : RestOf(t)) => RestInv
  BY DEF RestInv, RestOf, Threads
<1>3. QED
  BY <1>1, <1>2

\* A step of thread t leaves the others where they are.
Alone(t) ==
    \A u \in Threads : u # t => at'[u] = at[u] /\ cur'[u] = cur[u] /\ todo'[u] = todo[u]

\* The others keep their part when thread t moves.
LEMMA RestKept ==
    ASSUME RestInv, NEW t \in Threads, Alone(t), t # "manage" => leaving' = leaving,
           up' = up \/ up', RestOf(t)'
    PROVE RestInv'
<1>1. ASSUME NEW u \in Threads, u # t PROVE RestOf(u)'
  <2>1. RestOf(u)
    BY RestByThread
  <2>2. at'[u] = at[u] /\ cur'[u] = cur[u] /\ todo'[u] = todo[u]
    BY <1>1 DEF Alone
  <2>3. QED
    BY <1>1, <2>1, <2>2 DEF RestOf, DropsDone
<1>2. \A u \in Threads : RestOf(u)'
  BY <1>1
<1>3. QED
  BY <1>2 DEF RestInv, RestOf, Threads, DropsDone

\* Where a thread that is done with its item goes.
LEMMA AgainRests ==
    ASSUME TypeOK, NEW t \in Threads, Again(t)
    PROVE /\ cur'[t] = Nobody
          /\ at'[t] = "remove" => t = "manage" /\ todo'[t] = {}
          /\ at'[t] = "idle" => todo'[t] = {} /\ (t = "manage" => leaving' = {})
          /\ at'[t] = "next" => todo'[t] # {}
<1> DEFINE place == IF todo'[t] # {} THEN "next"
                    ELSE IF t = "manage" /\ leaving' # {} THEN "remove" ELSE "idle"
<1>1. Turn(t, place, Nobody)
  BY DEF Again
<1>2. /\ place \in Places /\ Nobody \in Items
      /\ place = "remove" => t = "manage" /\ todo'[t] = {}
      /\ place = "idle" => todo'[t] = {} /\ (t = "manage" => leaving' = {})
      /\ place = "next" => todo'[t] # {}
  BY DEF Places, Nobody, Items
<1> HIDE DEF place
<1>3. QED
  BY <1>1, <1>2, TurnFacts

\* The object of a position in the book is kept as it was to be.
LEMMA KeepHeld ==
    ASSUME NEW objects, Keep(objects), NEW s \in Strategies, slot'[s] \in Positions
    PROVE heap'[slot'[s]] = objects[slot'[s]]
  BY DEF Keep, Held

\* A thread that is done with its item, and one that took or skipped an item.
LEMMA AgainRestsInv ==
    ASSUME TypeOK, RestInv, NEW t \in Threads, Again(t), t # "reconcile", at[t] # "idle",
           \A u \in Threads : u # t => todo'[u] = todo[u],
           t # "manage" => leaving' = leaving, up' = up
    PROVE RestInv'
<1>1. Alone(t)
  BY AgainFacts DEF Alone
<1>2. up
  BY RestByThread DEF RestOf
<1>3. RestOf(t)'
  BY <1>2, AgainRests, AgainFacts DEF RestOf
<1>4. QED
  BY <1>1, <1>3, RestKept

LEMMA TakeAlone ==
    ASSUME TypeOK, NEW t \in Threads, NEW place \in Places, NEW x, Take(t, x, place)
    PROVE Alone(t)
  BY TakeFacts DEF Alone

LEMMA GoAlone ==
    ASSUME TypeOK, NEW t \in Threads, NEW place \in Places, Go(t, place), UNCHANGED <<cur, todo>>
    PROVE Alone(t)
  BY GoFacts DEF Alone

\* A thread that goes on with the item it has in hand.
LEMMA GoRests ==
    ASSUME TypeOK, RestInv, NEW t \in Threads, NEW place \in Places, Go(t, place),
           UNCHANGED <<cur, todo>>, t # "manage" => leaving' = leaving,
           at[t] \notin {"idle", "list", "next"}, up' = up, place \notin {"idle", "list", "next"},
           place = "remove" => t # "manage",
           t = "reconcile" /\ place \in Claiming => at[t] \in Claiming
    PROVE RestInv'
<1>1. Alone(t) /\ at'[t] = place
  BY GoAlone, GoFacts
<1>2. RestOf(t)
  BY RestByThread
<1>3. RestOf(t)'
  BY <1>1, <1>2 DEF RestOf, DropsDone
<1>4. QED
  BY <1>1, <1>3, RestKept

\* A thread that takes an item.
LEMMA TakeRests ==
    ASSUME TypeOK, RestInv, NEW t \in Threads, NEW place \in Places, NEW x, Take(t, x, place),
           leaving' = leaving, up' = up, place \notin {"idle", "list", "next", "remove"},
           t = "reconcile" /\ place \in Claiming => x[2] = None /\ DropsDone
    PROVE RestInv'
<1>1. Alone(t) /\ at'[t] = place /\ cur'[t] = x /\ todo'[t] = todo[t] \ {x} /\ at[t] = "next"
  BY TakeAlone, TakeFacts
<1>2. RestOf(t)
  BY RestByThread
<1>3. RestOf(t)'
  BY <1>1, <1>2 DEF RestOf, DropsDone
<1>4. QED
  BY <1>1, <1>3, RestKept

\* A thread whose tick an exception ends.
LEMMA AbortRests ==
    ASSUME TypeOK, RestInv, NEW t \in {"entry", "reconcile"}, Abort(t), UNCHANGED <<leaving, up>>,
           at[t] # "idle"
    PROVE Alone(t) /\ at'[t] = "idle" /\ cur'[t] = Nobody /\ todo'[t] = {} /\ RestInv'
<1>1. Turn(t, "idle", Nobody) /\ todo' = [todo EXCEPT ![t] = {}] /\ t \in Threads
      /\ "idle" \in Places /\ Nobody \in Items
  BY DEF Abort, Places, Nobody, Items, Threads
<1>2. todo'[t] = {} /\ \A u \in Threads : u # t => todo'[u] = todo[u]
  BY <1>1 DEF TypeOK
<1>3. Alone(t) /\ at'[t] = "idle" /\ cur'[t] = Nobody
  BY <1>1, <1>2, TurnFacts DEF Alone
<1>4. RestInv'
  BY <1>1, <1>2, <1>3, RestKept DEF RestOf, Claiming
<1>5. QED
  BY <1>2, <1>3, <1>4

\* A thread that starts a loop, or does not.
LEMMA StartRests ==
    ASSUME TypeOK, RestInv, NEW t \in Threads \ {"reconcile"},
           NEW items, items \subseteq Strategies \X (Positions \cup {None}), Start(t, items),
           UNCHANGED <<cur, leaving, up>>, up, at[t] = "idle"
    PROVE RestInv'
<1> DEFINE place == IF items = {} THEN "idle" ELSE "next"
<1>1. /\ todo' = [todo EXCEPT ![t] = items] /\ Go(t, place) /\ place \in Places
      /\ place = "idle" => items = {}
      /\ place \in {"idle", "next"}
  BY DEF Start, Places
<1> HIDE DEF place
<1>2. at'[t] = place /\ todo'[t] = items /\ Alone(t)
  BY <1>1, GoFacts, TodoFacts DEF Alone
<1>3. RestOf(t)
  BY RestByThread
<1>4. RestOf(t)'
  BY <1>1, <1>2, <1>3 DEF RestOf
<1>5. QED
  BY <1>2, <1>4, RestKept

LEMMA EntryRests == ASSUME IInv, RestInv, Entry PROVE RestInv'
<1>0. TypeOK /\ LoopInv /\ "entry" \in Threads
  BY DEF IInv, Threads
<1>1. ASSUME NEW loss \in BOOLEAN, StartEntries(loss) PROVE RestInv'
  <2>1. CASE Start("entry", {<<s, None>> : s \in Strategies})
    <3>1. {<<s, None>> : s \in Strategies} \subseteq Strategies \X (Positions \cup {None})
      OBVIOUS
    <3>2. QED
      BY <1>0, <1>1, <2>1, <3>1, StartRests DEF StartEntries, passVars
  <2>2. CASE UNCHANGED <<at, todo>>
    BY <1>1, <2>2 DEF StartEntries, passVars, RestInv, DropsDone
  <2>3. QED
    BY <1>1, <2>1, <2>2 DEF StartEntries
<1>2. ASSUME NEW s \in Strategies, PassOver(s) PROVE RestInv'
  BY <1>0, <1>2, SkipFacts, AgainRestsInv DEF PassOver, Skip, runVars
<1>3. ASSUME NEW s \in Strategies, NEW d \in Sides, Decide(s, d) PROVE RestInv'
  BY <1>0, <1>3, TakeRests DEF Decide, Places
<1>4. CASE EntryOrdered
  <2>1. at["entry"] = "order" /\ UNCHANGED <<todo, leaving, up>>
    BY <1>4 DEF EntryOrdered, passVars, runVars
  <2>2. CASE Go("entry", "record") /\ UNCHANGED cur
    BY <1>0, <2>1, <2>2, GoRests DEF Places
  <2>3. CASE Again("entry")
    BY <1>0, <2>1, <2>3, AgainRestsInv
  <2>4. QED
    BY <1>4, <2>2, <2>3 DEF EntryOrdered
<1>5. CASE EntryRecorded
  BY <1>0, <1>5, GoRests DEF EntryRecorded, Places, passVars, runVars
<1>6. CASE EntryArmed
  BY <1>0, <1>6, GoRests DEF EntryArmed, Armed, Places, passVars, runVars
<1>7. CASE EntryAttached
  <2>1. at["entry"] = "attach" /\ UNCHANGED <<leaving, up>>
    BY <1>7 DEF EntryAttached, Attached, runVars
  <2>2. CASE slot[cur["entry"][1]] = None
    BY <1>0, <1>7, <2>1, <2>2, AbortRests DEF EntryAttached, Attached
  <2>3. CASE slot[cur["entry"][1]] # None
    BY <1>0, <1>7, <2>1, <2>3, AgainRestsInv DEF EntryAttached, Attached
  <2>4. QED
    BY <2>2, <2>3
<1>8. QED
  BY <1>1, <1>2, <1>3, <1>4, <1>5, <1>6, <1>7 DEF Entry

LEMMA ExitRests ==
    ASSUME IInv, RestInv, NEW t \in {"manage", "kill"},
           \/ \E x \in Pairs : Exit(t, x)
           \/ ExitCancelled(t) \/ ExitRefused(t) \/ ExitFilled(t)
    PROVE RestInv'
<1>0. TypeOK /\ LoopInv /\ t \in Threads
  BY DEF IInv, Threads
<1>1. ASSUME NEW x \in Pairs, Exit(t, x) PROVE RestInv'
  <2> DEFINE place == IF heap[x[2]].safe THEN "cancel" ELSE "close"
  <2>1. place \in Places /\ place \in {"cancel", "close"} /\ Take(t, x, place)
        /\ leaving' = leaving /\ up' = up
    BY <1>1 DEF Exit, Places, passVars, runVars
  <2> HIDE DEF place
  <2>2. QED
    BY <1>0, <2>1, TakeRests
<1>2. CASE ExitCancelled(t)
  BY <1>0, <1>2, GoRests DEF ExitCancelled, BracketDropped, Places, passVars, runVars
<1>3. CASE ExitRefused(t)
  BY <1>0, <1>3, AgainRestsInv DEF ExitRefused, passVars, runVars
<1>4. CASE ExitFilled(t)
  <2>1. at[t] = "close" /\ UNCHANGED <<todo, up>>
    BY <1>4 DEF ExitFilled, runVars
  <2>2. CASE t = "manage"
    BY <1>0, <1>4, <2>1, <2>2, AgainRestsInv DEF ExitFilled
  <2>3. CASE t = "kill"
    BY <1>0, <1>4, <2>1, <2>3, GoRests DEF ExitFilled, Places
  <2>4. QED
    BY <2>2, <2>3
<1>5. QED
  BY <1>1, <1>2, <1>3, <1>4

LEMMA ManageRests == ASSUME IInv, RestInv, Manage PROVE RestInv'
<1>0. TypeOK /\ LoopInv /\ "manage" \in Threads
  BY DEF IInv, Threads
<1>1. CASE StartManage
  BY <1>0, <1>1, StartRests, BookType DEF StartManage, runVars, passVars, Pairs
<1>2. ASSUME NEW x \in Pairs, Hold(x) PROVE RestInv'
  BY <1>0, <1>2, SkipFacts, AgainRestsInv DEF Hold, Skip, runVars, passVars
<1>3. ASSUME NEW x \in Pairs, Removed(x) PROVE RestInv'
  <2> DEFINE place == IF leaving' = {} THEN "idle" ELSE "remove"
  <2>1. /\ Go("manage", place) /\ place \in Places /\ UNCHANGED <<cur, todo, up>>
        /\ at["manage"] = "remove" /\ place \in {"idle", "remove"}
        /\ place = "idle" <=> leaving' = {}
    BY <1>3 DEF Removed, Places, runVars
  <2> HIDE DEF place
  <2>2. at'["manage"] = place /\ Alone("manage") /\ RestOf("manage")
    BY <1>0, <2>1, GoFacts, GoAlone, RestByThread
  <2>3. RestOf("manage")'
    BY <2>1, <2>2 DEF RestOf
  <2>4. QED
    BY <1>0, <2>1, <2>2, <2>3, RestKept
<1>4. QED
  BY <1>1, <1>2, <1>3, ExitRests DEF Manage

LEMMA StopRests == ASSUME IInv, RestInv, Stop PROVE RestInv'
<1>0. TypeOK /\ LoopInv /\ "kill" \in Threads
  BY DEF IInv, Threads
<1>1. CASE Kill
  BY <1>0, <1>1, StartRests, BookType DEF Kill, passVars, Pairs
<1>2. CASE KillRemoved
  BY <1>0, <1>2, AgainRestsInv DEF KillRemoved, runVars, passVars
<1>3. QED
  BY <1>1, <1>2, ExitRests DEF Stop

\* The reconcile tick goes to its next item with none in hand.
LEMMA TurnNextRests ==
    ASSUME TypeOK, RestInv, Turn("reconcile", "next", Nobody), UNCHANGED <<leaving, up, todo>>
    PROVE RestInv'
<1>1. "reconcile" \in Threads /\ "next" \in Places /\ Nobody \in Items
  BY DEF Threads, Places, Nobody, Items
<1>2. at'["reconcile"] = "next" /\ cur'["reconcile"] = Nobody /\ Alone("reconcile")
  BY <1>1, TurnFacts DEF Alone
<1>3. QED
  BY <1>1, <1>2, RestKept DEF RestOf, Claiming

\* An item of the reconcile tick that is dealt with where it is.
LEMMA ShrinkAlone ==
    ASSUME TypeOK, NEW x, todo' = [todo EXCEPT !["reconcile"] = @ \ {x}], UNCHANGED <<at, cur>>
    PROVE Alone("reconcile") /\ todo'["reconcile"] = todo["reconcile"] \ {x}
  BY DEF TypeOK, Alone, Threads

LEMMA ReconcileRests == ASSUME IInv, RestInv, Reconcile PROVE RestInv'
<1>0. TypeOK /\ LoopInv /\ "reconcile" \in Threads
  BY DEF IInv, Threads
<1>a. RestOf("reconcile")
  BY <1>0, RestByThread
<1>1. CASE ReadExchange
  <2>1. /\ at["reconcile"] = "idle" /\ UNCHANGED <<todo, cur, leaving>>
        /\ \/ up' = TRUE /\ at' = at
           \/ UNCHANGED up /\ Go("reconcile", "list")
    BY <1>1 DEF ReadExchange
  <2>2. CASE up' = TRUE /\ at' = at
    BY <2>1, <2>2 DEF RestInv, DropsDone
  <2>3. CASE UNCHANGED up /\ Go("reconcile", "list")
    <3>1. Alone("reconcile") /\ at'["reconcile"] = "list"
      BY <1>0, <2>1, <2>3, GoAlone, GoFacts DEF Places
    <3>2. QED
      BY <1>0, <1>a, <2>1, <2>3, <3>1, RestKept DEF RestOf, Claiming
  <2>4. QED
    BY <2>1, <2>2, <2>3
<1>2. CASE ListBook
  <2> DEFINE items == Book \cup {<<s, None>> : s \in {r \in Strategies : seen[r] # 0}}
  <2>1. /\ todo' = [todo EXCEPT !["reconcile"] = items] /\ Go("reconcile", "next")
        /\ UNCHANGED <<cur, leaving, up>> /\ at["reconcile"] = "list"
    BY <1>2 DEF ListBook, runVars, passVars
  <2>2. items \subseteq Strategies \X (Positions \cup {None})
    BY <1>0, BookType DEF Pairs
  <2> HIDE DEF items
  <2>3. Alone("reconcile") /\ at'["reconcile"] = "next"
    BY <1>0, <2>1, <2>2, GoFacts, TodoFacts DEF Places, Alone
  <2>4. cur["reconcile"] = Nobody
    BY <1>a, <2>1 DEF RestOf
  <2>5. QED
    BY <1>0, <2>1, <2>3, <2>4, RestKept DEF RestOf, Claiming
<1>3. ASSUME NEW x \in Pairs, Agrees(x) PROVE RestInv'
  <2>1. Alone("reconcile") /\ todo'["reconcile"] = todo["reconcile"] \ {x}
        /\ at["reconcile"] = "next" /\ UNCHANGED <<at, cur, leaving, up>>
    BY <1>0, <1>3, ShrinkAlone DEF Agrees, passVars, runVars
  <2>2. QED
    BY <1>0, <1>a, <2>1, RestKept DEF RestOf, Claiming
<1>4. ASSUME NEW s \in Strategies, IsTracked(s) PROVE RestInv'
  <2>1. Alone("reconcile") /\ at["reconcile"] = "next" /\ UNCHANGED <<at, cur, leaving, up>>
    BY <1>0, <1>4, ShrinkAlone DEF IsTracked, passVars, runVars
  <2>2. QED
    BY <1>0, <1>a, <2>1, RestKept DEF RestOf, Claiming
<1>5. ASSUME NEW x \in Pairs, IsGone(x) PROVE RestInv'
  BY <1>0, <1>5, TakeRests DEF IsGone, Places, Claiming, passVars, runVars
<1>6. ASSUME NEW s \in Strategies, IsUntracked(s) PROVE RestInv'
  <2>1. Take("reconcile", <<s, None>>, "claim") /\ <<s, None>>[2] = None /\ DropsDone
        /\ UNCHANGED <<leaving, up>> /\ "claim" \in Places
    BY <1>6 DEF IsUntracked, passVars, runVars, Places
  <2>2. QED
    BY <1>0, <2>1, TakeRests
<1>7. CASE GoneCleared
  BY <1>0, <1>7, GoRests DEF GoneCleared, BracketDropped, Places, Claiming, passVars, runVars
<1>8. CASE GoneDeleted
  <2>1. at["reconcile"] = "delete" /\ UNCHANGED <<leaving, up>>
    BY <1>8 DEF GoneDeleted, runVars
  <2>2. QED
    BY <1>0, <1>8, <2>1, AbortRests, TurnNextRests DEF GoneDeleted
<1>9. CASE Claimed
  BY <1>0, <1>9, GoRests DEF Claimed, Places, Claiming, passVars, runVars
<1>10. CASE ClaimCleared
  BY <1>0, <1>10, GoRests DEF ClaimCleared, BracketDropped, Places, Claiming, passVars, runVars
<1>11. CASE ClaimArmed
  BY <1>0, <1>11, GoRests DEF ClaimArmed, Armed, Places, Claiming, passVars, runVars
<1>12. CASE ClaimAttached
  <2>1. at["reconcile"] = "attach" /\ UNCHANGED <<leaving, up>>
    BY <1>12 DEF ClaimAttached, Attached, runVars
  <2>2. QED
    BY <1>0, <1>12, <2>1, AbortRests, TurnNextRests DEF ClaimAttached, Attached
<1>13. CASE Resized
  <2>1. /\ at["reconcile"] = "next" /\ todo["reconcile"] = {} /\ up'
        /\ UNCHANGED <<cur, leaving, todo>> /\ Go("reconcile", "idle")
    BY <1>13 DEF Resized
  <2>2. Alone("reconcile") /\ at'["reconcile"] = "idle"
    BY <1>0, <2>1, GoAlone, GoFacts DEF Places
  <2>3. QED
    BY <1>0, <1>a, <2>1, <2>2, RestKept DEF RestOf, Claiming
<1>14. QED
  BY <1>1, <1>2, <1>3, <1>4, <1>5, <1>6, <1>7, <1>8, <1>9, <1>10, <1>11, <1>12, <1>13
  DEF Reconcile

LEMMA RestStep == IInv /\ RestInv /\ [Next]_vars => RestInv'
<1>1. ASSUME IInv, RestInv, Environment PROVE RestInv'
  <2>1. CASE Restart
    BY <2>1 DEF Restart, RestInv, Threads, Claiming
  <2>2. CASE UNCHANGED <<at, cur, todo, leaving, up>>
    BY <1>1, <2>2 DEF RestInv, DropsDone
  <2>3. QED
    BY <1>1, <2>1, <2>2 DEF Environment, BracketFires, Ages, runVars, passVars
<1>2. ASSUME IInv, RestInv, Next PROVE RestInv'
  BY <1>1, <1>2, EntryRests, ManageRests, StopRests, ReconcileRests DEF Next
<1>3. ASSUME RestInv, UNCHANGED vars PROVE RestInv'
  BY <1>3 DEF vars, RestInv, DropsDone
<1>4. QED
  BY <1>2, <1>3

LEMMA Rested == Spec => []RestInv
<1>1. Init => RestInv
  BY DEF Init, RestInv, Threads, Claiming
<1>2. QED
  BY <1>1, Invariant, RestStep, PTL DEF Spec

---------------------------------------------------------------------------
(* The book and the exchange, as long as no entry tick overlaps another    *)
(* thread and no call fails.                                               *)

\* No call fails in this step.
LEMMA NoFailure == faults = 0 /\ faults' = 0 => ~Fails
  BY DEF Fails

\* What the positions look like when a thread closes one.
LEMMA ClosableFacts ==
    ASSUME TypeOK, BookInv, NEW t \in {"manage", "kill"}, NEW x \in Pairs, x = cur[t]
    PROVE /\ net[x[1]] # 0 => Closable(x[1], x[2]) = Abs(net[x[1]]) /\ Closable(x[1], x[2]) > 0
          /\ Closable(x[1], x[2]) > 0 => net[x[1]] # 0
          /\ Closable(x[1], x[2]) > 0 /\ Reduce(x[1], x[2]) => net' = [net EXCEPT ![x[1]] = 0]
<1> DEFINE s == x[1]
           p == x[2]
<1>1. s \in Strategies /\ p \in Positions /\ net[s] \in Int /\ heap[p] \in Objects
  BY CryptoAssumption DEF TypeOK, Pairs
<1>2. heap[p].side \in {1, -1} /\ heap[p].size \in Int /\ heap[p].size > 0
  BY <1>1, CryptoAssumption DEF Objects
<1>3. net[s] # 0 => slot[s] = p
  BY DEF BookInv, Holds, Threads
<1>4. net[s] # 0 => heap[p].side = Sign(net[s]) /\ heap[p].size = Abs(net[s])
  <2>1. SUFFICES ASSUME net[s] # 0 PROVE heap[p].side = Sign(net[s]) /\ heap[p].size = Abs(net[s])
    OBVIOUS
  <2>2. slot[s] # None
    BY <1>1, <1>3, <2>1, CryptoAssumption
  <2>3. OnSide(s) /\ heap[slot[s]].size = Abs(net[s])
    BY <1>1, <2>1, <2>2 DEF BookInv
  <2>4. QED
    BY <1>3, <2>1, <2>3 DEF OnSide
<1> HIDE DEF s, p
<1>5. net[s] = 0 => Closable(s, p) <= 0
  BY <1>2 DEF Closable, Least
<1>6. net[s] # 0 => Closable(s, p) = Abs(net[s]) /\ Closable(s, p) > 0
                    /\ net[s] + (-heap[p].side) * Closable(s, p) = 0
  BY <1>1, <1>2, <1>4 DEF Closable, Least, Sign, Abs
<1>7. Reduce(s, p) => net' = [net EXCEPT ![s] = net[s] + (-heap[p].side) * Closable(s, p)]
  BY DEF Reduce, Fill
<1>8. Closable(s, p) \in Int
  BY <1>1, <1>2 DEF Closable, Least
<1>9. QED
  BY <1>5, <1>6, <1>7, <1>8 DEF s, p

\* Everything that is assumed of a step of a thread other than the entry tick's.
Apart ==
    /\ IInv /\ IInv' /\ RestInv /\ RestInv' /\ TradeInv
    /\ faults = 0 /\ faults' = 0
    /\ at["entry"] = "idle" /\ at'["entry"] = "idle"

\* No bracket is at stake for a position some thread is about to close, nor is it
\* being armed, while the runner is up.
LEMMA NotSeenTo ==
    ASSUME TypeOK, RestInv, ReconcileInv, NEW t \in {"manage", "kill"}, NEW s \in Strategies,
           at[t] # "idle", net[s] # 0, cur["reconcile"][1] = s
    PROVE at["reconcile"] \notin Claiming
<1>1. up
  BY DEF RestInv, Threads
<1>2. QED
  BY <1>1 DEF ReconcileInv

\* Positions end, and nothing else happens to those that do not.
OnlyEnds ==
    \A s \in Strategies :
       /\ net'[s] \in {net[s], 0}
       /\ net'[s] # 0 => slot'[s] = slot[s] /\ (slot[s] # None => heap'[slot[s]] = heap[slot[s]])
       /\ slot'[s] \in {slot[s], None}

\* A step of the management tick or of the stop that ends positions at most, keeps every
\* bracket of those that stay, but of one it goes on to close, and hands itself nothing
\* that is not in the book.
LEMMA ExitStep ==
    ASSUME Apart, NEW t \in {"manage", "kill"}, Alone(t), UNCHANGED <<up, seen, answer>>, OnlyEnds,
           \A x \in Pairs : Holds(t, x)' /\ net'[x[1]] # 0 => Holds(t, x) \/ slot[x[1]] = x[2],
           \A s \in Strategies : armed'[s] \in {armed[s], 0} /\ (net'[s] = 0 => armed'[s] = 0 \/ net[s] = 0),
           \A s \in Strategies : armed'[s] # armed[s] /\ net'[s] # 0 =>
              at[t] # "idle" /\ at'[t] = "close" /\ cur'[t][1] = s,
           at[t] = "close" /\ net'[cur[t][1]] # 0 => at'[t] = "close" /\ cur'[t] = cur[t]
    PROVE BookInv' /\ ReconcileInv' /\ EntryInv'
<1> t \in Threads /\ t # "entry" /\ t # "reconcile"
  BY DEF Threads
<1>0. TypeOK /\ LoopInv /\ BookInv /\ ReconcileInv /\ RestInv /\ TypeOK'
  BY DEF Apart, IInv, TradeInv
<1>1. \A u \in Threads : u # t => at'[u] = at[u] /\ cur'[u] = cur[u] /\ todo'[u] = todo[u]
  BY DEF Alone
<1>2. \A s \in Strategies : armed'[s] \in {0, Sign(net'[s])}
  <2>1. ASSUME NEW s \in Strategies PROVE armed'[s] \in {0, Sign(net'[s])}
    <3>1. armed[s] \in {0, Sign(net[s])}
      BY <1>0 DEF BookInv
    <3>2. net[s] = 0 => Sign(net[s]) = 0
      BY DEF Sign
    <3>3. QED
      BY <3>1, <3>2 DEF OnlyEnds
  <2>2. QED
    BY <2>1
<1>3. \A s, r \in Strategies : slot'[s] = slot'[r] /\ slot'[s] # None => s = r
  BY <1>0 DEF BookInv, OnlyEnds
<1>4. \A u \in Threads \ {"entry"}, x \in Pairs : Holds(u, x)' /\ net'[x[1]] # 0 => slot'[x[1]] = x[2]
  <2>1. ASSUME NEW u \in Threads \ {"entry"}, NEW x \in Pairs, Holds(u, x)', net'[x[1]] # 0
        PROVE slot'[x[1]] = x[2]
    <3>1. x[1] \in Strategies
      BY DEF Pairs
    <3>2. net[x[1]] # 0 /\ slot'[x[1]] = slot[x[1]]
      BY <2>1, <3>1 DEF OnlyEnds
    <3>3. Holds(u, x) \/ slot[x[1]] = x[2]
      BY <1>1, <2>1 DEF Holds
    <3>4. QED
      BY <1>0, <3>2, <3>3 DEF BookInv
  <2>2. QED
    BY <2>1
<1>5. ASSUME NEW s \in Strategies, slot'[s] # None, net'[s] # 0
      PROVE /\ OnSide(s)' /\ heap'[slot'[s]].size = Abs(net'[s])
            /\ SeenTo(s)' \/ (armed'[s] = Sign(net'[s]) /\ heap'[slot'[s]].safe)
  <2>1. net[s] # 0 /\ net'[s] = net[s] /\ slot'[s] = slot[s] /\ heap'[slot[s]] = heap[slot[s]]
    BY <1>5 DEF OnlyEnds
  <2>2. /\ OnSide(s) /\ heap[slot[s]].size = Abs(net[s])
        /\ SeenTo(s) \/ (armed[s] = Sign(net[s]) /\ heap[slot[s]].safe)
    BY <1>0, <1>5, <2>1 DEF BookInv
  <2>3. OnSide(s)' /\ heap'[slot'[s]].size = Abs(net'[s])
    BY <1>5, <2>1, <2>2 DEF OnSide
  <2>4. CASE SeenTo(s)
    BY <1>1, <1>5, <2>3, <2>4 DEF SeenTo, Threads
  <2>5. CASE armed'[s] # armed[s]
    BY <1>5, <2>3, <2>5 DEF SeenTo, Threads
  <2>6. CASE armed[s] = Sign(net[s]) /\ heap[slot[s]].safe /\ armed'[s] = armed[s]
    BY <2>1, <2>3, <2>6
  <2>7. QED
    BY <2>2, <2>3, <2>4, <2>5, <2>6
<1>6. \A s \in Strategies : slot'[s] = None /\ net'[s] # 0 =>
          ~up' \/ (at'["entry"] = "record" /\ cur'["entry"][1] = s)
  BY <1>0, <1>1 DEF BookInv, OnlyEnds, Threads
<1>7. BookInv'
  BY <1>2, <1>3, <1>4, <1>5, <1>6 DEF BookInv
<1>8. ReconcileInv'
  <2> DEFINE s == cur["reconcile"][1]
  <2>1. at'["reconcile"] = at["reconcile"] /\ cur'["reconcile"] = cur["reconcile"]
        /\ todo'["reconcile"] = todo["reconcile"]
    BY <1>1 DEF Threads
  <2>2. \A r \in Strategies : net'[r] # 0 => net'[r] = net[r] /\ slot'[r] = slot[r] /\ net[r] # 0
    BY DEF OnlyEnds
  <2>3. at["reconcile"] # "idle" => \A r \in Strategies : net'[r] \in {0, seen'[r]}
    BY <1>0, <2>2 DEF ReconcileInv
  <2>4. at["reconcile"] \notin {"idle", "list"} =>
          \A r \in Strategies : slot'[r] = None /\ net'[r] # 0 =>
              <<r, None>> \in todo["reconcile"] \/ (at["reconcile"] \in Claiming /\ s = r)
    BY <1>0, <2>2 DEF ReconcileInv
  <2>5. CASE at["reconcile"] \in Busy
    <3>1. s \in Strategies
      BY <1>0, <2>5 DEF LoopInv, Threads
    <3>2. at["reconcile"] \in Claiming /\ net'[s] # 0 => armed'[s] = armed[s]
      <4>1. SUFFICES ASSUME at["reconcile"] \in Claiming, net'[s] # 0, armed'[s] # armed[s] PROVE FALSE
        OBVIOUS
      <4>2. at[t] # "idle"
        BY <3>1, <4>1
      <4>3. QED
        BY <1>0, <2>2, <3>1, <4>1, <4>2, NotSeenTo
    <3>3. QED
      BY <1>0, <2>1, <2>2, <2>3, <2>4, <2>5, <3>1, <3>2 DEF ReconcileInv, Claiming
  <2>6. CASE at["reconcile"] \notin Busy
    BY <2>1, <2>3, <2>4, <2>6 DEF ReconcileInv, Claiming, Busy
  <2>7. QED
    BY <2>5, <2>6
<1>9. EntryInv'
  BY DEF Apart, EntryInv
<1>10. QED
  BY <1>7, <1>8, <1>9

LEMMA ExitInvStep ==
    ASSUME Apart, NEW t \in {"manage", "kill", "reconcile"}, Alone(t), OnlyEnds,
           \A s \in Strategies : armed'[s] \in {armed[s], 0},
           t # "reconcile" /\ at'[t] = "close" => net'[cur'[t][1]] = 0 \/ armed'[cur'[t][1]] = 0,
           t = "kill" /\ at'[t] = "remove" => net'[cur'[t][1]] = 0,
           \A x \in leaving' : x \in leaving \/ net'[x[1]] = 0
    PROVE ExitInv'
<1>0. TypeOK /\ LoopInv /\ ExitInv /\ TypeOK' /\ t \in Threads
  BY DEF Apart, IInv, TradeInv, Threads
<1>1. \A u \in Threads : u # t => at'[u] = at[u] /\ cur'[u] = cur[u]
  BY DEF Alone
<1>2. \A s \in Strategies : net[s] = 0 => net'[s] = 0
  BY DEF OnlyEnds
<1>3. ASSUME NEW u \in {"manage", "kill"}, at'[u] = "close"
      PROVE net'[cur'[u][1]] = 0 \/ armed'[cur'[u][1]] = 0
  <2>1. CASE u = t
    BY <1>3, <2>1
  <2>2. CASE u # t
    <3>1. at[u] = "close" /\ cur'[u] = cur[u] /\ u \in Threads
      BY <1>1, <1>3, <2>2 DEF Threads
    <3>2. cur[u][1] \in Strategies
      BY <1>0, <3>1 DEF LoopInv, Pairs
    <3>3. net[cur[u][1]] = 0 \/ armed[cur[u][1]] = 0
      BY <1>0, <3>1 DEF ExitInv
    <3>4. QED
      BY <1>2, <3>1, <3>2, <3>3
  <2>3. QED
    BY <2>1, <2>2
<1>4. at'["kill"] = "remove" => net'[cur'["kill"][1]] = 0
  <2>1. ASSUME at'["kill"] = "remove", t # "kill" PROVE net'[cur'["kill"][1]] = 0
    <3>1. at["kill"] = "remove" /\ cur'["kill"] = cur["kill"]
      BY <1>1, <2>1 DEF Threads
    <3>2. cur["kill"][1] \in Strategies /\ net[cur["kill"][1]] = 0
      BY <1>0, <3>1 DEF LoopInv, Pairs, ExitInv
    <3>3. QED
      BY <1>2, <3>1, <3>2
  <2>2. QED
    BY <2>1
<1>5. \A x \in leaving' : net'[x[1]] = 0
  <2>1. ASSUME NEW x \in leaving PROVE net'[x[1]] = 0
    <3>1. x[1] \in Strategies /\ net[x[1]] = 0
      BY <1>0 DEF TypeOK, Pairs, ExitInv
    <3>2. QED
      BY <1>2, <3>1
  <2>2. QED
    BY <2>1
<1>6. QED
  BY <1>3, <1>4, <1>5 DEF ExitInv

\* What stays in the book stays as it is when only unused objects are freed.
LEMMA KeptHeap ==
    ASSUME TypeOK', Keep(heap), NEW s \in Strategies, slot'[s] # None
    PROVE heap'[slot'[s]] = heap[slot'[s]]
<1>1. slot'[s] \in Positions
  BY DEF TypeOK
<1>2. QED
  BY <1>1, KeepHeld

LEMMA NobodyIsNoPair == Nobody \notin Pairs
  BY CryptoAssumption DEF Nobody, Pairs

\* The exits of the management tick and of the stop.
LEMMA ExitTrades ==
    ASSUME Apart, NEW t \in {"manage", "kill"},
           \/ \E x \in Pairs : Exit(t, x)
           \/ ExitCancelled(t) \/ ExitRefused(t) \/ ExitFilled(t)
    PROVE TradeInv'
<1> t \in Threads
  BY DEF Threads
<1>0. /\ TypeOK /\ LoopInv /\ BookInv /\ ExitInv /\ ReconcileInv /\ RestInv /\ TypeOK'
      /\ net \in [Strategies -> -MaxNet .. MaxNet] /\ armed \in [Strategies -> {-1, 0, 1}]
      /\ slot \in [Strategies -> Positions \cup {None}]
  BY DEF Apart, IInv, TradeInv, TypeOK
<1>f. ~Fails
  BY NoFailure DEF Apart
<1>1. ASSUME NEW x \in Pairs, Exit(t, x) PROVE TradeInv'
  <2> DEFINE place == IF heap[x[2]].safe THEN "cancel" ELSE "close"
  <2>1. place \in Places /\ Take(t, x, place) /\ (place = "close" => ~heap[x[2]].safe)
        /\ place \in {"cancel", "close"}
        /\ UNCHANGED <<slot, heap, due, runVars, passVars, exchangeVars>>
        /\ x[1] \in Strategies
    BY <1>1 DEF Exit, Places, Pairs
  <2> HIDE DEF place
  <2>2. /\ Alone(t) /\ at[t] = "next" /\ at'[t] = place /\ cur'[t] = x /\ x \in todo[t]
        /\ todo'[t] = todo[t] \ {x}
    BY <1>0, <2>1, TakeAlone, TakeFacts
  <2>3. OnlyEnds
    BY <2>1 DEF OnlyEnds, exchangeVars
  <2>4. BookInv' /\ ReconcileInv' /\ EntryInv'
    BY <2>1, <2>2, <2>3, ExitStep DEF Holds, runVars, passVars, exchangeVars
  <2>5. place = "close" => net[x[1]] = 0 \/ armed[x[1]] = 0
    <3>1. SUFFICES ASSUME place = "close", net[x[1]] # 0 PROVE armed[x[1]] = 0
      OBVIOUS
    <3>2. slot[x[1]] = x[2] /\ slot[x[1]] # None
      BY <1>0, <2>2, <3>1, CryptoAssumption DEF BookInv, Holds, Threads, Pairs
    <3>3. SeenTo(x[1])
      BY <1>0, <2>1, <3>1, <3>2 DEF BookInv
    <3>4. \A u \in {"manage", "kill"} : at[u] = "close" /\ cur[u][1] = x[1] => armed[x[1]] = 0
      BY <1>0, <3>1 DEF ExitInv
    <3>5. at["reconcile"] \in {"replace", "arm", "attach"} => cur["reconcile"][1] # x[1]
      BY <1>0, <2>1, <2>2, <3>1, NotSeenTo DEF Claiming
    <3>6. QED
      BY <3>3, <3>4, <3>5 DEF SeenTo, Apart
  <2>6. ExitInv'
    BY <2>1, <2>2, <2>3, <2>5, ExitInvStep DEF passVars, exchangeVars
  <2>7. QED
    BY <2>4, <2>6 DEF TradeInv
<1>2. CASE ExitCancelled(t)
  <2>1. /\ at[t] = "cancel" /\ CancelBracket(cur[t][1]) /\ Go(t, "close") /\ "close" \in Places
        /\ UNCHANGED <<slot, heap, due, runVars, todo, cur, passVars, net>>
    BY <1>2 DEF ExitCancelled, BracketDropped, Places
  <2>2. Alone(t) /\ at'[t] = "close" /\ cur[t][1] \in Strategies
    BY <1>0, <2>1, GoAlone, GoFacts DEF LoopInv, Pairs
  <2>3. armed' = [armed EXCEPT ![cur[t][1]] = 0]
    BY <1>f, <2>1 DEF CancelBracket
  <2>4. OnlyEnds
    BY <2>1 DEF OnlyEnds
  <2>5. \A s \in Strategies : /\ armed'[s] = IF s = cur[t][1] THEN 0 ELSE armed[s]
                              /\ net[s] = 0 => armed[s] = 0
    BY <1>0, <2>3 DEF BookInv, Sign
  <2>6. BookInv' /\ ReconcileInv' /\ EntryInv'
    BY <2>1, <2>2, <2>4, <2>5, ExitStep DEF Holds, runVars, passVars
  <2>7. ExitInv'
    BY <2>1, <2>2, <2>4, <2>5, ExitInvStep DEF passVars
  <2>8. QED
    BY <2>6, <2>7 DEF TradeInv
<1>3. ASSUME at[t] = "close" PROVE
        /\ cur[t] \in Pairs /\ cur[t][1] \in Strategies
        /\ net[cur[t][1]] # 0 => armed[cur[t][1]] = 0
        /\ \A s \in Strategies : net[s] = 0 => armed[s] = 0
  BY <1>0, <1>3 DEF LoopInv, Pairs, ExitInv, BookInv, Sign
<1>4. CASE ExitRefused(t)
  <2> DEFINE s == cur[t][1]
  <2>1. /\ at[t] = "close" /\ Closable(cur[t][1], cur[t][2]) <= 0
        /\ UNCHANGED <<net, faults, todo, passVars, slot, runVars, armed>>
        /\ Again(t) /\ Keep(heap)
    BY <1>f, <1>4 DEF ExitRefused
  <2>2. net[s] = 0
    <3>1. net[s] # 0 => Closable(cur[t][1], cur[t][2]) > 0
      BY <1>0, <1>3, <2>1, ClosableFacts
    <3>2. net[s] # 0 => Closable(cur[t][1], cur[t][2]) \in Int
      BY <1>0, <1>3, <2>1, ClosableFacts, SignFacts, CryptoAssumption
    <3>3. QED
      BY <2>1, <3>1, <3>2
  <2>3. Alone(t) /\ at'[t] \in {"next", "idle", "remove"} /\ cur'[t] = Nobody
        /\ (at'[t] = "remove" => t # "kill")
    BY <1>0, <2>1, AgainFacts, AgainRests DEF Alone
  <2>4. OnlyEnds
    BY <1>0, <2>1, KeptHeap DEF OnlyEnds
  <2>5. BookInv' /\ ReconcileInv' /\ EntryInv'
    BY <1>3, <2>1, <2>2, <2>3, <2>4, ExitStep, NobodyIsNoPair DEF Holds, runVars, passVars
  <2>6. ExitInv'
    BY <2>1, <2>3, <2>4, ExitInvStep DEF passVars
  <2>7. QED
    BY <2>5, <2>6 DEF TradeInv
<1>5. CASE ExitFilled(t)
  <2> DEFINE s == cur[t][1]
  <2>1. /\ at[t] = "close" /\ Closable(s, cur[t][2]) > 0 /\ Reduce(s, cur[t][2])
        /\ UNCHANGED <<todo, slot, heap, due, runVars, bet, answer, seen, armed, faults>>
    BY <1>5 DEF ExitFilled
  <2>2. s \in Strategies /\ net' = [net EXCEPT ![s] = 0] /\ armed[s] = 0
    BY <1>0, <1>3, <2>1, ClosableFacts
  <2>3. \A r \in Strategies : net'[r] = IF r = s THEN 0 ELSE net[r]
    BY <1>0, <2>2
  <2>4. OnlyEnds
    BY <2>1, <2>3 DEF OnlyEnds
  <2>5. /\ Alone(t) /\ at'[t] # "close"
        /\ at'[t] = "remove" /\ t = "kill" => cur'[t] = cur[t]
        /\ cur'[t] \in {Nobody, cur[t]}
        /\ \A x \in leaving' : x \in leaving \/ x = cur[t]
    <3>1. CASE t = "manage"
      <4>1. leaving' = leaving \cup {cur[t]} /\ Again(t)
        BY <1>5, <3>1 DEF ExitFilled
      <4>2. QED
        <5>1. /\ at'[t] \in {"next", "idle", "remove"}
              /\ \A u \in Threads : u # t => at'[u] = at[u] /\ cur'[u] = cur[u]
          BY <1>0, <4>1, AgainFacts
        <5>2. cur'[t] = Nobody
          BY <1>0, <4>1, AgainRests
        <5>3. Alone(t)
          BY <2>1, <5>1 DEF Alone
        <5>4. QED
          BY <3>1, <4>1, <5>1, <5>2, <5>3
    <3>2. CASE t = "kill"
      <4>1. Go(t, "remove") /\ UNCHANGED <<cur, leaving>> /\ "remove" \in Places
        BY <1>5, <3>2 DEF ExitFilled, Places
      <4>2. QED
        BY <1>0, <2>1, <4>1, GoAlone, GoFacts
    <3>3. QED
      BY <3>1, <3>2
  <2>6. BookInv' /\ ReconcileInv' /\ EntryInv'
    BY <1>3, <2>1, <2>2, <2>3, <2>4, <2>5, ExitStep, NobodyIsNoPair DEF Holds, runVars
  <2>7. ExitInv'
    BY <2>1, <2>2, <2>3, <2>4, <2>5, ExitInvStep
  <2>8. QED
    BY <2>6, <2>7 DEF TradeInv
<1>6. QED
  BY <1>1, <1>2, <1>4, <1>5

\* A loop over the book is about what is in it.
LEMMA StartTrades ==
    ASSUME Apart, NEW t \in {"manage", "kill"}, Start(t, Book), at[t] = "idle",
           UNCHANGED <<slot, heap, up, cur, passVars, exchangeVars>>
    PROVE TradeInv'
<1> t \in Threads
  BY DEF Threads
<1> DEFINE place == IF Book = {} THEN "idle" ELSE "next"
<1>0. TypeOK /\ RestInv /\ cur[t] = Nobody
  BY DEF Apart, IInv, RestInv
<1>1. /\ todo' = [todo EXCEPT ![t] = Book] /\ Go(t, place) /\ place \in Places
      /\ place \in {"idle", "next"}
  BY DEF Start, Places
<1> HIDE DEF place
<1>2. Book \subseteq Strategies \X (Positions \cup {None})
  BY <1>0, BookType DEF Pairs
<1>3. Alone(t) /\ at'[t] = place /\ todo'[t] = Book
  BY <1>0, <1>1, <1>2, GoFacts, TodoFacts DEF Alone
<1>4. \A x \in Book : slot[x[1]] = x[2]
  BY DEF Book
<1>5. OnlyEnds
  BY DEF OnlyEnds, exchangeVars
<1>6. BookInv' /\ ReconcileInv' /\ EntryInv'
  BY <1>0, <1>1, <1>3, <1>4, <1>5, ExitStep, NobodyIsNoPair DEF Holds, passVars, exchangeVars
<1>7. ExitInv'
  BY <1>1, <1>3, <1>5, ExitInvStep DEF passVars, exchangeVars
<1>8. QED
  BY <1>6, <1>7 DEF TradeInv

\* Positions that are closed leave the book.
LEMMA RemovedEnds ==
    ASSUME TypeOK, TypeOK', NEW s \in Strategies, net[s] = 0, Keep(heap),
           slot' = [slot EXCEPT ![s] = None], UNCHANGED net
    PROVE OnlyEnds
<1>1. \A r \in Strategies : slot'[r] = IF r = s THEN None ELSE slot[r]
  BY DEF TypeOK
<1>2. \A r \in Strategies : slot'[r] # None => heap'[slot'[r]] = heap[slot'[r]]
  BY KeptHeap
<1>3. QED
  BY <1>1, <1>2 DEF OnlyEnds

LEMMA ManageTrades == ASSUME Apart, Manage PROVE TradeInv'
<1> "manage" \in Threads
  BY DEF Threads
<1>0. /\ TypeOK /\ LoopInv /\ BookInv /\ ExitInv /\ ReconcileInv /\ RestInv /\ TypeOK'
  BY DEF Apart, IInv, TradeInv
<1>f. ~Fails
  BY NoFailure DEF Apart
<1>1. CASE StartManage
  BY <1>1, StartTrades DEF StartManage, runVars
<1>2. ASSUME NEW x \in Pairs, Hold(x) PROVE TradeInv'
  <2>1. /\ Skip("manage", x) /\ at["manage"] = "next" /\ Keep(heap)
        /\ UNCHANGED <<passVars, slot, runVars, net, armed>>
    BY <1>2 DEF Hold, Skip
  <2>2. /\ Alone("manage") /\ at'["manage"] \in {"next", "idle", "remove"}
        /\ cur'["manage"] = Nobody /\ todo'["manage"] \subseteq todo["manage"]
    BY <1>0, <2>1, SkipFacts, AgainFacts, AgainRests DEF Alone
  <2>3. OnlyEnds
    BY <1>0, <2>1, KeptHeap DEF OnlyEnds
  <2>4. BookInv' /\ ReconcileInv' /\ EntryInv'
    BY <2>1, <2>2, <2>3, ExitStep, NobodyIsNoPair DEF Holds, runVars, passVars
  <2>5. ExitInv'
    BY <2>1, <2>2, <2>3, ExitInvStep DEF passVars
  <2>6. QED
    BY <2>4, <2>5 DEF TradeInv
<1>3. ASSUME NEW x \in Pairs, Removed(x) PROVE TradeInv'
  <2> DEFINE place == IF leaving' = {} THEN "idle" ELSE "remove"
  <2>1. /\ at["manage"] = "remove" /\ x \in leaving /\ slot' = [slot EXCEPT ![x[1]] = None]
        /\ leaving' \subseteq leaving
        /\ UNCHANGED <<runVars, todo, cur, bet, answer, seen, exchangeVars>> /\ Keep(heap)
        /\ Go("manage", place) /\ place \in Places /\ place # "close" /\ x[1] \in Strategies
    BY <1>3 DEF Removed, Places, Pairs
  <2> HIDE DEF place
  <2>2. Alone("manage") /\ at'["manage"] = place
    BY <1>0, <2>1, GoAlone, GoFacts
  <2>3. OnlyEnds
    BY <1>0, <2>1, RemovedEnds DEF ExitInv, exchangeVars
  <2>4. BookInv' /\ ReconcileInv' /\ EntryInv'
    BY <2>1, <2>2, <2>3, ExitStep DEF Holds, runVars, exchangeVars
  <2>5. ExitInv'
    BY <2>1, <2>2, <2>3, ExitInvStep DEF exchangeVars
  <2>6. QED
    BY <2>4, <2>5 DEF TradeInv
<1>4. QED
  BY <1>1, <1>2, <1>3, ExitTrades DEF Manage

LEMMA StopTrades == ASSUME Apart, Stop PROVE TradeInv'
<1> "kill" \in Threads
  BY DEF Threads
<1>0. /\ TypeOK /\ LoopInv /\ BookInv /\ ExitInv /\ ReconcileInv /\ RestInv /\ TypeOK'
  BY DEF Apart, IInv, TradeInv
<1>1. CASE Kill
  BY <1>1, StartTrades DEF Kill
<1>2. CASE KillRemoved
  <2> DEFINE s == cur["kill"][1]
  <2>1. /\ at["kill"] = "remove" /\ slot' = [slot EXCEPT ![s] = None] /\ Again("kill")
        /\ UNCHANGED <<todo, passVars, runVars, exchangeVars>> /\ Keep(heap)
    BY <1>2 DEF KillRemoved
  <2>2. s \in Strategies /\ net[s] = 0
    BY <1>0, <2>1 DEF LoopInv, Pairs, ExitInv
  <2>3. Alone("kill") /\ at'["kill"] \in {"next", "idle"} /\ cur'["kill"] = Nobody
    BY <1>0, <2>1, AgainFacts, AgainRests DEF Alone
  <2>4. OnlyEnds
    BY <1>0, <2>1, <2>2, RemovedEnds DEF exchangeVars
  <2>5. BookInv' /\ ReconcileInv' /\ EntryInv'
    BY <2>1, <2>3, <2>4, ExitStep, NobodyIsNoPair DEF Holds, runVars, passVars, exchangeVars
  <2>6. ExitInv'
    BY <2>1, <2>3, <2>4, ExitInvStep DEF passVars, exchangeVars
  <2>7. QED
    BY <2>5, <2>6 DEF TradeInv
<1>3. QED
  BY <1>1, <1>2, ExitTrades DEF Stop

\* A step of the reconcile tick that only drops positions that have ended.
LEMMA BookStep ==
    ASSUME Apart, Alone("reconcile"), UNCHANGED <<net, up>>, OnlyEnds,
           \A x \in Pairs : Holds("reconcile", x)' /\ net[x[1]] # 0 =>
              Holds("reconcile", x) \/ slot[x[1]] = x[2],
           \A s \in Strategies : armed'[s] \in {armed[s], 0},
           \A s \in Strategies : armed'[s] # armed[s] /\ net[s] # 0 => SeenTo(s)',
           at["reconcile"] \in {"replace", "arm", "attach"} /\ net[cur["reconcile"][1]] # 0
             => at'["reconcile"] \in {"replace", "arm", "attach"} /\ cur'["reconcile"] = cur["reconcile"]
    PROVE BookInv' /\ EntryInv'
<1>0. TypeOK /\ BookInv /\ TypeOK'
  BY DEF Apart, IInv, TradeInv
<1>1. \A u \in Threads : u # "reconcile" => at'[u] = at[u] /\ cur'[u] = cur[u] /\ todo'[u] = todo[u]
  BY DEF Alone
<1>2. \A s \in Strategies : armed'[s] \in {0, Sign(net'[s])}
  BY <1>0 DEF BookInv
<1>3. \A s, r \in Strategies : slot'[s] = slot'[r] /\ slot'[s] # None => s = r
  BY <1>0 DEF BookInv, OnlyEnds
<1>4. \A u \in Threads \ {"entry"}, x \in Pairs : Holds(u, x)' /\ net'[x[1]] # 0 => slot'[x[1]] = x[2]
  <2>1. ASSUME NEW u \in Threads \ {"entry"}, NEW x \in Pairs, Holds(u, x)', net'[x[1]] # 0
        PROVE slot'[x[1]] = x[2]
    <3>1. x[1] \in Strategies /\ net[x[1]] # 0
      BY <2>1 DEF Pairs
    <3>2. slot'[x[1]] = slot[x[1]]
      BY <2>1, <3>1 DEF OnlyEnds
    <3>3. Holds(u, x) \/ slot[x[1]] = x[2]
      BY <1>1, <2>1, <3>1 DEF Holds
    <3>4. QED
      BY <1>0, <3>1, <3>2, <3>3 DEF BookInv
  <2>2. QED
    BY <2>1
<1>5. ASSUME NEW s \in Strategies, slot'[s] # None, net'[s] # 0
      PROVE /\ OnSide(s)' /\ heap'[slot'[s]].size = Abs(net'[s])
            /\ SeenTo(s)' \/ (armed'[s] = Sign(net'[s]) /\ heap'[slot'[s]].safe)
  <2>1. net[s] # 0 /\ net'[s] = net[s] /\ slot'[s] = slot[s] /\ heap'[slot[s]] = heap[slot[s]]
    BY <1>5 DEF OnlyEnds
  <2>2. /\ OnSide(s) /\ heap[slot[s]].size = Abs(net[s])
        /\ SeenTo(s) \/ (armed[s] = Sign(net[s]) /\ heap[slot[s]].safe)
    BY <1>0, <1>5, <2>1 DEF BookInv
  <2>3. OnSide(s)' /\ heap'[slot'[s]].size = Abs(net'[s])
    BY <1>5, <2>1, <2>2 DEF OnSide
  <2>4. SeenTo(s) => SeenTo(s)'
    BY <1>1, <2>1 DEF SeenTo, Threads
  <2>5. QED
    BY <2>1, <2>2, <2>3, <2>4
<1>6. \A s \in Strategies : slot'[s] = None /\ net'[s] # 0 =>
          ~up' \/ (at'["entry"] = "record" /\ cur'["entry"][1] = s)
  BY <1>0, <1>1 DEF BookInv, OnlyEnds, Threads
<1>7. BookInv'
  BY <1>2, <1>3, <1>4, <1>5, <1>6 DEF BookInv
<1>8. EntryInv'
  BY DEF Apart, EntryInv
<1>9. QED
  BY <1>7, <1>8

\* The steps of the reconcile tick that only move on, or drop what has ended.
LEMMA ReconcileMoves ==
    ASSUME Apart,
           \/ ReadExchange \/ ListBook
           \/ \E x \in Pairs : Agrees(x) \/ IsGone(x)
           \/ GoneCleared \/ GoneDeleted
           \/ \E s \in Strategies : IsTracked(s) \/ IsUntracked(s)
           \/ ClaimCleared
    PROVE TradeInv'
<1> "reconcile" \in Threads
  BY DEF Threads
<1> DEFINE s == cur["reconcile"][1]
<1>0. /\ TypeOK /\ LoopInv /\ BookInv /\ ExitInv /\ ReconcileInv /\ RestInv /\ TypeOK'
      /\ RestInv' /\ LoopInv'
  BY DEF Apart, IInv, TradeInv
<1>f. ~Fails
  BY NoFailure DEF Apart
<1>1. CASE ReadExchange
  <2>1. /\ at["reconcile"] = "idle" /\ seen' = net /\ Go("reconcile", "list") /\ "list" \in Places
        /\ UNCHANGED <<slot, heap, todo, cur, leaving, net, armed, up>>
    BY <1>f, <1>1 DEF ReadExchange, Places
  <2>2. Alone("reconcile") /\ at'["reconcile"] = "list"
    BY <1>0, <2>1, GoAlone, GoFacts
  <2>3. OnlyEnds
    BY <2>1 DEF OnlyEnds
  <2>4. BookInv' /\ EntryInv'
    BY <2>1, <2>2, <2>3, BookStep DEF Holds
  <2>5. ExitInv'
    BY <2>1, <2>2, <2>3, ExitInvStep
  <2>6. ReconcileInv'
    BY <2>1, <2>2 DEF ReconcileInv, Claiming
  <2>7. QED
    BY <2>4, <2>5, <2>6 DEF TradeInv
<1>2. CASE ListBook
  <2> DEFINE items == Book \cup {<<r, None>> : r \in {q \in Strategies : seen[q] # 0}}
  <2>1. /\ at["reconcile"] = "list" /\ todo' = [todo EXCEPT !["reconcile"] = items]
        /\ Go("reconcile", "next") /\ "next" \in Places
        /\ UNCHANGED <<slot, heap, cur, leaving, net, armed, up, seen>>
    BY <1>2 DEF ListBook, Places, runVars, passVars, exchangeVars
  <2>2. items \subseteq Strategies \X (Positions \cup {None})
    BY <1>0, BookType DEF Pairs
  <2>3. /\ \A x \in Pairs : x \in items => slot[x[1]] = x[2]
        /\ \A r \in Strategies : seen[r] # 0 => <<r, None>> \in items
    BY CryptoAssumption DEF Book, Pairs
  <2> HIDE DEF items
  <2>4. Alone("reconcile") /\ at'["reconcile"] = "next" /\ todo'["reconcile"] = items
    BY <1>0, <2>1, <2>2, GoFacts, TodoFacts DEF Alone
  <2>5. OnlyEnds
    BY <2>1 DEF OnlyEnds
  <2>6. BookInv' /\ EntryInv'
    BY <2>1, <2>3, <2>4, <2>5, BookStep DEF Holds
  <2>7. ExitInv'
    BY <2>1, <2>4, <2>5, ExitInvStep
  <2>8. ReconcileInv'
    BY <1>0, <2>1, <2>3, <2>4 DEF ReconcileInv, Claiming
  <2>9. QED
    BY <2>6, <2>7, <2>8 DEF TradeInv
<1>3. ASSUME NEW x \in Strategies \X (Positions \cup {None}),
             x[2] = None => slot[x[1]] # None,
             at["reconcile"] = "next",
             todo' = [todo EXCEPT !["reconcile"] = @ \ {x}],
             UNCHANGED <<at, cur, slot, leaving, net, armed, up, seen>>,
             \A r \in Strategies : slot[r] # None => heap'[slot[r]] = heap[slot[r]]
      PROVE  TradeInv'
  <2>1. Alone("reconcile") /\ todo'["reconcile"] = todo["reconcile"] \ {x}
    BY <1>0, <1>3, ShrinkAlone
  <2>2. OnlyEnds
    BY <1>3 DEF OnlyEnds
  <2>3. BookInv' /\ EntryInv'
    BY <1>3, <2>1, <2>2, BookStep DEF Holds
  <2>4. ExitInv'
    BY <1>3, <2>1, <2>2, ExitInvStep
  <2>5. ASSUME NEW r \in Strategies, slot'[r] = None, net'[r] # 0
        PROVE  <<r, None>> \in todo'["reconcile"]
    <3>1. <<r, None>> \in todo["reconcile"]
      BY <1>0, <1>3, <2>5 DEF ReconcileInv, Claiming
    <3>2. <<r, None>> # x
      BY <1>3, <2>5
    <3>3. QED
      BY <2>1, <3>1, <3>2
  <2>6. ReconcileInv'
    BY <1>0, <1>3, <2>1, <2>5 DEF ReconcileInv, Claiming
  <2>7. QED
    BY <2>3, <2>4, <2>6 DEF TradeInv
<1>4. ASSUME NEW x \in Pairs, Agrees(x) PROVE TradeInv'
  <2>1. /\ at["reconcile"] = "next" /\ todo' = [todo EXCEPT !["reconcile"] = @ \ {x}] /\ Keep(heap)
        /\ UNCHANGED <<at, cur, slot, leaving, net, armed, up, seen>>
    BY <1>4 DEF Agrees, runVars, passVars, exchangeVars
  <2>2. x \in Strategies \X (Positions \cup {None}) /\ x[2] # None
    BY CryptoAssumption DEF Pairs
  <2>3. \A r \in Strategies : slot[r] # None => heap'[slot[r]] = heap[slot[r]]
    BY <1>0, <2>1, KeptHeap
  <2>4. QED
    BY <1>3, <2>1, <2>2, <2>3
<1>5. ASSUME NEW r \in Strategies, IsTracked(r) PROVE TradeInv'
  <2>1. /\ at["reconcile"] = "next" /\ todo' = [todo EXCEPT !["reconcile"] = @ \ {<<r, None>>}]
        /\ slot[r] # None
        /\ UNCHANGED <<at, cur, slot, heap, leaving, net, armed, up, seen>>
    BY <1>5 DEF IsTracked, runVars, passVars, exchangeVars
  <2> DEFINE x == <<r, None>>
  <2>2. x \in Strategies \X (Positions \cup {None}) /\ (x[2] = None => slot[x[1]] # None)
    BY <2>1
  <2>3. \A q \in Strategies : slot[q] # None => heap'[slot[q]] = heap[slot[q]]
    BY <2>1
  <2> HIDE DEF x
  <2>4. QED
    BY <1>3, <2>1, <2>2, <2>3 DEF x
<1>6. ASSUME NEW x \in Pairs, IsGone(x) PROVE TradeInv'
  <2>1. /\ Take("reconcile", x, "clear") /\ "clear" \in Places /\ ~SeenOn(x[1], x[2])
        /\ UNCHANGED <<slot, heap, leaving, net, armed, up, seen>>
        /\ x[1] \in Strategies /\ x[2] \in Positions /\ x[2] # None
    BY <1>6, CryptoAssumption DEF IsGone, Places, runVars, passVars, exchangeVars, Pairs
  <2>2. /\ Alone("reconcile") /\ at["reconcile"] = "next" /\ at'["reconcile"] = "clear"
        /\ cur'["reconcile"] = x /\ x \in todo["reconcile"]
        /\ todo'["reconcile"] = todo["reconcile"] \ {x}
    BY <1>0, <2>1, TakeAlone, TakeFacts
  <2>3. OnlyEnds
    BY <2>1 DEF OnlyEnds
  <2>4. BookInv' /\ EntryInv'
    BY <2>1, <2>2, <2>3, BookStep DEF Holds
  <2>5. ExitInv'
    BY <2>1, <2>2, <2>3, ExitInvStep
  <2>6. net[x[1]] = 0
    <3>1. SUFFICES ASSUME net[x[1]] # 0 PROVE FALSE
      OBVIOUS
    <3>2. slot[x[1]] = x[2]
      BY <1>0, <2>2, <3>1 DEF BookInv, Holds, Threads
    <3>3. OnSide(x[1]) /\ net[x[1]] = seen[x[1]]
      BY <1>0, <2>1, <2>2, <3>1, <3>2 DEF BookInv, ReconcileInv
    <3>4. QED
      BY <2>1, <3>2, <3>3 DEF OnSide, SeenOn
  <2>7. ASSUME NEW r \in Strategies, slot'[r] = None, net'[r] # 0
        PROVE  <<r, None>> \in todo'["reconcile"]
    <3>1. <<r, None>> \in todo["reconcile"]
      BY <1>0, <2>1, <2>2, <2>7 DEF ReconcileInv, Claiming
    <3>2. <<r, None>> # x
      BY <2>1
    <3>3. QED
      BY <2>2, <3>1, <3>2
  <2>8. ReconcileInv'
    BY <1>0, <2>1, <2>2, <2>6, <2>7 DEF ReconcileInv, Claiming
  <2>9. QED
    BY <2>4, <2>5, <2>8 DEF TradeInv
<1>7. ASSUME NEW r \in Strategies, IsUntracked(r) PROVE TradeInv'
  <2> DEFINE x == <<r, None>>
  <2>1. /\ Take("reconcile", x, "claim") /\ "claim" \in Places /\ slot[r] = None
        /\ UNCHANGED <<slot, heap, leaving, net, armed, up, seen>>
    BY <1>7 DEF IsUntracked, Places, runVars, passVars, exchangeVars
  <2>2. /\ Alone("reconcile") /\ at["reconcile"] = "next" /\ at'["reconcile"] = "claim"
        /\ cur'["reconcile"] = x /\ x \in todo["reconcile"]
        /\ todo'["reconcile"] = todo["reconcile"] \ {x}
    BY <1>0, <2>1, TakeAlone, TakeFacts
  <2>3. OnlyEnds
    BY <2>1 DEF OnlyEnds
  <2>4. x \notin Pairs /\ x[1] = r
    BY CryptoAssumption DEF Pairs
  <2>5. BookInv' /\ EntryInv'
    BY <2>1, <2>2, <2>3, <2>4, BookStep DEF Holds
  <2>6. ExitInv'
    BY <2>1, <2>2, <2>3, ExitInvStep
  <2>7. net[r] # 0 => ~up
    BY <1>0, <2>1 DEF BookInv, Apart
  <2>8. \A q \in Strategies : slot'[q] = None /\ net'[q] # 0 => <<q, None>> \in todo'["reconcile"] \/ r = q
    BY <1>0, <2>1, <2>2 DEF ReconcileInv, Claiming
  <2> HIDE DEF x
  <2>9. ReconcileInv'
    BY <1>0, <2>1, <2>2, <2>4, <2>7, <2>8 DEF ReconcileInv, Claiming
  <2>10. QED
    BY <2>5, <2>6, <2>9 DEF TradeInv
<1>8. ASSUME NEW place \in Places, CancelBracket(s), s \in Strategies, Go("reconcile", place),
             UNCHANGED <<slot, heap, due, runVars, todo, cur, passVars, net>>,
             \/ at["reconcile"] = "clear" /\ place = "delete"
             \/ at["reconcile"] = "replace" /\ place = "arm"
      PROVE  TradeInv'
  <2>1. Alone("reconcile") /\ at'["reconcile"] = place /\ up' = up
    BY <1>0, <1>8, GoAlone, GoFacts DEF runVars
  <2>2. armed' = [armed EXCEPT ![s] = 0]
    BY <1>f, <1>8 DEF CancelBracket
  <2>3. \A r \in Strategies : armed'[r] = IF r = s THEN 0 ELSE armed[r]
    BY <1>0, <2>2 DEF TypeOK
  <2>4. OnlyEnds
    BY <1>8 DEF OnlyEnds
  <2>5. net[s] # 0 => place = "arm"
    BY <1>0, <1>8 DEF ReconcileInv
  <2>6. BookInv' /\ EntryInv'
    BY <1>8, <2>1, <2>3, <2>4, <2>5, BookStep DEF Holds, SeenTo
  <2>7. ExitInv'
    BY <1>8, <2>1, <2>3, <2>4, ExitInvStep DEF passVars
  <2>8. ReconcileInv'
    BY <1>0, <1>8, <2>1, <2>3 DEF ReconcileInv, Claiming, passVars
  <2>9. QED
    BY <2>6, <2>7, <2>8 DEF TradeInv
<1>9. CASE GoneCleared
  BY <1>0, <1>8, <1>9 DEF GoneCleared, BracketDropped, LoopInv, Busy, Places
<1>10. CASE ClaimCleared
  BY <1>0, <1>8, <1>10 DEF ClaimCleared, BracketDropped, LoopInv, Busy, Places
<1>11. CASE GoneDeleted
  <2>1. /\ at["reconcile"] = "delete" /\ slot' = [slot EXCEPT ![s] = None]
        /\ UNCHANGED <<leaving, up, net, armed>> /\ Keep(heap)
    BY <1>11 DEF GoneDeleted, runVars, exchangeVars
  <2>2. s \in Strategies /\ net[s] = 0
    BY <1>0, <2>1 DEF LoopInv, Busy, ReconcileInv
  <2>3. OnlyEnds
    BY <1>0, <2>1, <2>2, RemovedEnds
  <2>4. /\ Alone("reconcile") /\ cur'["reconcile"] = Nobody
        /\ \/ at'["reconcile"] = "idle" /\ todo'["reconcile"] = {}
           \/ at'["reconcile"] = "next" /\ UNCHANGED <<todo, seen>>
    <3>1. CASE slot[s] = None
      BY <1>0, <1>11, <2>1, <3>1, AbortRests DEF GoneDeleted
    <3>2. CASE slot[s] # None
      <4>1. Turn("reconcile", "next", Nobody) /\ UNCHANGED <<todo, seen>>
            /\ "next" \in Places /\ Nobody \in Items
        BY <1>11, <3>2 DEF GoneDeleted, Places, Nobody, Items
      <4>2. QED
        BY <1>0, <4>1, TurnFacts DEF Alone
    <3>3. QED
      BY <3>1, <3>2
  <2>5. BookInv' /\ EntryInv'
    BY <2>1, <2>3, <2>4, BookStep, NobodyIsNoPair DEF Holds
  <2>6. ExitInv'
    BY <2>1, <2>3, <2>4, ExitInvStep
  <2>7. \A r \in Strategies : net[r] # 0 => slot'[r] = slot[r]
    BY <2>1, <2>3 DEF OnlyEnds
  <2>8. ReconcileInv'
    BY <1>0, <2>1, <2>2, <2>4, <2>7 DEF ReconcileInv, Claiming
  <2>9. QED
    BY <2>5, <2>6, <2>8 DEF TradeInv
<1>12. QED
  BY <1>1, <1>2, <1>4, <1>5, <1>6, <1>7, <1>9, <1>10, <1>11

\* A new object is nobody's yet.
LEMMA RecordFacts ==
    ASSUME TypeOK, NEW s \in Strategies, NEW side, NEW size, Record(s, side, size)
    PROVE \E p \in Positions :
             /\ slot' = [slot EXCEPT ![s] = p]
             /\ \A r \in Strategies : slot[r] # p
             /\ heap'[p] = [side |-> side, size |-> size, safe |-> FALSE]
             /\ \A r \in Strategies \ {s} : slot[r] # None => heap'[slot[r]] = heap[slot[r]]
<1>1. PICK p \in Positions \ Held :
         /\ slot' = [slot EXCEPT ![s] = p]
         /\ Keep([heap EXCEPT ![p] = [side |-> side, size |-> size, safe |-> FALSE]])
  BY DEF Record
<1> DEFINE objects == [heap EXCEPT ![p] = [side |-> side, size |-> size, safe |-> FALSE]]
<1>2. \A r \in Strategies : slot'[r] = IF r = s THEN p ELSE slot[r]
  BY <1>1 DEF TypeOK
<1>3. \A r \in Strategies : slot[r] # p
  BY <1>1 DEF Held
<1>4. /\ objects[p] = [side |-> side, size |-> size, safe |-> FALSE]
      /\ \A q \in Positions : q # p => objects[q] = heap[q]
  BY <1>1 DEF TypeOK
<1>5. Keep(objects)
  BY <1>1
<1> HIDE DEF objects
<1>6. heap'[p] = objects[p]
  BY <1>1, <1>2, <1>5, KeepHeld
<1>7. ASSUME NEW r \in Strategies \ {s}, slot[r] # None PROVE heap'[slot[r]] = heap[slot[r]]
  <2>1. slot'[r] = slot[r] /\ slot[r] \in Positions
    BY <1>2, <1>7 DEF TypeOK
  <2>2. heap'[slot[r]] = objects[slot[r]]
    BY <1>5, <2>1, KeepHeld
  <2>3. QED
    BY <1>3, <1>4, <2>1, <2>2
<1>8. QED
  BY <1>1, <1>3, <1>4, <1>6, <1>7

\* What no exit and no close is about stays clear of them.
LEMMA ExitInvClaim ==
    ASSUME Apart, Alone("reconcile"), UNCHANGED <<net, leaving>>,
           cur["reconcile"][1] \in Strategies, at["reconcile"] \in Claiming,
           \A s \in Strategies : s # cur["reconcile"][1] \/ net[s] = 0 => armed'[s] = armed[s]
    PROVE ExitInv'
<1>0. TypeOK /\ LoopInv /\ ExitInv /\ RestInv /\ ReconcileInv
  BY DEF Apart, IInv, TradeInv
<1>1. \A u \in {"manage", "kill"} : at'[u] = at[u] /\ cur'[u] = cur[u]
  BY DEF Alone, Threads
<1>2. ASSUME NEW u \in {"manage", "kill"}, at[u] = "close"
      PROVE net[cur[u][1]] = 0 \/ armed'[cur[u][1]] = 0
  <2>1. cur[u][1] \in Strategies /\ (net[cur[u][1]] = 0 \/ armed[cur[u][1]] = 0)
    BY <1>0, <1>2 DEF LoopInv, Pairs, ExitInv
  <2>2. net[cur[u][1]] # 0 => cur["reconcile"][1] # cur[u][1]
    BY <1>0, <1>2, <2>1, NotSeenTo
  <2>3. QED
    BY <2>1, <2>2
<1>3. QED
  BY <1>0, <1>1, <1>2 DEF ExitInv

\* While a live position is adopted nothing else runs, so nothing else has it in hand.
LEMMA NothingElseHolds ==
    ASSUME Apart, at["reconcile"] \in Claiming, NEW s \in Strategies,
           cur["reconcile"][1] = s, net[s] # 0
    PROVE \A u \in Threads \ {"entry"}, x \in Pairs : ~Holds(u, x)
<1>0. TypeOK /\ RestInv /\ ReconcileInv
  BY DEF Apart, IInv, TradeInv
<1>1. ~up
  BY <1>0 DEF ReconcileInv
<1>2. \A u \in {"manage", "kill"} : cur[u] = Nobody /\ todo[u] = {}
  BY <1>0, <1>1 DEF RestInv, Threads
<1>3. cur["reconcile"][2] = None /\ \A x \in todo["reconcile"] : x[2] = None
  BY <1>0 DEF RestInv, DropsDone
<1>4. \A x \in Pairs : x[2] # None
  BY CryptoAssumption DEF Pairs
<1>5. QED
  BY <1>2, <1>3, <1>4, NobodyIsNoPair DEF Holds, Threads

\* Adopting a live position, up to its bracket, and the sizes at the end of the tick.
LEMMA ReconcileAdopts ==
    ASSUME Apart, Claimed \/ ClaimArmed \/ ClaimAttached \/ Resized
    PROVE TradeInv'
<1> "reconcile" \in Threads
  BY DEF Threads
<1> DEFINE s == cur["reconcile"][1]
<1>0. /\ TypeOK /\ LoopInv /\ BookInv /\ ExitInv /\ ReconcileInv /\ RestInv /\ TypeOK'
      /\ RestInv' /\ LoopInv'
      /\ \A r \in Strategies : net[r] \in Int /\ armed[r] \in {-1, 0, 1}
  BY CryptoAssumption DEF Apart, IInv, TradeInv, TypeOK
<1>f. ~Fails
  BY NoFailure DEF Apart
<1>e. EntryInv'
  BY DEF Apart, EntryInv
<1>c. at["reconcile"] \in Claiming => s \in Strategies
  BY <1>0 DEF LoopInv, Claiming, Busy
<1>1. CASE Claimed
  <2>1. /\ at["reconcile"] = "claim" /\ Go("reconcile", "replace") /\ "replace" \in Places
        /\ Record(s, Sign(seen[s]), Abs(seen[s])) /\ s \in Strategies
        /\ UNCHANGED <<cur, todo, passVars, runVars, exchangeVars>>
    BY <1>1, <1>c DEF Claimed, Places, Claiming
  <2>2. Alone("reconcile") /\ at'["reconcile"] = "replace"
    BY <1>0, <2>1, GoAlone, GoFacts
  <2>3. PICK p \in Positions :
             /\ slot' = [slot EXCEPT ![s] = p]
             /\ \A r \in Strategies : slot[r] # p
             /\ heap'[p] = [side |-> Sign(seen[s]), size |-> Abs(seen[s]), safe |-> FALSE]
             /\ \A r \in Strategies \ {s} : slot[r] # None => heap'[slot[r]] = heap[slot[r]]
    BY <1>0, <2>1, RecordFacts
  <2>4. /\ \A r \in Strategies : slot'[r] = IF r = s THEN p ELSE slot[r]
        /\ p # None
    BY <1>0, <2>3, CryptoAssumption DEF TypeOK
  <2>5. \A u \in Threads \ {"entry"}, x \in Pairs :
           Holds(u, x)' /\ net'[x[1]] # 0 => slot'[x[1]] = x[2]
    <3>1. ASSUME NEW u \in Threads \ {"entry"}, NEW x \in Pairs, Holds(u, x)', net'[x[1]] # 0
          PROVE slot'[x[1]] = x[2]
      <4>1. Holds(u, x) /\ net[x[1]] # 0 /\ x[1] \in Strategies
        BY <2>1, <3>1 DEF Holds, exchangeVars, Pairs
      <4>2. x[1] # s
        BY <2>1, <4>1, NothingElseHolds DEF Claiming
      <4>3. QED
        BY <1>0, <2>4, <4>1, <4>2 DEF BookInv
    <3>2. QED
      BY <3>1
  <2>6. ASSUME NEW r \in Strategies, slot'[r] # None, net'[r] # 0
        PROVE /\ OnSide(r)' /\ heap'[slot'[r]].size = Abs(net'[r])
              /\ SeenTo(r)' \/ (armed'[r] = Sign(net'[r]) /\ heap'[slot'[r]].safe)
    <3>1. net'[r] = net[r] /\ armed'[r] = armed[r]
      BY <2>1 DEF exchangeVars
    <3>2. CASE r = s
      <4>1. net[s] = seen[s]
        BY <1>0, <2>1, <2>6, <3>1, <3>2 DEF ReconcileInv
      <4>2. SeenTo(s)'
        BY <2>1, <2>2 DEF SeenTo
      <4>3. /\ slot'[r] = p /\ heap'[p].side = Sign(seen[s]) /\ heap'[p].size = Abs(seen[s])
            /\ net'[r] = seen[s]
        BY <2>3, <2>4, <3>1, <3>2, <4>1
      <4>4. OnSide(r)' /\ heap'[slot'[r]].size = Abs(net'[r])
        BY <2>6, <4>3 DEF OnSide
      <4>5. QED
        BY <2>1, <3>2, <4>2, <4>4
    <3>3. CASE r # s
      <4>1. slot'[r] = slot[r] /\ heap'[slot[r]] = heap[slot[r]]
        BY <2>3, <2>4, <2>6, <3>3
      <4>2. SeenTo(r) => SeenTo(r)'
        BY <2>1, <2>2 DEF SeenTo, Alone, Threads
      <4>3. QED
        BY <1>0, <2>6, <3>1, <4>1, <4>2 DEF BookInv, OnSide
    <3>4. QED
      BY <3>2, <3>3
  <2>7. BookInv'
    BY <1>0, <2>1, <2>2, <2>3, <2>4, <2>5, <2>6 DEF BookInv, exchangeVars, runVars, Alone, Threads
  <2>8. ExitInv'
    BY <2>1, <2>2, ExitInvClaim DEF exchangeVars, passVars, Claiming
  <2>9. ReconcileInv'
    BY <1>0, <2>1, <2>2, <2>4 DEF ReconcileInv, Claiming, exchangeVars, passVars, runVars
  <2>10. QED
    BY <1>e, <2>7, <2>8, <2>9 DEF TradeInv
<1>2. CASE ClaimArmed
  <2> DEFINE side == Sign(seen[s])
  <2>1. /\ at["reconcile"] = "arm" /\ Go("reconcile", "attach") /\ "attach" \in Places
        /\ s \in Strategies
        /\ UNCHANGED <<slot, heap, due, runVars, todo, cur, leaving, bet, seen, net>>
    BY <1>2, <1>c DEF ClaimArmed, Armed, Places, Claiming
  <2>2. PICK ok \in BOOLEAN : /\ PlaceBracket(s, side, ok)
                              /\ answer' = [answer EXCEPT !["reconcile"] = ok]
    BY <1>2 DEF ClaimArmed, Armed
  <2>3. Alone("reconcile") /\ at'["reconcile"] = "attach" /\ answer'["reconcile"] = ok
    BY <1>0, <2>1, <2>2, GoAlone, GoFacts DEF TypeOK
  <2>4. net[s] # 0 => side = Sign(net[s]) /\ armed[s] = 0
    BY <1>0, <2>1 DEF ReconcileInv
  <2>5. net[s] = 0 => side # Sign(net[s])
    <3>1. seen[s] # 0 /\ seen[s] \in Int
      BY <1>0, <2>1, CryptoAssumption DEF LoopInv, Claiming, TypeOK
    <3>2. QED
      BY <3>1 DEF Sign
  <2>6. /\ net[s] # 0 => ok /\ armed' = [armed EXCEPT ![s] = side]
        /\ net[s] = 0 => armed' = armed
    BY <1>f, <2>2, <2>4, <2>5 DEF PlaceBracket
  <2>7. \A r \in Strategies : armed'[r] = IF r = s /\ net[s] # 0 THEN Sign(net[s]) ELSE armed[r]
    BY <1>0, <2>1, <2>4, <2>6 DEF TypeOK
  <2>8. ASSUME NEW r \in Strategies, SeenTo(r) PROVE SeenTo(r)'
    BY <2>1, <2>3, <2>8 DEF SeenTo, Alone, Threads
  <2>9. ASSUME NEW r \in Strategies, slot'[r] # None, net'[r] # 0
        PROVE /\ OnSide(r)' /\ heap'[slot'[r]].size = Abs(net'[r])
              /\ SeenTo(r)' \/ (armed'[r] = Sign(net'[r]) /\ heap'[slot'[r]].safe)
    <3>1. /\ OnSide(r) /\ heap[slot[r]].size = Abs(net[r])
          /\ SeenTo(r) \/ (armed[r] = Sign(net[r]) /\ heap[slot[r]].safe)
      BY <1>0, <2>1, <2>9 DEF BookInv
    <3>2. OnSide(r)' /\ heap'[slot'[r]].size = Abs(net'[r])
      BY <2>1, <3>1 DEF OnSide
    <3>3. r = s => SeenTo(r)'
      BY <2>1, <2>3 DEF SeenTo
    <3>4. QED
      BY <2>1, <2>7, <2>8, <3>1, <3>2, <3>3
  <2>10. BookInv'
    <3>1. \A u \in Threads \ {"entry"}, x \in Pairs : Holds(u, x)' /\ net'[x[1]] # 0 => slot'[x[1]] = x[2]
      BY <1>0, <2>1 DEF BookInv, Holds
    <3>2. \A r \in Strategies : armed'[r] \in {0, Sign(net'[r])}
      BY <1>0, <2>1, <2>7 DEF BookInv
    <3>3. QED
      BY <1>0, <2>1, <2>3, <2>9, <3>1, <3>2 DEF BookInv, runVars, Alone, Threads
  <2>11. ExitInv'
    BY <2>1, <2>3, <2>7, ExitInvClaim DEF Claiming
  <2>12. ReconcileInv'
    BY <1>0, <2>1, <2>3, <2>6, <2>7 DEF ReconcileInv, Claiming, runVars
  <2>13. QED
    BY <1>e, <2>10, <2>11, <2>12 DEF TradeInv
<1>3. CASE ClaimAttached
  <2>1. /\ at["reconcile"] = "attach" /\ s \in Strategies
        /\ UNCHANGED <<slot, leaving, runVars, bet, seen, exchangeVars>>
    BY <1>3, <1>c DEF ClaimAttached, Attached, Claiming
  <2>2. net[s] # 0 => slot[s] # None /\ armed[s] = Sign(net[s]) /\ answer["reconcile"]
    BY <1>0, <2>1 DEF ReconcileInv
  <2>3. /\ Alone("reconcile") /\ cur'["reconcile"] = Nobody
        /\ \/ slot[s] = None /\ at'["reconcile"] = "idle" /\ todo'["reconcile"] = {}
           \/ slot[s] # None /\ at'["reconcile"] = "next" /\ UNCHANGED todo
    <3>1. CASE slot[s] = None
      BY <1>0, <1>3, <2>1, <3>1, AbortRests DEF ClaimAttached, Attached, runVars
    <3>2. CASE slot[s] # None
      <4>1. Turn("reconcile", "next", Nobody) /\ UNCHANGED todo
            /\ "next" \in Places /\ Nobody \in Items
        BY <1>3, <3>2 DEF ClaimAttached, Attached, Places, Nobody, Items
      <4>2. QED
        BY <1>0, <3>2, <4>1, TurnFacts DEF Alone
    <3>3. QED
      BY <3>1, <3>2
  <2>4. \A r \in Strategies : slot[r] # None =>
           /\ heap'[slot[r]].side = heap[slot[r]].side /\ heap'[slot[r]].size = heap[slot[r]].size
           /\ heap'[slot[r]].safe = IF r = s THEN answer["reconcile"] ELSE heap[slot[r]].safe
    <3>1. CASE slot[s] = None
      <4>1. Keep(heap)
        BY <1>3, <3>1 DEF ClaimAttached, Attached
      <4>2. QED
        BY <1>0, <2>1, <3>1, <4>1, KeptHeap
    <3>2. CASE slot[s] # None
      <4> DEFINE objects == [heap EXCEPT ![slot[s]].safe = answer["reconcile"]]
      <4>1. Keep(objects)
        BY <1>3, <3>2 DEF ClaimAttached, Attached
      <4>2. slot[s] \in Positions /\ heap \in [Positions -> Objects]
        BY <1>0, <2>1, <3>2 DEF TypeOK
      <4>3. /\ objects[slot[s]] = [heap[slot[s]] EXCEPT !.safe = answer["reconcile"]]
            /\ \A q \in Positions : q # slot[s] => objects[q] = heap[q]
        BY <4>2
      <4> HIDE DEF objects
      <4>4. ASSUME NEW r \in Strategies, slot[r] # None
            PROVE heap'[slot[r]] = IF r = s THEN [heap[slot[s]] EXCEPT !.safe = answer["reconcile"]]
                                            ELSE heap[slot[r]]
        <5>1. slot[r] \in Positions /\ slot'[r] = slot[r]
          BY <1>0, <2>1, <4>4 DEF TypeOK
        <5>2. heap'[slot[r]] = objects[slot[r]]
          BY <4>1, <5>1, KeepHeld
        <5>3. r # s => slot[r] # slot[s]
          BY <1>0, <2>1, <4>4 DEF BookInv
        <5>4. QED
          BY <4>3, <5>1, <5>2, <5>3
      <4>5. QED
        BY <4>2, <4>4 DEF Objects
    <3>3. QED
      BY <3>1, <3>2
  <2>5. ASSUME NEW r \in Strategies, slot'[r] # None, net'[r] # 0
        PROVE /\ OnSide(r)' /\ heap'[slot'[r]].size = Abs(net'[r])
              /\ SeenTo(r)' \/ (armed'[r] = Sign(net'[r]) /\ heap'[slot'[r]].safe)
    <3>1. /\ OnSide(r) /\ heap[slot[r]].size = Abs(net[r])
          /\ SeenTo(r) \/ (armed[r] = Sign(net[r]) /\ heap[slot[r]].safe)
      BY <1>0, <2>1, <2>5 DEF BookInv, exchangeVars
    <3>2. OnSide(r)' /\ heap'[slot'[r]].size = Abs(net'[r])
      BY <2>1, <2>4, <2>5, <3>1 DEF OnSide, exchangeVars
    <3>3. r = s => armed'[r] = Sign(net'[r]) /\ heap'[slot'[r]].safe
      BY <2>1, <2>2, <2>4, <2>5 DEF exchangeVars
    <3>4. r # s /\ SeenTo(r) => SeenTo(r)'
      BY <2>3 DEF SeenTo, Alone, Threads
    <3>5. QED
      BY <2>1, <2>4, <2>5, <3>1, <3>2, <3>3, <3>4 DEF exchangeVars
  <2>6. BookInv'
    <3>1. \A u \in Threads \ {"entry"}, x \in Pairs : Holds(u, x)' /\ net'[x[1]] # 0 => slot'[x[1]] = x[2]
      BY <1>0, <2>1, <2>3, NobodyIsNoPair DEF BookInv, Holds, Alone, exchangeVars
    <3>2. QED
      BY <1>0, <2>1, <2>3, <2>5, <3>1 DEF BookInv, runVars, exchangeVars, Alone, Threads
  <2>7. ExitInv'
    BY <2>1, <2>3, ExitInvClaim DEF Claiming, exchangeVars
  <2>8. ReconcileInv'
    BY <1>0, <2>1, <2>2, <2>3 DEF ReconcileInv, Claiming, exchangeVars
  <2>9. QED
    BY <1>e, <2>6, <2>7, <2>8 DEF TradeInv
<1>4. CASE Resized
  <2>1. /\ at["reconcile"] = "next" /\ todo["reconcile"] = {} /\ Go("reconcile", "idle")
        /\ UNCHANGED <<slot, todo, cur, leaving, net, armed>> /\ "idle" \in Places
    BY <1>4 DEF Resized, exchangeVars, Places
  <2>2. Alone("reconcile") /\ at'["reconcile"] = "idle"
    BY <1>0, <2>1, GoAlone, GoFacts
  <2>3. \A r \in Strategies : slot[r] # None \/ net[r] = 0
    BY <1>0, <2>1 DEF ReconcileInv, Claiming
  <2>4. ASSUME NEW r \in Strategies, slot[r] # None, net[r] # 0 PROVE heap'[slot[r]] = heap[slot[r]]
    <3>1. slot[r] \in Positions /\ heap \in [Positions -> Objects]
      BY <1>0, <2>4 DEF TypeOK
    <3>2. OnSide(r) /\ heap[slot[r]].size = Abs(net[r]) /\ net[r] = seen[r]
      BY <1>0, <2>1, <2>4 DEF BookInv, ReconcileInv
    <3>3. Confirmed(r, slot[r]) /\ \A q \in Strategies : Confirmed(q, slot[r]) => q = r
      BY <1>0, <2>4, <3>2 DEF Confirmed, SeenOn, OnSide, BookInv
    <3>4. (CHOOSE q \in Strategies : Confirmed(q, slot[r])) = r
      BY <3>3
    <3>5. heap'[slot[r]] = [heap[slot[r]] EXCEPT !.size =
                               Abs(seen[CHOOSE q \in Strategies : Confirmed(q, slot[r])])]
      BY <1>4, <3>1, <3>3 DEF Resized
    <3>6. heap'[slot[r]] = [heap[slot[r]] EXCEPT !.size = heap[slot[r]].size]
      BY <3>2, <3>4, <3>5
    <3>7. heap[slot[r]] \in Objects
      BY <3>1
    <3>8. QED
      BY <3>6, <3>7 DEF Objects
  <2>5. ASSUME NEW r \in Strategies, slot'[r] # None, net'[r] # 0
        PROVE /\ OnSide(r)' /\ heap'[slot'[r]].size = Abs(net'[r])
              /\ SeenTo(r)' \/ (armed'[r] = Sign(net'[r]) /\ heap'[slot'[r]].safe)
    <3>1. /\ OnSide(r) /\ heap[slot[r]].size = Abs(net[r])
          /\ SeenTo(r) \/ (armed[r] = Sign(net[r]) /\ heap[slot[r]].safe)
      BY <1>0, <2>1, <2>5 DEF BookInv
    <3>2. SeenTo(r) => SeenTo(r)'
      BY <2>1, <2>2 DEF SeenTo, Alone, Threads
    <3>3. heap'[slot'[r]] = heap[slot[r]]
      BY <2>1, <2>4, <2>5
    <3>4. QED
      BY <2>1, <2>5, <3>1, <3>2, <3>3 DEF OnSide
  <2>6. BookInv'
    <3>1. \A u \in Threads \ {"entry"}, x \in Pairs : Holds(u, x)' /\ net'[x[1]] # 0 => slot'[x[1]] = x[2]
      BY <1>0, <2>1 DEF BookInv, Holds
    <3>2. QED
      BY <1>0, <2>1, <2>2, <2>3, <2>5, <3>1 DEF BookInv
  <2>7. ExitInv'
    BY <1>0, <2>1, <2>2 DEF ExitInv, Alone, Threads
  <2>8. ReconcileInv'
    BY <2>2 DEF ReconcileInv, Claiming
  <2>9. QED
    BY <1>e, <2>6, <2>7, <2>8 DEF TradeInv
<1>5. QED
  BY <1>1, <1>2, <1>3, <1>4

LEMMA ReconcileTrades == ASSUME Apart, Reconcile PROVE TradeInv'
  BY ReconcileMoves, ReconcileAdopts DEF Reconcile

\* Everything that is assumed of a step of the entry tick: it runs alone.
EntryApart ==
    /\ IInv /\ IInv' /\ RestInv /\ RestInv' /\ TradeInv
    /\ faults = 0 /\ faults' = 0
    /\ \A t \in Threads \ {"entry"} : at[t] = "idle" /\ at'[t] = "idle"

\* While the entry tick is alone there are no exits, and nothing is reconciled or in hand.
LEMMA EntryQuiet ==
    ASSUME EntryApart
    PROVE /\ \A u \in Threads \ {"entry"}, x \in Pairs : ~Holds(u, x)'
          /\ ExitInv' /\ ReconcileInv'
          /\ \A s \in Strategies : SeenTo(s) => at["entry"] \in {"arm", "attach"} /\ cur["entry"][1] = s
<1>0. RestInv /\ RestInv' /\ LoopInv
  BY DEF EntryApart, IInv
<1>1. \A u \in Threads \ {"entry"} : cur'[u] = Nobody /\ todo'[u] = {}
  BY <1>0 DEF EntryApart, RestInv
<1>2. leaving' = {}
  BY <1>0 DEF EntryApart, RestInv, Threads
<1>3. ExitInv' /\ ReconcileInv'
  BY <1>2 DEF EntryApart, ExitInv, ReconcileInv, Threads, Claiming
<1>4. \A s \in Strategies : SeenTo(s) => at["entry"] \in {"arm", "attach"} /\ cur["entry"][1] = s
  BY <1>0 DEF EntryApart, SeenTo, Threads, LoopInv
<1>5. QED
  BY <1>1, <1>3, <1>4, NobodyIsNoPair DEF Holds

\* The invariant after a step of the entry tick on strategy s.
LEMMA EntryStep ==
    ASSUME EntryApart, up, NEW s \in Strategies,
           \A r \in Strategies \ {s} :
              /\ net'[r] = net[r] /\ armed'[r] = armed[r] /\ slot'[r] = slot[r]
              /\ slot[r] # None => heap'[slot[r]] = heap[slot[r]] /\ slot'[s] # slot[r],
           cur["entry"][1] = s \/ at["entry"] \notin {"record", "arm", "attach"},
           armed'[s] \in {0, Sign(net'[s])},
           slot'[s] # None /\ net'[s] # 0 =>
              /\ OnSide(s)' /\ heap'[slot'[s]].size = Abs(net'[s])
              /\ SeenTo(s)' \/ (armed'[s] = Sign(net'[s]) /\ heap'[slot'[s]].safe),
           slot'[s] = None /\ net'[s] # 0 => at'["entry"] = "record" /\ cur'["entry"][1] = s,
           EntryInv'
    PROVE TradeInv'
<1>0. TypeOK /\ BookInv /\ TypeOK'
  BY DEF EntryApart, IInv, TradeInv
<1>1. ASSUME NEW r \in Strategies, r # s
      PROVE /\ armed'[r] \in {0, Sign(net'[r])}
            /\ slot'[r] # None /\ net'[r] # 0 =>
                  /\ OnSide(r)' /\ heap'[slot'[r]].size = Abs(net'[r])
                  /\ SeenTo(r)' \/ (armed'[r] = Sign(net'[r]) /\ heap'[slot'[r]].safe)
            /\ ~(slot'[r] = None /\ net'[r] # 0)
  <2>1. ~SeenTo(r)
    BY <1>1, EntryQuiet
  <2>2. /\ net'[r] = net[r] /\ armed'[r] = armed[r] /\ slot'[r] = slot[r]
        /\ slot[r] # None => heap'[slot[r]] = heap[slot[r]]
    BY <1>1
  <2>3. armed'[r] \in {0, Sign(net'[r])}
    BY <1>0, <2>2 DEF BookInv
  <2>4. ~(slot'[r] = None /\ net'[r] # 0)
    BY <1>0, <1>1, <2>2 DEF BookInv
  <2>5. ASSUME slot'[r] # None, net'[r] # 0
        PROVE OnSide(r)' /\ heap'[slot'[r]].size = Abs(net'[r])
              /\ armed'[r] = Sign(net'[r]) /\ heap'[slot'[r]].safe
    BY <1>0, <2>1, <2>2, <2>5 DEF BookInv, OnSide
  <2>6. QED
    BY <2>3, <2>4, <2>5
<1>2. \A r, q \in Strategies : slot'[r] = slot'[q] /\ slot'[r] # None => r = q
  <2>1. \A r, q \in Strategies \ {s} : slot'[r] = slot'[q] /\ slot'[r] # None => r = q
    BY <1>0 DEF BookInv
  <2>2. \A r \in Strategies \ {s} : slot'[r] # None => slot'[s] # slot'[r]
    OBVIOUS
  <2>3. QED
    BY <2>1, <2>2
<1>3. BookInv'
  BY <1>1, <1>2, EntryQuiet DEF BookInv
<1>4. QED
  BY <1>3, EntryQuiet DEF TradeInv

LEMMA EntryTrades == ASSUME EntryApart, Entry PROVE TradeInv'
<1> "entry" \in Threads
  BY DEF Threads
<1> DEFINE s == cur["entry"][1]
<1>0. /\ TypeOK /\ LoopInv /\ BookInv /\ EntryInv /\ RestInv /\ TypeOK' /\ RestInv' /\ LoopInv'
      /\ slot \in [Strategies -> Positions \cup {None}]
      /\ net \in [Strategies -> -MaxNet .. MaxNet] /\ armed \in [Strategies -> {-1, 0, 1}]
      /\ bet \in {1, -1}
  BY DEF EntryApart, IInv, TradeInv, TypeOK
<1>f. ~Fails
  BY NoFailure DEF EntryApart
<1>u. at["entry"] # "idle" => up
  BY <1>0 DEF RestInv
<1>b. at["entry"] \in Busy => s \in Strategies
  BY <1>0 DEF LoopInv
<1>z. \A r \in Strategies : net[r] = 0 => armed[r] = 0
  BY <1>0 DEF BookInv, Sign
\* Steps that touch no position.
<1>1. ASSUME UNCHANGED <<slot, heap, net, armed, up>>, at["entry"] \in {"idle", "next", "order"},
             at'["entry"] \notin {"record", "arm", "attach"}, EntryInv'
      PROVE  TradeInv'
  <2>1. \A r \in Strategies : ~SeenTo(r)
    BY <1>1, EntryQuiet
  <2>2. ASSUME NEW r \in Strategies, slot'[r] # None, net'[r] # 0
        PROVE OnSide(r)' /\ heap'[slot'[r]].size = Abs(net'[r])
              /\ armed'[r] = Sign(net'[r]) /\ heap'[slot'[r]].safe
    BY <1>0, <1>1, <2>1, <2>2 DEF BookInv, OnSide
  <2>3. BookInv'
    BY <1>0, <1>1, <2>2, EntryQuiet DEF BookInv
  <2>4. QED
    BY <1>1, <2>3, EntryQuiet DEF TradeInv
<1>2. ASSUME NEW loss \in BOOLEAN, StartEntries(loss) PROVE TradeInv'
  <2>1. at'["entry"] \in {"idle", "next"} /\ at["entry"] = "idle"
    <3>1. CASE UNCHANGED <<at, todo>>
      BY <1>2, <3>1 DEF StartEntries
    <3>2. CASE Start("entry", {<<r, None>> : r \in Strategies})
      BY <1>0, <1>2, <3>2 DEF StartEntries, Start, Go, TypeOK
    <3>3. QED
      BY <1>2, <3>1, <3>2 DEF StartEntries
  <2>2. EntryInv'
    BY <2>1 DEF EntryInv
  <2>3. QED
    BY <1>1, <1>2, <2>1, <2>2 DEF StartEntries, exchangeVars
<1>3. ASSUME NEW r \in Strategies, PassOver(r) PROVE TradeInv'
  <2>1. at["entry"] = "next" /\ at'["entry"] \in {"next", "idle"}
    BY <1>0, <1>3, SkipFacts, AgainFacts DEF PassOver, Skip
  <2>2. EntryInv'
    BY <2>1 DEF EntryInv
  <2>3. QED
    BY <1>1, <1>3, <2>1, <2>2 DEF PassOver, runVars, exchangeVars
<1>4. ASSUME NEW r \in Strategies, NEW d \in Sides, Decide(r, d) PROVE TradeInv'
  <2>1. /\ at["entry"] = "next" /\ at'["entry"] = "order" /\ cur'["entry"] = <<r, None>>
        /\ slot[r] = None /\ UNCHANGED <<slot, heap, net, armed, up>>
    BY <1>0, <1>4, TakeFacts DEF Decide, Places, exchangeVars
  <2>2. net[r] = 0
    BY <1>0, <1>u, <2>1 DEF BookInv
  <2>3. EntryInv'
    BY <2>1, <2>2 DEF EntryInv
  <2>4. QED
    BY <1>1, <2>1, <2>3
<1>5. CASE EntryOrdered
  <2>1. /\ at["entry"] = "order" /\ UNCHANGED <<todo, slot, heap, due, runVars, passVars, armed>>
        /\ s \in Strategies /\ slot[s] = None /\ net[s] = 0 /\ up /\ armed[s] = 0
    BY <1>0, <1>5, <1>b, <1>u, <1>z DEF EntryOrdered, EntryInv, Busy
  <2>2. \/ Fill(s, bet, 1) /\ Go("entry", "record") /\ UNCHANGED cur
        \/ UNCHANGED net /\ Again("entry")
    BY <1>f, <1>5 DEF EntryOrdered, Attempts
  <2>3. CASE UNCHANGED net /\ Again("entry")
    <3>1. at'["entry"] \in {"next", "idle"}
      BY <1>0, <2>3, AgainFacts
    <3>2. EntryInv'
      BY <3>1 DEF EntryInv
    <3>3. QED
      BY <1>1, <2>1, <2>3, <3>1, <3>2 DEF runVars
  <2>4. CASE Fill(s, bet, 1) /\ Go("entry", "record") /\ UNCHANGED cur
    <3>1. at'["entry"] = "record" /\ cur' = cur
      BY <1>0, <2>4, GoFacts DEF Places
    <3>2. net' = [net EXCEPT ![s] = bet]
      <4>1. bet * 1 = bet /\ 0 + bet = bet
        BY <1>0
      <4>2. QED
        BY <1>0, <2>1, <2>4, <4>1 DEF Fill
    <3>3. \A r \in Strategies : net'[r] = IF r = s THEN bet ELSE net[r]
      BY <1>0, <3>2
    <3>4. EntryInv'
      BY <2>1, <3>1, <3>3 DEF EntryInv, passVars
    <3>5. QED
      BY <2>1, <3>1, <3>3, <3>4, EntryStep
  <2>5. QED
    BY <2>2, <2>3, <2>4
<1>6. CASE EntryRecorded
  <2>1. /\ at["entry"] = "record" /\ Go("entry", "arm") /\ "arm" \in Places
        /\ Record(s, bet, 1) /\ s \in Strategies
        /\ UNCHANGED <<cur, todo, passVars, runVars, exchangeVars>>
        /\ up /\ net[s] = bet /\ armed[s] = 0
    BY <1>0, <1>6, <1>b, <1>u DEF EntryRecorded, Places, EntryInv, Busy
  <2>2. at'["entry"] = "arm" /\ cur' = cur
    BY <1>0, <2>1, GoFacts
  <2>3. PICK p \in Positions :
             /\ slot' = [slot EXCEPT ![s] = p]
             /\ \A r \in Strategies : slot[r] # p
             /\ heap'[p] = [side |-> bet, size |-> 1, safe |-> FALSE]
             /\ \A r \in Strategies \ {s} : slot[r] # None => heap'[slot[r]] = heap[slot[r]]
    BY <1>0, <2>1, RecordFacts
  <2>4. /\ \A r \in Strategies : slot'[r] = IF r = s THEN p ELSE slot[r]
        /\ p # None
    BY <1>0, <2>3, CryptoAssumption
  <2>5. UNCHANGED <<net, armed, bet>>
    BY <2>1 DEF exchangeVars, passVars
  <2>6. OnSide(s)' /\ heap'[slot'[s]].size = Abs(net'[s]) /\ SeenTo(s)'
    <3>1. heap'[p].side = bet /\ heap'[p].size = 1 /\ slot'[s] = p /\ net'[s] = bet
      BY <2>1, <2>3, <2>4, <2>5
    <3>2. Sign(bet) = bet /\ Abs(bet) = 1
      BY <1>0 DEF Sign, Abs
    <3>3. QED
      BY <2>1, <2>2, <2>4, <3>1, <3>2 DEF OnSide, SeenTo
  <2>7. EntryInv'
    BY <2>1, <2>2, <2>4, <2>5 DEF EntryInv
  <2>8. QED
    BY <2>1, <2>2, <2>3, <2>4, <2>5, <2>6, <2>7, EntryStep
<1>7. CASE EntryArmed
  <2>1. /\ at["entry"] = "arm" /\ Go("entry", "attach") /\ "attach" \in Places
        /\ UNCHANGED <<slot, heap, due, runVars, todo, cur, leaving, bet, seen, net>>
        /\ s \in Strategies /\ up /\ slot[s] # None /\ net[s] = bet /\ armed[s] = 0
    BY <1>0, <1>7, <1>b, <1>u DEF EntryArmed, Armed, Places, EntryInv, Busy
  <2>2. PICK ok \in BOOLEAN : /\ PlaceBracket(s, bet, ok)
                              /\ answer' = [answer EXCEPT !["entry"] = ok]
    BY <1>7 DEF EntryArmed, Armed
  <2>3. at'["entry"] = "attach" /\ cur' = cur /\ answer'["entry"] = ok
    BY <1>0, <2>1, <2>2, GoFacts DEF TypeOK
  <2>4. Sign(net[s]) = bet
    BY <1>0, <2>1 DEF Sign
  <2>5. ok /\ armed' = [armed EXCEPT ![s] = bet]
    BY <1>f, <2>1, <2>2, <2>4 DEF PlaceBracket
  <2>6. \A r \in Strategies : armed'[r] = IF r = s THEN bet ELSE armed[r]
    BY <1>0, <2>5
  <2>7. OnSide(s)' /\ heap'[slot'[s]].size = Abs(net'[s]) /\ SeenTo(s)'
    <3>1. OnSide(s) /\ heap[slot[s]].size = Abs(net[s])
      BY <1>0, <2>1 DEF BookInv
    <3>2. QED
      BY <2>1, <2>3, <3>1 DEF OnSide, SeenTo
  <2>8. EntryInv'
    BY <2>1, <2>3, <2>4, <2>5, <2>6 DEF EntryInv
  <2>9. \A r \in Strategies \ {s} : slot[r] # None => slot'[s] # slot[r]
    BY <1>0, <2>1 DEF BookInv
  <2>10. QED
    BY <2>1, <2>3, <2>4, <2>6, <2>7, <2>8, <2>9, EntryStep
<1>8. CASE EntryAttached
  <2>0. at["entry"] = "attach" /\ \E k \in Strategies : k = s
    BY <1>8, <1>b DEF EntryAttached, Attached, Busy
  <2> PICK k \in Strategies : k = s
    BY <2>0
  <2>1. /\ at["entry"] = "attach" /\ k = s /\ up /\ slot[k] # None
        /\ UNCHANGED <<slot, leaving, runVars, bet, seen, exchangeVars>>
        /\ net[k] # 0 => armed[k] = Sign(net[k]) /\ answer["entry"]
    BY <1>0, <1>8, <1>b, <1>u, <2>0 DEF EntryAttached, Attached, EntryInv, Busy
  <2> DEFINE objects == [heap EXCEPT ![slot[k]].safe = answer["entry"]]
  <2>2. Again("entry") /\ UNCHANGED todo /\ Keep(objects)
    BY <1>8, <2>1 DEF EntryAttached, Attached
  <2>3. slot[k] \in Positions /\ heap \in [Positions -> Objects]
    BY <1>0, <2>1 DEF TypeOK
  <2>4. /\ objects[slot[k]] = [heap[slot[k]] EXCEPT !.safe = answer["entry"]]
        /\ \A q \in Positions : q # slot[k] => objects[q] = heap[q]
    BY <2>3
  <2> HIDE DEF objects
  <2>5. at'["entry"] \in {"next", "idle"}
    BY <1>0, <2>2, AgainFacts
  <2>6. ASSUME NEW r \in Strategies, slot[r] # None PROVE heap'[slot[r]] = objects[slot[r]]
    <3>1. slot'[r] = slot[r] /\ slot[r] \in Positions
      BY <1>0, <2>1, <2>6
    <3>2. QED
      BY <2>2, <3>1, KeepHeld
  <2>7. \A r \in Strategies \ {k} : slot[r] # None => slot'[k] # slot[r] /\ heap'[slot[r]] = heap[slot[r]]
    <3>1. \A r \in Strategies \ {k} : slot[r] # None => slot[k] # slot[r] /\ slot[r] \in Positions
      BY <1>0, <2>1 DEF BookInv
    <3>2. QED
      BY <2>1, <2>4, <2>6, <3>1
  <2>8. net[k] # 0 => /\ OnSide(k)' /\ heap'[slot'[k]].size = Abs(net'[k])
                      /\ armed'[k] = Sign(net'[k]) /\ heap'[slot'[k]].safe
    <3>1. SUFFICES ASSUME net[k] # 0
                   PROVE /\ OnSide(k)' /\ heap'[slot'[k]].size = Abs(net'[k])
                         /\ armed'[k] = Sign(net'[k]) /\ heap'[slot'[k]].safe
      OBVIOUS
    <3>2. OnSide(k) /\ heap[slot[k]].size = Abs(net[k])
      BY <1>0, <2>1, <3>1 DEF BookInv
    <3>3. /\ heap'[slot[k]].side = heap[slot[k]].side /\ heap'[slot[k]].size = heap[slot[k]].size
          /\ heap'[slot[k]].safe = answer["entry"]
      BY <2>1, <2>3, <2>4, <2>6 DEF Objects
    <3>4. QED
      BY <2>1, <3>1, <3>2, <3>3 DEF OnSide, exchangeVars
  <2>9. EntryInv'
    BY <2>5 DEF EntryInv
  <2>10. armed'[k] \in {0, Sign(net'[k])}
    BY <1>0, <2>1 DEF BookInv, exchangeVars
  <2>11. QED
    BY <2>1, <2>7, <2>8, <2>9, <2>10, EntryStep DEF exchangeVars
<1>9. QED
  BY <1>2, <1>3, <1>4, <1>5, <1>6, <1>7, <1>8 DEF Entry

\* The entry tick leaves the other threads where they are.
LEMMA OthersUntouched ==
    ASSUME IInv, Entry
    PROVE \A u \in Threads \ {"entry"} : at'[u] = at[u]
<1>0. "entry" \in Threads /\ at \in [Threads -> Places]
  BY DEF IInv, TypeOK, Threads
<1>1. \A place : Go("entry", place) => \A u \in Threads \ {"entry"} : at'[u] = at[u]
  BY <1>0 DEF Go
<1>2. \A place, x : Turn("entry", place, x) => \A u \in Threads \ {"entry"} : at'[u] = at[u]
  BY <1>1 DEF Turn
<1>3. Again("entry") => \A u \in Threads \ {"entry"} : at'[u] = at[u]
  BY <1>2 DEF Again
<1>4. QED
  BY <1>1, <1>2, <1>3 DEF Entry, StartEntries, Start, PassOver, Skip, Decide, Take, EntryOrdered,
     EntryRecorded, EntryArmed, EntryAttached, Armed, Attached, Abort

\* Failures are only ever counted.
LEMMA FaultsStay ==
    ASSUME IInv, [Next]_vars, faults' = 0
    PROVE faults = 0
<1>1. faults' = faults \/ Fails => faults = 0
  BY CryptoAssumption DEF IInv, TypeOK, Fails
<1>2. ASSUME NEW t \in {"manage", "kill"},
             \/ \E x \in Pairs : Exit(t, x)
             \/ ExitCancelled(t) \/ ExitRefused(t) \/ ExitFilled(t)
      PROVE  faults' = faults \/ Fails
  BY <1>2 DEF Exit, ExitCancelled, BracketDropped, CancelBracket, ExitRefused, ExitFilled, exchangeVars
<1>3. CASE Entry
  BY <1>1, <1>3 DEF Entry, StartEntries, PassOver, Decide, EntryOrdered, Attempts, EntryRecorded,
     EntryArmed, EntryAttached, Armed, PlaceBracket, Attached, exchangeVars
<1>4. CASE Manage
  BY <1>1, <1>2, <1>4 DEF Manage, StartManage, Hold, Removed, exchangeVars
<1>5. CASE Stop
  BY <1>1, <1>2, <1>5 DEF Stop, Kill, KillRemoved, exchangeVars
<1>6. CASE Reconcile
  BY <1>1, <1>6 DEF Reconcile, ReadExchange, ListBook, Agrees, IsGone, GoneCleared, GoneDeleted,
     IsTracked, IsUntracked, Claimed, ClaimCleared, ClaimArmed, ClaimAttached, Resized,
     BracketDropped, CancelBracket, Armed, PlaceBracket, Attached, exchangeVars
<1>7. CASE Environment
  BY <1>1, <1>7 DEF Environment, BracketFires, Ages, Restart, exchangeVars
<1>8. CASE UNCHANGED vars
  BY <1>1, <1>8 DEF vars
<1>9. QED
  BY <1>3, <1>4, <1>5, <1>6, <1>7, <1>8 DEF Next

\* A step that changes nothing the invariant is about.
LEMMA QuietTrades ==
    ASSUME TradeInv,
           UNCHANGED <<slot, heap, up, at, todo, cur, leaving, bet, answer, seen, net, armed>>
    PROVE TradeInv'
<1>1. BookInv'
  BY DEF TradeInv, BookInv, Holds, OnSide, SeenTo
<1>2. ExitInv' /\ ReconcileInv' /\ EntryInv'
  BY DEF TradeInv, ExitInv, ReconcileInv, EntryInv
<1>3. QED
  BY <1>1, <1>2 DEF TradeInv

\* A loop over nothing is no step.
LEMMA EmptyLoop ==
    ASSUME TypeOK, RestInv, NEW t \in Threads, at[t] = "idle", Start(t, {})
    PROVE UNCHANGED <<at, todo>>
<1>1. at' = [at EXCEPT ![t] = "idle"] /\ todo' = [todo EXCEPT ![t] = {}]
  BY DEF Start, Go
<1>2. todo[t] = {}
  BY DEF RestInv
<1>3. QED
  BY <1>1, <1>2 DEF TypeOK

\* A bracket that fires ends the position it protects.
LEMMA FiredTrades ==
    ASSUME IInv, IInv', TradeInv, faults = 0, faults' = 0, NEW s \in Strategies, BracketFires(s)
    PROVE TradeInv'
<1>0. /\ TypeOK /\ LoopInv /\ BookInv /\ ExitInv /\ ReconcileInv /\ EntryInv
      /\ net \in [Strategies -> -MaxNet .. MaxNet] /\ armed \in [Strategies -> {-1, 0, 1}]
  BY DEF IInv, TypeOK, TradeInv
<1>1. /\ armed[s] # 0 /\ Sign(net[s]) = armed[s] /\ Fill(s, -armed[s], Abs(net[s]))
      /\ armed' = [armed EXCEPT ![s] = 0]
      /\ UNCHANGED <<slot, heap, due, runVars, todo, at, cur, passVars>>
  BY NoFailure DEF BracketFires
<1>2. net[s] # 0 /\ net' = [net EXCEPT ![s] = 0]
  <2>1. net[s] \in Int /\ armed[s] \in {-1, 0, 1}
    BY <1>0, CryptoAssumption
  <2>2. net[s] # 0 /\ net[s] + (-armed[s]) * Abs(net[s]) = 0
    BY <1>1, <2>1 DEF Sign, Abs
  <2>3. QED
    BY <1>1, <2>2 DEF Fill
<1>3. \A r \in Strategies : /\ net'[r] = IF r = s THEN 0 ELSE net[r]
                            /\ armed'[r] = IF r = s THEN 0 ELSE armed[r]
  BY <1>0, <1>1, <1>2
<1>4. UNCHANGED <<slot, heap, up, todo, at, cur, leaving, bet, answer, seen>>
  BY <1>1 DEF runVars, passVars
<1>5. BookInv'
  <2>1. ASSUME NEW r \in Strategies, slot'[r] # None, net'[r] # 0
        PROVE /\ OnSide(r)' /\ heap'[slot'[r]].size = Abs(net'[r])
              /\ SeenTo(r)' \/ (armed'[r] = Sign(net'[r]) /\ heap'[slot'[r]].safe)
    <3>1. r # s /\ net'[r] = net[r] /\ armed'[r] = armed[r]
      BY <1>3, <2>1
    <3>2. /\ OnSide(r) /\ heap[slot[r]].size = Abs(net[r])
          /\ SeenTo(r) \/ (armed[r] = Sign(net[r]) /\ heap[slot[r]].safe)
      BY <1>0, <1>4, <2>1, <3>1 DEF BookInv
    <3>3. QED
      BY <1>4, <3>1, <3>2 DEF OnSide, SeenTo
  <2>2. \A r \in Strategies : armed'[r] \in {0, Sign(net'[r])}
    BY <1>0, <1>3 DEF BookInv
  <2>3. \A u \in Threads \ {"entry"}, x \in Pairs : Holds(u, x)' /\ net'[x[1]] # 0 => slot'[x[1]] = x[2]
    <3>1. \A x \in Pairs : x[1] \in Strategies
      BY DEF Pairs
    <3>2. QED
      BY <1>0, <1>3, <1>4, <3>1 DEF BookInv, Holds
  <2>4. QED
    BY <1>0, <1>3, <1>4, <2>1, <2>2, <2>3 DEF BookInv
<1>6. ExitInv'
  <2>1. \A t \in {"manage", "kill"} : at[t] = "close" => cur[t][1] \in Strategies
    BY <1>0 DEF LoopInv, Pairs
  <2>2. at["kill"] = "remove" => cur["kill"][1] \in Strategies
    BY <1>0 DEF LoopInv, Pairs
  <2>3. \A x \in leaving : x[1] \in Strategies
    BY <1>0 DEF TypeOK, Pairs
  <2>4. QED
    BY <1>0, <1>3, <1>4, <2>1, <2>2, <2>3 DEF ExitInv
<1>7. ReconcileInv'
  <2>1. at["reconcile"] \in Busy => cur["reconcile"][1] \in Strategies
    BY <1>0 DEF LoopInv, Threads
  <2>2. QED
    BY <1>0, <1>3, <1>4, <2>1 DEF ReconcileInv, Claiming, Busy
<1>8. EntryInv'
  <2>1. at["entry"] \in Busy => cur["entry"][1] \in Strategies
    BY <1>0 DEF LoopInv, Threads
  <2>2. QED
    BY <1>0, <1>1, <1>2, <1>3, <1>4, <2>1 DEF EntryInv, Busy
<1>9. QED
  BY <1>5, <1>6, <1>7, <1>8 DEF TradeInv

\* A restart finds nothing in memory, and what is live to be adopted before anything else.
LEMMA RestartTrades == ASSUME IInv, TradeInv, Restart PROVE TradeInv'
<1>1. /\ slot' = [s \in Strategies |-> None] /\ at' = [t \in Threads |-> "idle"]
      /\ todo' = [t \in Threads |-> {}] /\ cur' = [t \in Threads |-> Nobody]
      /\ leaving' = {} /\ ~up' /\ UNCHANGED <<net, armed>>
  BY DEF Restart, exchangeVars
<1>2. BookInv'
  BY <1>1, NobodyIsNoPair DEF TradeInv, BookInv, Holds
<1>3. ExitInv' /\ ReconcileInv' /\ EntryInv'
  BY <1>1 DEF ExitInv, ReconcileInv, EntryInv, Threads, Claiming
<1>4. QED
  BY <1>2, <1>3 DEF TradeInv

\* As long as no entry tick overlaps another thread the invariant is inductive.
LEMMA ApartStep ==
    ASSUME IInv, IInv', ApartInv, RestInv', EntryAlone, EntryAlone', [Next]_vars
    PROVE ApartInv'
<1>0. RestInv /\ TypeOK /\ LoopInv
  BY DEF ApartInv, IInv
<1> SUFFICES ASSUME faults' = 0 PROVE TradeInv'
  BY DEF ApartInv
<1>1. faults = 0 /\ TradeInv
  BY FaultsStay DEF ApartInv
<1>f. ~Fails
  BY <1>1, NoFailure
<1>t. "manage" \in Threads \ {"entry"} /\ "kill" \in Threads \ {"entry"}
      /\ "reconcile" \in Threads \ {"entry"}
  BY DEF Threads
<1>2. ASSUME Manage \/ Stop \/ Reconcile,
             \E t \in Threads \ {"entry"} : at[t] # "idle" \/ at'[t] # "idle"
      PROVE  TradeInv'
  <2>1. at["entry"] = "idle" /\ at'["entry"] = "idle"
    BY <1>2, EntryUntouched DEF EntryAlone
  <2>2. Apart
    BY <1>0, <1>1, <2>1 DEF Apart
  <2>3. QED
    BY <1>2, <2>2, ManageTrades, StopTrades, ReconcileTrades
<1>3. CASE Manage
  <2>1. at["manage"] # "idle" \/ at'["manage"] # "idle"
    <3>1. CASE StartManage
      BY <1>0, <1>t, <3>1 DEF StartManage, Start, Go, TypeOK
    <3>2. QED
      BY <1>3, <3>1 DEF Manage, Hold, Skip, Exit, Take, Removed, ExitCancelled, BracketDropped,
         ExitRefused, ExitFilled
  <2>2. QED
    BY <1>2, <1>3, <1>t, <2>1
<1>4. CASE Stop
  <2>1. CASE Kill /\ Book = {}
    <3>1. UNCHANGED <<at, todo>>
      BY <1>0, <1>t, <2>1, EmptyLoop DEF Kill
    <3>2. QED
      BY <1>1, <2>1, <3>1, QuietTrades DEF Kill, passVars, exchangeVars
  <2>2. CASE Kill /\ Book # {}
    <3>1. at'["kill"] # "idle"
      BY <1>0, <1>t, <2>2 DEF Kill, Start, Go, TypeOK
    <3>2. QED
      BY <1>2, <1>4, <1>t, <3>1
  <2>3. CASE at["kill"] # "idle"
    BY <1>2, <1>4, <1>t, <2>3
  <2>4. QED
    BY <1>4, <2>1, <2>2, <2>3 DEF Stop, Exit, Take, KillRemoved, ExitCancelled, BracketDropped,
       ExitRefused, ExitFilled
<1>5. CASE Reconcile
  <2>1. at["reconcile"] # "idle" \/ at'["reconcile"] # "idle"
    <3>1. CASE ReadExchange
      BY <1>0, <1>f, <1>t, <3>1 DEF ReadExchange, Go, TypeOK
    <3>2. QED
      BY <1>5, <3>1 DEF Reconcile, ListBook, Agrees, IsGone, GoneCleared, GoneDeleted, IsTracked,
         IsUntracked, Claimed, ClaimCleared, ClaimArmed, ClaimAttached, Resized, BracketDropped,
         Armed, Attached, Take
  <2>2. QED
    BY <1>2, <1>5, <1>t, <2>1
<1>6. CASE Entry
  <2>1. CASE at["entry"] # "idle" \/ at'["entry"] # "idle"
    <3>1. \A u \in Threads \ {"entry"} : at'[u] = at[u]
      BY <1>6, OthersUntouched
    <3>2. \A u \in Threads \ {"entry"} : at[u] = "idle" /\ at'[u] = "idle"
      BY <2>1, <3>1 DEF EntryAlone
    <3>3. EntryApart
      BY <1>0, <1>1, <3>2 DEF EntryApart
    <3>4. QED
      BY <1>6, <3>3, EntryTrades
  <2>2. CASE at["entry"] = "idle" /\ at'["entry"] = "idle"
    <3>1. PICK loss \in BOOLEAN : StartEntries(loss)
      BY <1>6, <2>2 DEF Entry, PassOver, Skip, Decide, Take, EntryOrdered, EntryRecorded,
         EntryArmed, EntryAttached, Armed, Attached
    <3>2. UNCHANGED <<at, todo>>
      <4> DEFINE items == {<<r, None>> : r \in Strategies}
      <4>1. CASE Start("entry", items)
        <5> HIDE DEF items
        <5>1. items = {}
          <6>1. "entry" \in Threads /\ at \in [Threads -> Places]
            BY <1>0 DEF TypeOK, Threads
          <6>2. QED
            BY <2>2, <4>1, <6>1 DEF Start, Go
        <5>2. QED
          BY <1>0, <2>2, <4>1, <5>1, EmptyLoop DEF Threads
      <4>2. QED
        BY <3>1, <4>1 DEF StartEntries
    <3>3. QED
      BY <1>1, <3>1, <3>2, QuietTrades DEF StartEntries, passVars, exchangeVars
  <2>3. QED
    BY <2>1, <2>2
<1>7. CASE Environment
  <2>1. ASSUME NEW s \in Strategies, Ages(s) PROVE TradeInv'
    BY <1>1, <2>1, QuietTrades DEF Ages, runVars, passVars, exchangeVars
  <2>2. QED
    BY <1>1, <1>7, <2>1, FiredTrades, RestartTrades DEF Environment
<1>8. CASE UNCHANGED vars
  BY <1>1, <1>8, QuietTrades DEF vars
<1>9. QED
  BY <1>3, <1>4, <1>5, <1>6, <1>7, <1>8 DEF Next

\* What is at rest is coherent.
LEMMA ApartCoherent == ApartInv /\ IInv => Coherent
<1> SUFFICES ASSUME ApartInv, IInv, NEW s \in Strategies, faults = 0, AtRest(s)
             PROVE /\ net[s] = 0 => armed[s] = 0
                   /\ slot[s] # None /\ net[s] # 0 =>
                         /\ OnSide(s) /\ heap[slot[s]].size = Abs(net[s])
                         /\ armed[s] = Sign(net[s]) /\ heap[slot[s]].safe
  BY DEF Coherent
<1>1. BookInv
  BY DEF ApartInv, TradeInv
<1>2. ~SeenTo(s)
  BY DEF SeenTo, AtRest, Threads
<1>3. net[s] = 0 => armed[s] = 0
  BY <1>1 DEF BookInv, Sign
<1>4. QED
  BY <1>1, <1>2, <1>3 DEF BookInv

\* One lock around the entry tick keeps the comment's promise: as long as no entry tick
\* overlaps another thread and no call fails, every position at rest is at the exchange as
\* the book has it, its bracket armed and on record, and what is flat has no bracket left,
\* whatever the management, reconcile and kill threads, brackets and restarts do.
THEOREM LockSuffices == Spec => ProtectedUnlessOverlapped
<1>1. Init => ApartInv
  <2>1. ASSUME Init PROVE RestInv /\ TradeInv
    <3>1. RestInv
      BY <2>1 DEF Init, RestInv, Threads, Claiming
    <3>2. BookInv
      BY <2>1, NobodyIsNoPair DEF Init, BookInv, Holds
    <3>3. ExitInv /\ ReconcileInv /\ EntryInv
      BY <2>1 DEF Init, ExitInv, ReconcileInv, EntryInv, Threads, Claiming
    <3>4. QED
      BY <3>1, <3>2, <3>3 DEF TradeInv
  <2>2. QED
    BY <2>1 DEF ApartInv
<1>2. IInv /\ IInv' /\ RestInv' /\ EntryAlone /\ EntryAlone' /\ [Next]_vars /\ ApartInv => ApartInv'
  BY ApartStep
<1>3. QED
  BY <1>1, <1>2, Invariant, Rested, ApartCoherent, PTL DEF Spec, ProtectedUnlessOverlapped
=============================================================================
