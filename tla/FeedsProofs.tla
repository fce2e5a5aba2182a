---------------------------- MODULE FeedsProofs ----------------------------
(***************************************************************************)
(* Theorems about how data is fetched, for any value of the constants: the *)
(* login that every call goes through, and the files that candles are      *)
(* pulled into.                                                            *)
(*                                                                         *)
(* AngelSession: how many TOTP logins a process makes, for any callers and *)
(* any number of events.  TotpSpared bounds a counter by two others, and   *)
(* is not inductive: a login is paid for long before it is made, by the    *)
(* expiry or the mishap that left .env without a token Angel One accepts.  *)
(* LoginsPaidFor adds the logins that are due to those that were made.     *)
(* Who comes to log in holds the lock (LockHeld), so that one is due at    *)
(* most; and a token of another container can die before it is saved, and  *)
(* only then (TheirsLater), so that one expiry does not pay for two.       *)
(*                                                                         *)
(* CandleArchive: a file is whole because what was pulled is, at every     *)
(* page, all there is above it (PagesMeet).  That rests on PageReached: an *)
(* answer of a page's length leaves no bar over but the one a page starts  *)
(* with, which the next page ends with.                                    *)
(***************************************************************************)
EXTENDS AngelSession, CandleArchive, TLAPS, WellFoundedInduction, FiniteSetTheorems

LEMMA SessionBounds == MaxEvents \in Nat /\ NoThread \notin Threads /\ Stream \in Threads
  BY AngelSessionAssumption DEF Threads

Tokens(n) == {Theirs} \cup 0 .. n

\* What a thread keeps of its own, and what the threads share.
LocalsTyped ==
    /\ pc \in [Threads -> Places] /\ kind \in [Threads -> Kinds \cup {"stream"}]
    /\ seen \in [Threads -> {0} \cup Days] /\ held \in [Threads -> Tokens(totp)]
    /\ retried \in [Threads -> BOOLEAN]

SharedTyped ==
    /\ today \in Days /\ loginDate \in {0} \cup Days
    /\ cooling \in BOOLEAN /\ candleFailures \in 0 .. 2
    /\ lock \in Threads \cup {NoThread} /\ others \in {"idle", "writing", "done"}
    /\ totp \in Nat /\ live \subseteq {Theirs} \cup 1 .. totp
    /\ api \in Tokens(totp) /\ env \in Tokens(totp)
    /\ expiries \in 0 .. MaxEvents /\ mishaps \in 0 .. MaxEvents

LEMMA SessionTyped == SessionTypeOK <=> SharedTyped /\ LocalsTyped
  BY DEF SessionTypeOK, SharedTyped, LocalsTyped, Tokens

\* A token stays one, and no token is one of them.
LEMMA TokensGrow ==
    \A n \in Nat : NoToken \in Tokens(n) /\ Theirs \in Tokens(n)
                   /\ \A m \in Nat : n <= m => Tokens(n) \subseteq Tokens(m)
  BY DEF Tokens, NoToken, Theirs

\* There is room for one more event of each sort.
LEMMA RoomLeft ==
    ASSUME SharedTyped, Room
    PROVE  today + 1 \in Days /\ expiries + 1 \in 0 .. MaxEvents /\ mishaps + 1 \in 0 .. MaxEvents
  BY SessionBounds DEF SharedTyped, Room, Days

\* The initial state satisfies the invariant.
LEMMA SessionStart == SessionInit => SessionInv
<1> SUFFICES ASSUME SessionInit PROVE SessionInv
  OBVIOUS
<1> USE SessionBounds DEF SessionInit, NoToken, Theirs
<1>1. SharedTyped
  <2>1. today \in Days /\ api \in Tokens(totp) /\ env \in Tokens(totp)
    BY TokensGrow DEF Days, Tokens
  <2>2. lock = NoThread /\ others = "idle" /\ live \subseteq {Theirs} \cup 1 .. totp
    OBVIOUS
  <2>3. totp \in Nat /\ expiries \in 0 .. MaxEvents /\ mishaps \in 0 .. MaxEvents
    OBVIOUS
  <2>4. candleFailures \in 0 .. 2
    OBVIOUS
  <2>5. loginDate \in {0} \cup Days
    OBVIOUS
  <2>6. cooling \in BOOLEAN
    OBVIOUS
  <2>7. QED
    BY <2>1, <2>2, <2>3, <2>4, <2>5, <2>6 DEF SharedTyped
<1>2. LocalsTyped
  BY TokensGrow DEF LocalsTyped, Days, Places, Tokens
<1>3. LockHeld /\ TheirsLater
  BY DEF LockHeld, Inside, TheirsLater
<1>4. LoginsPaidFor
  BY DEF LoginsPaidFor, Owed, LoginDue, DeadOnArrival
<1>5. QED
  BY <1>1, <1>2, <1>3, <1>4, SessionTyped DEF SessionInv

\* A thread that goes to a place, or returns from its call, keeps what it has typed.
LEMMA GotoTyped ==
    ASSUME LocalsTyped, NEW t \in Threads, NEW place \in Places, Goto(t, place),
           UNCHANGED <<kind, seen, held, retried, totp>>
    PROVE  LocalsTyped'
  BY DEF LocalsTyped, Goto

LEMMA ReturnTyped ==
    ASSUME LocalsTyped, SharedTyped, NEW t \in Threads, Return(t), UNCHANGED totp
    PROVE  LocalsTyped'
<1>1. pc' \in [Threads -> Places]
  BY DEF LocalsTyped, Return, Goto, Places
<1>2. kind' \in [Threads -> Kinds \cup {"stream"}]
  BY DEF LocalsTyped, Return
<1>3. seen' \in [Threads -> {0} \cup Days]
  BY DEF LocalsTyped, Return
<1>4. held' \in [Threads -> Tokens(totp')]
  BY TokensGrow DEF LocalsTyped, SharedTyped, Return
<1>5. retried' \in [Threads -> BOOLEAN]
  BY DEF LocalsTyped, Return
<1>6. QED
  BY <1>1, <1>2, <1>3, <1>4, <1>5 DEF LocalsTyped

\* A thread that takes a token with it, or leaves one behind.
LEMMA TakeTyped ==
    ASSUME LocalsTyped, NEW t \in Threads, NEW place \in Places, Goto(t, place),
           held' \in [Threads -> Tokens(totp')], UNCHANGED <<kind, seen, retried>>
    PROVE  LocalsTyped'
  BY DEF LocalsTyped, Goto

\* An answer ends the call or leads to a drop, whatever else it does.
LEMMA AnsweredLeads ==
    ASSUME NEW t \in Threads, NEW good \in BOOLEAN, Answered(t, good)
    PROVE  /\ Return(t) \/ (Goto(t, "drop") /\ UNCHANGED <<kind, seen, held, retried>>)
           /\ candleFailures' \in {0, Counted, candleFailures} /\ UNCHANGED api
<1>1. CASE kind[t] = "candle" /\ good
  BY <1>1 DEF Answered
<1>2. CASE kind[t] = "candle" /\ ~good
  BY <1>2 DEF Answered, Miscounts
<1>3. CASE kind[t] # "candle"
  BY <1>3 DEF Answered, Ends
<1>4. QED
  BY <1>1, <1>2, <1>3

LEMMA AnsweredTyped ==
    ASSUME LocalsTyped, SharedTyped, NEW t \in Threads, NEW good \in BOOLEAN, Answered(t, good)
    PROVE  SharedTyped' /\ LocalsTyped'
<1>1. candleFailures' \in 0 .. 2
  BY AnsweredLeads DEF SharedTyped, Counted
<1>2. mishaps' \in 0 .. MaxEvents
  BY RoomLeft DEF Answered, SharedTyped, Fine, Mishap
<1>3. SharedTyped'
  BY <1>1, <1>2, AnsweredLeads DEF Answered, SharedTyped, outside
<1>4. LocalsTyped'
  BY AnsweredLeads, GotoTyped, ReturnTyped DEF Answered, outside, Places
<1>5. QED
  BY <1>3, <1>4

\* Every step keeps every variable in its type.
LEMMA SessionTypes ==
    SharedTyped /\ LocalsTyped /\ [SessionNext]_sessionVars => SharedTyped' /\ LocalsTyped'
<1> SUFFICES ASSUME SharedTyped, LocalsTyped, [SessionNext]_sessionVars
             PROVE  SharedTyped' /\ LocalsTyped'
  OBVIOUS
<1> USE SessionBounds, RoomLeft, TokensGrow DEF Places
<1>1. ASSUME NEW t \in Threads, Proceeds(t) PROVE SharedTyped' /\ LocalsTyped'
  <2>1. ASSUME NEW k \in Kinds \cup {"stream"}, Begin(t, k) PROVE SharedTyped' /\ LocalsTyped'
    BY <2>1 DEF Begin, SharedTyped, LocalsTyped, Goto, shared, outside, Fine
  <2>2. CASE Check(t)
    <3>1. SharedTyped'
      BY <2>2 DEF Check, SharedTyped, shared, outside, Fine
    <3>2. LocalsTyped'
      BY <2>2, GotoTyped, ReturnTyped DEF Check, outside
    <3>3. QED
      BY <3>1, <3>2
  <2>3. CASE Enter(t)
    <3>1. SharedTyped'
      BY <2>3 DEF Enter, SharedTyped, outside, Fine
    <3>2. LocalsTyped'
      <4>1. CASE LoggedIn(t) /\ Goto(t, "call") /\ UNCHANGED <<lock, kind, seen, held, retried>>
        BY <2>3, <4>1, GotoTyped DEF Enter, outside
      <4>2. CASE ~LoggedIn(t) /\ Refused(t) /\ Return(t) /\ UNCHANGED lock
        BY <2>3, <4>2, ReturnTyped DEF Enter, outside
      <4>3. CASE held' = [held EXCEPT ![t] = Stored] /\ Goto(t, "profile") /\ UNCHANGED <<kind, seen, retried>>
        <5>1. held' \in [Threads -> Tokens(totp')]
          BY <2>3, <4>3 DEF Enter, outside, Stored, SharedTyped, LocalsTyped
        <5>2. QED
          BY <4>3, <5>1, TakeTyped
      <4>4. QED
        BY <2>3, <4>1, <4>2, <4>3 DEF Enter
    <3>3. QED
      BY <3>1, <3>2
  <2>4. CASE Reuse(t)
    <3>1. SharedTyped'
      BY <2>4 DEF Reuse, Adopt, SharedTyped, LocalsTyped, outside, Fine
    <3>2. LocalsTyped'
      <4>1. held' \in [Threads -> Tokens(totp')]
        BY <2>4, TokensGrow DEF Reuse, Adopt, outside, SharedTyped, LocalsTyped
      <4>2. QED
        BY <2>4, <4>1, TakeTyped DEF Reuse, Adopt, outside
    <3>3. QED
      BY <3>1, <3>2
  <2>5. CASE NoReuse(t)
    <3>1. SharedTyped'
      BY <2>5 DEF NoReuse, Mishap, SharedTyped, shared, outside, Fine
    <3>2. LocalsTyped'
      <4>1. held' \in [Threads -> Tokens(totp')]
        BY <2>5, TokensGrow DEF NoReuse, outside, SharedTyped, LocalsTyped
      <4>2. QED
        BY <2>5, <4>1, TakeTyped DEF NoReuse, outside
    <3>3. QED
      BY <3>1, <3>2
  <2>6. CASE Totp(t)
    <3>1. /\ totp' = totp + 1 /\ totp' \in Nat /\ totp' \in Tokens(totp')
          /\ live' \subseteq {Theirs} \cup 1 .. totp'
      BY <2>6 DEF Totp, SharedTyped, Tokens
    <3>2. SharedTyped'
      <4>1. /\ loginDate' \in {0} \cup Days /\ cooling' \in BOOLEAN /\ api' \in Tokens(totp')
            /\ env \in Tokens(totp')
        <5>1. Tokens(totp) \subseteq Tokens(totp')
          BY <3>1, TokensGrow DEF SharedTyped
        <5>2. QED
          BY <2>6, <3>1, <5>1 DEF Totp, Adopt, SharedTyped, LocalsTyped
      <4>2. QED
        BY <2>6, <3>1, <4>1 DEF Totp, SharedTyped, Fine
    <3>3. LocalsTyped'
      <4>1. held' \in [Threads -> Tokens(totp')]
        BY <2>6, TokensGrow, <3>1 DEF Totp, Adopt, SharedTyped, LocalsTyped
      <4>2. QED
        BY <2>6, <4>1, TakeTyped DEF Totp, Adopt
    <3>4. QED
      BY <3>2, <3>3
  <2>7. CASE Truncate(t)
    <3>1. SharedTyped'
      BY <2>7 DEF Truncate, SharedTyped, shared, Fine
    <3>2. LocalsTyped'
      BY <2>7, GotoTyped DEF Truncate
    <3>3. QED
      BY <3>1, <3>2
  <2>8. CASE WriteTokens(t)
    <3>1. SharedTyped'
      BY <2>8 DEF WriteTokens, Saved, SharedTyped, LocalsTyped, Fine
    <3>2. LocalsTyped'
      <4>1. held' \in [Threads -> Tokens(totp')]
        BY <2>8, TokensGrow DEF WriteTokens, Saved, SharedTyped, LocalsTyped
      <4>2. QED
        BY <2>8, <4>1, TakeTyped DEF WriteTokens, Saved
    <3>3. QED
      BY <3>1, <3>2
  <2>9. CASE Call(t)
    <3>1. SharedTyped'
      BY <2>9 DEF Call, Miscounts, Counted, Ends, SharedTyped, outside, Fine
    <3>2. LocalsTyped'
      <4>1. CASE held' = [held EXCEPT ![t] = api] /\ Goto(t, "sent") /\ UNCHANGED <<kind, seen, retried>>
        <5>1. held' \in [Threads -> Tokens(totp')]
          BY <2>9, <4>1 DEF Call, outside, SharedTyped, LocalsTyped
        <5>2. QED
          BY <4>1, <5>1, TakeTyped
      <4>2. CASE Return(t) \/ (Goto(t, "drop") /\ UNCHANGED <<kind, seen, held, retried>>)
        BY <2>9, <4>2, GotoTyped, ReturnTyped DEF Call, outside
      <4>3. QED
        BY <2>9, <4>1, <4>2 DEF Call, Miscounts, Ends
    <3>3. QED
      BY <3>1, <3>2
  <2>10. CASE Answered(t, TRUE)
    BY <2>10, AnsweredTyped
  <2>11. CASE Rejected(t)
    <3>1. SharedTyped'
      BY <2>11 DEF Rejected, Drops, Ends, SharedTyped, outside, Fine
    <3>2. LocalsTyped'
      BY <2>11, GotoTyped, ReturnTyped DEF Rejected, Drops, Ends, outside
    <3>3. QED
      BY <3>1, <3>2
  <2>12. CASE Drop(t)
    <3>1. SharedTyped'
      BY <2>12 DEF Drop, SharedTyped, outside, Fine
    <3>2. LocalsTyped'
      <4>1. CASE Retries(t)
        <5>1. /\ Goto(t, "want") /\ retried' = [retried EXCEPT ![t] = TRUE] /\ kind' = kind
              /\ seen' = [seen EXCEPT ![t] = today] /\ held' = [held EXCEPT ![t] = NoToken]
              /\ totp' = totp
          BY <2>12, <4>1 DEF Drop, outside
        <5>2. pc' \in [Threads -> Places]
          BY <5>1 DEF Goto, LocalsTyped, Places
        <5>3. today \in Days /\ NoToken \in Tokens(totp)
          BY TokensGrow DEF SharedTyped
        <5>4. QED
          BY <5>1, <5>2, <5>3 DEF LocalsTyped
      <4>2. CASE ~Retries(t)
        BY <2>12, <4>2, ReturnTyped DEF Drop, outside
      <4>3. QED
        BY <4>1, <4>2
    <3>3. QED
      BY <3>1, <3>2
  <2>13. CASE t = Stream /\ (Dial \/ Disconnect)
    <3>1. SharedTyped'
      BY <2>13 DEF Dial, Disconnect, SharedTyped, shared, outside, Fine, Mishap
    <3>2. LocalsTyped'
      <4>1. CASE held' = [held EXCEPT ![Stream] = env] /\ Goto(Stream, "open") /\ UNCHANGED <<kind, seen, retried>>
        <5>1. held' \in [Threads -> Tokens(totp')]
          BY <2>13, <4>1 DEF Dial, Disconnect, outside, SharedTyped, LocalsTyped
        <5>2. QED
          BY <4>1, <5>1, TakeTyped
      <4>2. CASE Return(Stream)
        BY <2>13, <4>2, ReturnTyped DEF Dial, Disconnect, outside
      <4>3. QED
        BY <2>13, <4>1, <4>2 DEF Dial, Disconnect
    <3>3. QED
      BY <3>1, <3>2
  <2>14. QED
    BY <1>1, <2>1, <2>2, <2>3, <2>4, <2>5, <2>6, <2>7, <2>8, <2>9, <2>10, <2>11, <2>12, <2>13
    DEF Proceeds
<1>2. ASSUME NEW t \in Threads, Hiccup(t) PROVE SharedTyped' /\ LocalsTyped'
  <2>1. ASSUME NEW raises \in BOOLEAN, LoginFails(t, raises) PROVE SharedTyped' /\ LocalsTyped'
    <3>1. SharedTyped'
      BY <2>1 DEF LoginFails, SharedTyped, outside, Mishap
    <3>2. LocalsTyped'
      BY <2>1, ReturnTyped DEF LoginFails, outside
    <3>3. QED
      BY <3>1, <3>2
  <2>2. CASE SaveFails(t)
    <3>1. SharedTyped'
      BY <2>2 DEF SaveFails, Saved, SharedTyped, outside, Mishap
    <3>2. LocalsTyped'
      <4>1. held' \in [Threads -> Tokens(totp')]
        BY <2>2, TokensGrow DEF SaveFails, Saved, outside, SharedTyped, LocalsTyped
      <4>2. QED
        BY <2>2, <4>1, TakeTyped DEF SaveFails, Saved, outside
    <3>3. QED
      BY <3>1, <3>2
  <2>3. CASE Answered(t, FALSE)
    BY <2>3, AnsweredTyped
  <2>4. CASE Garbled(t)
    <3>1. SharedTyped'
      BY <2>4 DEF Garbled, SharedTyped, outside, Mishap
    <3>2. LocalsTyped'
      BY <2>4, ReturnTyped DEF Garbled, outside
    <3>3. QED
      BY <3>1, <3>2
  <2>5. ASSUME NEW names \in BOOLEAN, Raised(t, names) PROVE SharedTyped' /\ LocalsTyped'
    <3>1. SharedTyped'
      BY <2>5 DEF Raised, ClearsApi, Drops, Ends, Miscounts, Counted, SharedTyped, outside,
                  Mishap
    <3>2. LocalsTyped'
      BY <2>5, GotoTyped, ReturnTyped DEF Raised, ClearsApi, Drops, Ends, Miscounts, outside
    <3>3. QED
      BY <3>1, <3>2
  <2>6. QED
    BY <1>2, <2>1, <2>2, <2>3, <2>4, <2>5 DEF Hiccup
<1>3. CASE CooledDown
  BY <1>3 DEF CooledDown, SharedTyped, LocalsTyped, outside, locals, Fine
<1>4. CASE Midnight
  <2>1. today' \in Days /\ UNCHANGED <<shared, env, others, live, totp, expiries, mishaps, locals>>
    BY <1>4 DEF Midnight, Fine
  <2>2. QED
    BY <2>1 DEF SharedTyped, LocalsTyped, shared, locals
<1>5. CASE OthersLogin
  BY <1>5 DEF OthersLogin, SharedTyped, LocalsTyped, Mishap, shared, locals
<1>6. CASE OthersSave
  BY <1>6 DEF OthersSave, SharedTyped, LocalsTyped, shared, locals, Fine
<1>7. CASE SessionRestart
  <2>1. SharedTyped'
    BY <1>7, 0 \in {0} \cup Days, 0 \in 0 .. 2 DEF SessionRestart, SharedTyped, Mishap, outside
  <2>2. LocalsTyped'
    BY <1>7 DEF SessionRestart, SharedTyped, LocalsTyped, outside
  <2>3. QED
    BY <2>1, <2>2
<1>8. ASSUME NEW token \in live, Expire(token) PROVE SharedTyped' /\ LocalsTyped'
  <2>1. expiries' \in 0 .. MaxEvents /\ live' \subseteq live
        /\ UNCHANGED <<shared, today, env, others, totp, mishaps, locals>>
    BY <1>8 DEF Expire, Fine
  <2>2. QED
    BY <2>1 DEF SharedTyped, LocalsTyped, shared, locals
<1>9. CASE UNCHANGED sessionVars
  BY <1>9 DEF sessionVars, SharedTyped, LocalsTyped, shared, outside, locals
<1>10. QED
  BY <1>1, <1>2, <1>3, <1>4, <1>5, <1>6, <1>7, <1>8, <1>9 DEF SessionNext
\* The other threads stay where they are, with what they have.
Aside(t) == \A u \in Threads \ {t} : pc'[u] = pc[u] /\ held'[u] = held[u]

\* A token that is somewhere already, or the next one.
Known(token) ==
    token \in {NoToken, api, env, totp + 1} \/ \E u \in Threads : token = held[u]

\* What every step of a thread does to the others and with the tokens.
Shape(t) ==
    /\ Aside(t) /\ Known(api') /\ Known(env') /\ Known(held'[t])
    /\ UNCHANGED <<others, expiries>> /\ mishaps' \in {mishaps, mishaps + 1}

\* A step away from the lock.
Away(t) ==
    /\ pc[t] \notin Inside /\ pc'[t] \notin Inside
    /\ UNCHANGED <<lock, env, live, totp>>

LEMMA GotoAside ==
    ASSUME LocalsTyped, NEW t \in Threads, NEW place, Goto(t, place)
    PROVE  pc'[t] = place /\ \A u \in Threads \ {t} : pc'[u] = pc[u]
  BY DEF LocalsTyped, Goto

LEMMA ReturnAside ==
    ASSUME LocalsTyped, NEW t \in Threads, Return(t)
    PROVE  pc'[t] = "idle" /\ held'[t] = NoToken /\ Aside(t)
  BY DEF LocalsTyped, Return, Goto, Aside

LEMMA TakeAside ==
    ASSUME LocalsTyped, NEW t \in Threads, NEW place, Goto(t, place),
           NEW token, held' = [held EXCEPT ![t] = token]
    PROVE  pc'[t] = place /\ held'[t] = token /\ Aside(t)
  BY DEF LocalsTyped, Goto, Aside

\* The steps away from the lock.
LEMMA AwaySteps ==
    ASSUME LocalsTyped, NEW t \in Threads,
           \/ \E k \in Kinds \cup {"stream"} : Begin(t, k)
           \/ Check(t) \/ Call(t) \/ Rejected(t) \/ Drop(t) \/ Garbled(t)
           \/ \E good \in BOOLEAN : Answered(t, good)
           \/ \E names \in BOOLEAN : Raised(t, names)
           \/ t = Stream /\ (Dial \/ Disconnect)
    PROVE  Shape(t) /\ Away(t)
<1> USE GotoAside, ReturnAside DEF Inside, Shape, Away, Aside, Known, Fine, Mishap
<1>1. ASSUME NEW k \in Kinds \cup {"stream"}, Begin(t, k) PROVE Shape(t) /\ Away(t)
  BY <1>1 DEF Begin, shared, outside
<1>2. CASE Check(t)
  BY <1>2 DEF Check, shared, outside
<1>3. CASE Call(t)
  <2>1. CASE held' = [held EXCEPT ![t] = api] /\ Goto(t, "sent") /\ UNCHANGED <<api, kind, seen, retried>>
    BY <1>3, <2>1, TakeAside DEF Call, outside
  <2>2. CASE (Return(t) \/ (Goto(t, "drop") /\ UNCHANGED <<kind, seen, held, retried>>)) /\ UNCHANGED api
    BY <1>3, <2>2 DEF Call, outside
  <2>3. QED
    BY <1>3, <2>1, <2>2 DEF Call, Miscounts, Ends
<1>4. CASE Rejected(t)
  BY <1>4 DEF Rejected, Drops, Ends, outside
<1>5. CASE Drop(t)
  <2>1. CASE Retries(t)
    <3>1. held' = [held EXCEPT ![t] = NoToken] /\ Goto(t, "want")
      BY <1>5, <2>1 DEF Drop
    <3>2. QED
      BY <1>5, <3>1, TakeAside DEF Drop, outside
  <2>2. CASE ~Retries(t)
    BY <1>5, <2>2 DEF Drop, outside
  <2>3. QED
    BY <2>1, <2>2
<1>6. CASE Garbled(t)
  BY <1>6 DEF Garbled, outside
<1>7. ASSUME NEW good \in BOOLEAN, Answered(t, good) PROVE Shape(t) /\ Away(t)
  BY <1>7, AnsweredLeads DEF Answered, outside
<1>8. ASSUME NEW names \in BOOLEAN, Raised(t, names) PROVE Shape(t) /\ Away(t)
  <2>1. /\ Return(t) \/ (Goto(t, "drop") /\ UNCHANGED <<kind, seen, held, retried>>)
        /\ api' \in {NoToken, api}
    BY <1>8 DEF Raised, Drops, ClearsApi, Miscounts, Ends
  <2>2. QED
    BY <1>8, <2>1 DEF Raised, outside
<1>9. CASE t = Stream /\ (Dial \/ Disconnect)
  <2>1. CASE held' = [held EXCEPT ![t] = env] /\ Goto(t, "open")
    BY <1>9, <2>1, TakeAside DEF Dial, Disconnect, shared, outside
  <2>2. CASE Return(t)
    BY <1>9, <2>2 DEF Dial, Disconnect, shared, outside
  <2>3. QED
    BY <1>9, <2>1, <2>2 DEF Dial, Disconnect
<1>10. QED
  BY <1>1, <1>2, <1>3, <1>4, <1>5, <1>6, <1>7, <1>8, <1>9

\* Nothing is due but what was due before.
LEMMA AwayStep ==
    ASSUME SharedTyped, LockHeld, LoginsPaidFor, NEW t \in Threads, Shape(t), Away(t)
    PROVE  LockHeld' /\ LoginsPaidFor'
<1>1. LockHeld'
  BY DEF LockHeld, Shape, Aside, Away
<1>2. lock # NoThread => lock \in Threads /\ lock # t /\ pc'[lock] = pc[lock] /\ held'[lock] = held[lock]
  BY DEF SharedTyped, LockHeld, Shape, Aside, Away
<1>3. LoginDue' = LoginDue
  BY <1>2 DEF LoginDue, Away
<1>4. DeadOnArrival' = DeadOnArrival
  BY DEF DeadOnArrival, Shape, Away
<1>5. QED
  BY <1>1, <1>3, <1>4 DEF LoginsPaidFor, Owed, Shape, Away, SharedTyped

\* Tokens go from hand to hand: another container's is in none before it is saved.
LEMMA TheirsStep ==
    ASSUME SharedTyped, LocalsTyped, TheirsLater, NEW t \in Threads, Shape(t)
    PROVE  TheirsLater'
  BY DEF SharedTyped, LocalsTyped, TheirsLater, Shape, Aside, Known, NoToken, Theirs
\* The lock goes to a thread that comes inside, and back when it leaves.
LEMMA LockStep ==
    ASSUME LockHeld, NEW t \in Threads, Aside(t),
           \/ lock \in {t, NoThread} /\ lock' = t /\ pc'[t] \in Inside
           \/ lock = t /\ lock' = NoThread /\ pc'[t] \notin Inside
    PROVE  LockHeld'
  BY SessionBounds DEF LockHeld, Aside

\* The steps of the thread that has the lock, with what each leaves due.
LEMMA InsideSteps ==
    ASSUME SharedTyped, LocalsTyped, LockHeld, LoginsPaidFor, NEW t \in Threads,
           \/ Enter(t) \/ Reuse(t) \/ NoReuse(t) \/ Totp(t) \/ Truncate(t) \/ WriteTokens(t)
           \/ SaveFails(t) \/ \E raises \in BOOLEAN : LoginFails(t, raises)
    PROVE  Shape(t) /\ LockHeld' /\ LoginsPaidFor'
<1> USE SessionBounds
<1>1. CASE Enter(t)
  <2>1. CASE UNCHANGED lock
    <3>1. (Goto(t, "call") /\ UNCHANGED held) \/ Return(t)
      BY <1>1, <2>1 DEF Enter, SharedTyped
    <3>2. Shape(t) /\ Away(t)
      BY <1>1, <2>1, <3>1, GotoAside, ReturnAside
      DEF Enter, Shape, Away, Aside, Known, Inside, Fine, outside
    <3>3. QED
      BY <3>2, AwayStep
  <2>2. CASE lock' # lock
    <3>1. /\ lock = NoThread /\ lock' = t /\ held' = [held EXCEPT ![t] = env] /\ Goto(t, "profile")
          /\ UNCHANGED <<api, outside, mishaps>>
      BY <1>1, <2>2 DEF Enter, Stored, Fine
    <3>2. pc'[t] = "profile" /\ held'[t] = env /\ Aside(t)
      BY <3>1, TakeAside
    <3>3. Shape(t)
      BY <3>1, <3>2 DEF Shape, Known, outside
    <3>4. LockHeld'
      BY <3>1, <3>2, LockStep DEF Inside
    <3>5. (LoginDue' <=> LoginDue) /\ (DeadOnArrival' <=> DeadOnArrival)
      BY <3>1, <3>2 DEF LoginDue, DeadOnArrival, outside
    <3>6. QED
      BY <3>1, <3>3, <3>4, <3>5 DEF LoginsPaidFor, Owed, outside
  <2>3. QED
    BY <2>1, <2>2
<1>2. CASE Reuse(t)
  <2>1. lock = t /\ lock' = NoThread /\ pc[t] = "profile" /\ held[t] \in live
        /\ api' = held[t] /\ UNCHANGED <<outside, mishaps>>
    BY <1>2 DEF Reuse, ProfileOk, Adopt, Fine, LockHeld, Inside
  <2>2. pc'[t] = "call" /\ held'[t] = NoToken /\ Aside(t)
    <3>1. held' = [held EXCEPT ![t] = NoToken] /\ Goto(t, "call")
      BY <1>2 DEF Reuse, Adopt
    <3>2. QED
      BY <3>1, TakeAside
  <2>3. Shape(t)
    BY <2>1, <2>2 DEF Shape, Known, outside
  <2>4. LockHeld'
    BY <2>1, <2>2, LockStep DEF Inside
  <2>5. (LoginDue' <=> LoginDue) /\ (DeadOnArrival' <=> DeadOnArrival)
    BY <2>1, <2>2 DEF LoginDue, DeadOnArrival, outside
  <2>6. QED
    BY <2>1, <2>3, <2>4, <2>5 DEF LoginsPaidFor, Owed, outside
<1>3. CASE NoReuse(t)
  <2>1. lock = t /\ pc[t] = "profile" /\ UNCHANGED <<shared, outside>>
        /\ IF held[t] \in live THEN mishaps' = mishaps + 1 ELSE mishaps' = mishaps
    BY <1>3 DEF NoReuse, ProfileOk, Fine, Mishap, LockHeld, Inside
  <2>2. pc'[t] = "totp" /\ held'[t] = NoToken /\ Aside(t)
    <3>1. held' = [held EXCEPT ![t] = NoToken] /\ Goto(t, "totp")
      BY <1>3 DEF NoReuse
    <3>2. QED
      BY <3>1, TakeAside
  <2>3. Shape(t)
    BY <2>1, <2>2 DEF Shape, Known, shared, outside
  <2>4. LockHeld'
    BY <2>1, <2>2, LockStep DEF Inside, shared
  <2>5. held[t] \notin live => LoginDue
    BY <2>1 DEF LoginDue
  <2>6. DeadOnArrival' <=> DeadOnArrival
    BY <2>1 DEF DeadOnArrival, outside
  <2>7. QED
    BY <2>1, <2>3, <2>4, <2>5, <2>6 DEF LoginsPaidFor, Owed, outside, SharedTyped
<1>4. CASE Totp(t)
  <2>1. lock = t /\ pc[t] = "totp" /\ UNCHANGED <<lock, others, env, expiries, mishaps>>
        /\ totp' = totp + 1 /\ live' = live \cup {totp + 1} /\ api' = totp + 1
    BY <1>4 DEF Totp, Adopt, Fine, LockHeld, Inside
  <2>2. pc'[t] = "save" /\ held'[t] = totp + 1 /\ Aside(t)
    <3>1. held' = [held EXCEPT ![t] = totp + 1] /\ Goto(t, "save")
      BY <1>4 DEF Totp, Adopt
    <3>2. QED
      BY <3>1, TakeAside
  <2>3. Shape(t)
    BY <2>1, <2>2 DEF Shape, Known
  <2>4. LockHeld'
    BY <2>1, <2>2, LockStep DEF Inside
  <2>5. LoginDue /\ ~LoginDue'
    BY <2>1, <2>2 DEF LoginDue
  <2>6. DeadOnArrival' <=> DeadOnArrival
    BY <2>1 DEF DeadOnArrival, SharedTyped, Theirs
  <2>7. QED
    BY <2>1, <2>3, <2>4, <2>5, <2>6 DEF LoginsPaidFor, Owed, SharedTyped
<1>5. CASE Truncate(t)
  <2>1. lock = t /\ pc[t] = "save" /\ env' = NoToken
        /\ UNCHANGED <<shared, others, live, totp, expiries, mishaps, held>>
    BY <1>5 DEF Truncate, Fine, LockHeld, Inside
  <2>2. pc'[t] = "saving" /\ Aside(t)
    BY <1>5, <2>1, GotoAside DEF Truncate, Aside
  <2>3. Shape(t)
    BY <2>1, <2>2 DEF Shape, Known, shared
  <2>4. LockHeld'
    BY <2>1, <2>2, LockStep DEF Inside, shared
  <2>5. (LoginDue' <=> LoginDue) /\ (DeadOnArrival' <=> DeadOnArrival)
    BY <2>1, <2>2 DEF LoginDue, DeadOnArrival, shared
  <2>6. QED
    BY <2>1, <2>3, <2>4, <2>5 DEF LoginsPaidFor, Owed
<1>6. CASE WriteTokens(t)
  <2>1. lock = t /\ lock' = NoThread /\ pc[t] = "saving" /\ env' = held[t]
        /\ UNCHANGED <<api, others, live, totp, expiries, mishaps>>
    BY <1>6 DEF WriteTokens, Saved, Fine, LockHeld, Inside
  <2>2. pc'[t] = "call" /\ held'[t] = NoToken /\ Aside(t)
    <3>1. held' = [held EXCEPT ![t] = NoToken] /\ Goto(t, "call")
      BY <1>6 DEF WriteTokens, Saved
    <3>2. QED
      BY <3>1, TakeAside
  <2>3. Shape(t)
    BY <2>1, <2>2 DEF Shape, Known
  <2>4. LockHeld'
    BY <2>1, <2>2, LockStep DEF Inside
  <2>5. (LoginDue' <=> LoginDue) /\ (DeadOnArrival' <=> DeadOnArrival)
    BY <2>1, <2>2 DEF LoginDue, DeadOnArrival
  <2>6. QED
    BY <2>1, <2>3, <2>4, <2>5 DEF LoginsPaidFor, Owed
<1>7. CASE SaveFails(t)
  <2>1. lock = t /\ lock' = NoThread /\ UNCHANGED <<api, outside>> /\ mishaps' = mishaps + 1
    BY <1>7 DEF SaveFails, Saved, Mishap, LockHeld, Inside
  <2>2. pc'[t] = "call" /\ held'[t] = NoToken /\ Aside(t)
    <3>1. held' = [held EXCEPT ![t] = NoToken] /\ Goto(t, "call")
      BY <1>7 DEF SaveFails, Saved
    <3>2. QED
      BY <3>1, TakeAside
  <2>3. Shape(t)
    BY <2>1, <2>2 DEF Shape, Known, outside
  <2>4. LockHeld'
    BY <2>1, <2>2, LockStep DEF Inside
  <2>5. DeadOnArrival' <=> DeadOnArrival
    BY <2>1 DEF DeadOnArrival, outside
  <2>6. QED
    BY <2>1, <2>3, <2>4, <2>5 DEF LoginsPaidFor, Owed, outside, SharedTyped
<1>8. ASSUME NEW raises \in BOOLEAN, LoginFails(t, raises)
      PROVE  Shape(t) /\ LockHeld' /\ LoginsPaidFor'
  <2>1. lock = t /\ lock' = NoThread /\ api' \in {api, NoToken} /\ UNCHANGED outside
        /\ mishaps' = mishaps + 1
    BY <1>8 DEF LoginFails, Mishap, LockHeld, Inside
  <2>2. pc'[t] = "idle" /\ held'[t] = NoToken /\ Aside(t)
    BY <1>8, ReturnAside DEF LoginFails
  <2>3. Shape(t)
    BY <2>1, <2>2 DEF Shape, Known, outside
  <2>4. LockHeld'
    BY <2>1, <2>2, LockStep DEF Inside
  <2>5. DeadOnArrival' <=> DeadOnArrival
    BY <2>1 DEF DeadOnArrival, outside
  <2>6. QED
    BY <2>1, <2>3, <2>4, <2>5 DEF LoginsPaidFor, Owed, outside, SharedTyped
<1>9. QED
  BY <1>1, <1>2, <1>3, <1>4, <1>5, <1>6, <1>7, <1>8

\* A token that expires pays for the login it makes due: it is not both the token on
\* its way into .env by another container and one that this process relies on.
LEMMA ExpireStep ==
    ASSUME SharedTyped, LocalsTyped, LockHeld, TheirsLater, LoginsPaidFor,
           NEW token \in live, Expire(token)
    PROVE  LockHeld' /\ TheirsLater' /\ LoginsPaidFor'
<1> USE SessionBounds
<1>1. /\ live' = live \ {token} /\ expiries' = expiries + 1
      /\ UNCHANGED <<shared, env, others, totp, mishaps, locals>>
  BY DEF Expire, Fine
<1>2. LockHeld' /\ TheirsLater'
  BY <1>1 DEF LockHeld, TheirsLater, shared, locals
<1>3. /\ totp \in Nat /\ expiries \in Nat /\ mishaps \in Nat
      /\ totp' = totp /\ expiries' = expiries + 1 /\ mishaps' = mishaps
  BY <1>1 DEF SharedTyped
<1>4. CASE DeadOnArrival' <=> DeadOnArrival
  BY <1>2, <1>3, <1>4 DEF LoginsPaidFor, Owed
<1>5. CASE ~(DeadOnArrival' <=> DeadOnArrival)
  <2>1. token = Theirs /\ others = "writing" /\ ~DeadOnArrival
    BY <1>1, <1>5 DEF DeadOnArrival
  <2>2. env # token /\ \A t \in Threads : held[t] # token
    BY <2>1 DEF TheirsLater
  <2>3. LoginDue' <=> LoginDue
    <3>1. CASE lock = NoThread
      BY <1>1, <2>2, <3>1 DEF LoginDue, shared
    <3>2. CASE lock \in Threads
      BY <1>1, <2>2, <3>2 DEF LoginDue, shared, locals
    <3>3. QED
      BY <3>1, <3>2 DEF SharedTyped
  <2>4. QED
    BY <1>2, <1>3, <2>1, <2>3 DEF LoginsPaidFor, Owed
<1>6. QED
  BY <1>2, <1>4, <1>5

\* The steps outside the process, and its restart.
LEMMA OutsideSteps ==
    ASSUME SharedTyped, LocalsTyped, LockHeld, TheirsLater, LoginsPaidFor,
           CooledDown \/ Midnight \/ OthersLogin \/ OthersSave \/ SessionRestart
    PROVE  LockHeld' /\ TheirsLater' /\ LoginsPaidFor'
<1> USE SessionBounds
<1>1. CASE CooledDown \/ Midnight
  BY <1>1 DEF CooledDown, Midnight, shared, outside, locals, Fine,
              LockHeld, TheirsLater, LoginsPaidFor, LoginDue, DeadOnArrival
<1>2. CASE OthersLogin
  <2>1. /\ others = "idle" /\ others' = "writing" /\ live' = live \cup {Theirs} /\ env' = NoToken
        /\ mishaps' = mishaps + 1 /\ UNCHANGED <<shared, totp, expiries, locals>>
    BY <1>2 DEF OthersLogin, Mishap
  <2>2. LockHeld' /\ TheirsLater'
    BY <2>1 DEF LockHeld, TheirsLater, shared, locals, NoToken, Theirs
  <2>3. ~DeadOnArrival /\ ~DeadOnArrival'
    BY <2>1 DEF DeadOnArrival
  <2>4. QED
    BY <2>1, <2>2, <2>3 DEF LoginsPaidFor, Owed, SharedTyped
<1>3. CASE OthersSave
  <2>1. /\ others = "writing" /\ others' = "done" /\ env' = Theirs
        /\ UNCHANGED <<shared, live, totp, expiries, mishaps, locals>>
    BY <1>3 DEF OthersSave, Fine
  <2>2. LockHeld' /\ TheirsLater' /\ ~DeadOnArrival'
    BY <2>1 DEF LockHeld, TheirsLater, DeadOnArrival, shared, locals
  <2>3. ~DeadOnArrival => (LoginDue' => LoginDue)
    BY <2>1 DEF LoginDue, DeadOnArrival, shared, locals
  <2>4. QED
    BY <2>1, <2>2, <2>3 DEF LoginsPaidFor, Owed, SharedTyped
<1>4. CASE SessionRestart
  <2>1. /\ lock' = NoThread /\ api' = NoToken /\ UNCHANGED outside /\ mishaps' = mishaps + 1
        /\ pc' = [t \in Threads |-> "idle"] /\ held' = [t \in Threads |-> NoToken]
    BY <1>4 DEF SessionRestart, Mishap
  <2>2. LockHeld' /\ TheirsLater'
    BY <2>1 DEF LockHeld, TheirsLater, Inside, outside, NoToken, Theirs
  <2>3. DeadOnArrival' <=> DeadOnArrival
    BY <2>1 DEF DeadOnArrival, outside
  <2>4. QED
    BY <2>1, <2>2, <2>3 DEF LoginsPaidFor, Owed, outside, SharedTyped
<1>5. QED
  BY <1>1, <1>2, <1>3, <1>4

LEMMA SessionInvariant == SessionSpec => []SessionInv
<1>1. SessionInv /\ [SessionNext]_sessionVars => SessionInv'
  <2> SUFFICES ASSUME SessionInv, [SessionNext]_sessionVars PROVE SessionInv'
    OBVIOUS
  <2>1. SharedTyped /\ LocalsTyped /\ LockHeld /\ TheirsLater /\ LoginsPaidFor
    BY SessionTyped DEF SessionInv
  <2>2. SessionTypeOK'
    BY <2>1, SessionTypes DEF SessionTypeOK, SharedTyped, LocalsTyped, Tokens
  <2>3. ASSUME NEW t \in Threads, Proceeds(t) \/ Hiccup(t)
        PROVE  LockHeld' /\ TheirsLater' /\ LoginsPaidFor'
    <3>1. (Shape(t) /\ Away(t)) \/ (Shape(t) /\ LockHeld' /\ LoginsPaidFor')
      BY <2>1, <2>3, AwaySteps, InsideSteps DEF Proceeds, Hiccup
    <3>2. QED
      BY <2>1, <3>1, AwayStep, TheirsStep
  <2>4. ASSUME UNCHANGED sessionVars PROVE LockHeld' /\ TheirsLater' /\ LoginsPaidFor'
    <3>1. UNCHANGED <<api, lock, env, others, live, totp, pc, held, expiries, mishaps>>
      BY <2>4 DEF sessionVars, shared, outside, locals
    <3>2. LockHeld' /\ TheirsLater'
      BY <2>1, <3>1 DEF LockHeld, TheirsLater
    <3>3. (LoginDue' <=> LoginDue) /\ (DeadOnArrival' <=> DeadOnArrival)
      BY <3>1 DEF LoginDue, DeadOnArrival
    <3>4. QED
      BY <2>1, <3>1, <3>2, <3>3 DEF LoginsPaidFor, Owed
  <2>5. LockHeld' /\ TheirsLater' /\ LoginsPaidFor'
    <3>1. ASSUME NEW token \in live, Expire(token) PROVE LockHeld' /\ TheirsLater' /\ LoginsPaidFor'
      BY <2>1, <3>1, ExpireStep
    <3>2. CASE CooledDown \/ Midnight \/ OthersLogin \/ OthersSave \/ SessionRestart
      BY <2>1, <3>2, OutsideSteps
    <3>3. QED
      BY <2>3, <2>4, <3>1, <3>2 DEF SessionNext
  <2>6. QED
    BY <2>2, <2>5 DEF SessionInv
<1>2. QED
  BY <1>1, SessionStart, PTL DEF SessionSpec

\* The process makes no more TOTP logins than the first one, one per token that expired
\* and one per mishap (_ensure_logged_in, angel_fetcher.py): the stored token is tried
\* first, under the lock, whatever threads drop each other's sessions.
THEOREM LoginsAreSpared == SessionSpec => []TotpSpared
<1>1. SessionInv => TotpSpared
  BY DEF SessionInv, SessionTypeOK, LoginsPaidFor, Owed, TotpSpared
<1>2. QED
  BY <1>1, SessionInvariant, PTL

\* At most one thread is between the lock and its release, and every variable of the
\* session keeps its type (_lock, angel_fetcher.py).
THEOREM OneLogsIn ==
    SessionSpec => [](SessionTypeOK /\ \A t, u \in Threads : pc[t] \in Inside /\ pc[u] \in Inside => t = u)
<1>1. SessionInv => SessionTypeOK /\ \A t, u \in Threads : pc[t] \in Inside /\ pc[u] \in Inside => t = u
  BY DEF SessionInv, LockHeld
<1>2. QED
  BY <1>1, SessionInvariant, PTL

---------------------------------------------------------------------------
(* CandleArchive *)

LEMMA PageBounds ==
    /\ PageBars \in Nat /\ PageBars > 0 /\ NewestBar \in Nat /\ NewestBar > 0
    /\ \A n \in CallLimits : n \in Nat /\ n >= PageBars
  BY ArchiveAssumption

\* A set of naturals that is not empty has a least element, which is its Min.
LEMMA LeastBar ==
    ASSUME NEW S, S \subseteq Nat, S # {}
    PROVE  Min(S) \in S /\ \A k \in S : Min(S) <= k
<1>1. PICK n \in S : \A k \in S : ~ (<<k, n>> \in OpToRel(<, Nat))
  BY NatLessThanWellFounded, WFMin
<1>2. \A k \in S : k \in Nat /\ n \in Nat /\ ~(k < n)
  BY <1>1 DEF OpToRel
<1>3. n \in S /\ \A k \in S : n <= k
  BY <1>2
<1>4. QED
  BY <1>3 DEF Min

\* Where the page starts.
LEMMA PageStarts ==
    ASSUME pageEnd \in Int, pageEnd > 0
    PROVE  /\ PageStart \in Nat /\ PageStart < pageEnd /\ pageEnd <= PageStart + 2 * PageBars
           /\ PageStart = 0 \/ PageStart = pageEnd - 2 * PageBars
<1>1. PageStart = IF 0 >= pageEnd - 2 * PageBars THEN 0 ELSE pageEnd - 2 * PageBars
  BY PageBounds DEF PageStart, Max
<1>2. QED
  BY <1>1, PageBounds

InPage == {k \in bars : PageStart <= 2 * k /\ 2 * k <= pageEnd}
Newer(k) == {j \in InPage : j > k}

\* A bar of the page has at most a page of newer ones in it, and less than a page unless
\* it is the one the page starts with.
LEMMA NewerBars ==
    ASSUME ArchiveTyped, pageEnd > 0, NEW k \in InPage
    PROVE  /\ k \in Nat /\ Cardinality(Newer(k)) \in Nat /\ Cardinality(Newer(k)) <= PageBars
           /\ PageStart < 2 * k => Cardinality(Newer(k)) < PageBars
           /\ Newer(k) = {} => Cardinality(Newer(k)) = 0
<1> USE PageBounds
<1>1. PICK a \in 0 .. NewestBar, b \in 0 .. NewestBar : a <= b /\ bars = a .. b
  BY DEF ArchiveTyped
<1>2. k \in Nat /\ \A j \in InPage : j \in Nat
  BY <1>1 DEF InPage
<1>3. /\ PageStart \in Nat /\ pageEnd \in Int /\ pageEnd <= PageStart + 2 * PageBars
  BY PageStarts DEF ArchiveTyped
<1>4. Newer(k) \subseteq (k + 1) .. (k + PageBars)
  <2> SUFFICES ASSUME NEW j \in Newer(k) PROVE j \in (k + 1) .. (k + PageBars)
    OBVIOUS
  <2>1. j \in Nat /\ j > k /\ 2 * j <= pageEnd /\ PageStart <= 2 * k
    BY <1>2 DEF Newer, InPage
  <2>2. QED
    BY <1>2, <1>3, <2>1
<1>5. /\ IsFiniteSet((k + 1) .. (k + PageBars)) /\ Cardinality((k + 1) .. (k + PageBars)) = PageBars
  BY <1>2, FS_Interval
<1>6. /\ IsFiniteSet(Newer(k)) /\ Cardinality(Newer(k)) <= PageBars
  BY <1>4, <1>5, FS_Subset
<1>7. Cardinality(Newer(k)) \in Nat
  BY <1>6, FS_CardinalityType
<1>8. ASSUME PageStart < 2 * k PROVE Cardinality(Newer(k)) < PageBars
  <2>1. k + PageBars \notin Newer(k)
    BY <1>2, <1>3, <1>8 DEF Newer, InPage
  <2>2. k + PageBars \in (k + 1) .. (k + PageBars)
    BY <1>2
  <2>3. Cardinality(Newer(k)) # PageBars
    BY <1>4, <1>5, <2>1, <2>2, FS_Subset
  <2>4. QED
    BY <1>6, <1>7, <2>3
<1>9. QED
  BY <1>2, <1>6, <1>7, <1>8, FS_EmptySet

\* The exchange answers with every bar of the page, but perhaps the one it starts with; and
\* with that one too, unless a page is all it may answer with and there are newer bars.
LEMMA PageReached ==
    ASSUME ArchiveTyped, pageEnd > 0
    PROVE  /\ Answer \subseteq InPage
           /\ \A k \in InPage : PageStart < 2 * k => k \in Answer
           /\ \A k \in InPage : k \notin Answer => limit = PageBars /\ Newer(k) # {}
           /\ InPage # {} => Answer # {}
<1> USE PageBounds
<1>1. limit \in Nat /\ limit >= PageBars
  BY DEF ArchiveTyped
<1>2. Answer = {k \in InPage : Cardinality(Newer(k)) < limit}
  BY DEF Answer, InPage, Newer
<1>3. \A k \in InPage : PageStart < 2 * k => k \in Answer
  BY <1>1, <1>2, NewerBars
<1>4. \A k \in InPage : k \notin Answer => limit = PageBars /\ Newer(k) # {}
  BY <1>1, <1>2, NewerBars
<1>5. ASSUME NEW k \in InPage PROVE Answer # {}
  <2>1. CASE Newer(k) = {}
    BY <1>4, <2>1
  <2>2. CASE Newer(k) # {}
    <3>1. PICK j \in Newer(k) : TRUE
      BY <2>2
    <3>2. j \in InPage /\ j > k /\ PageStart <= 2 * k
      BY <3>1 DEF Newer, InPage
    <3>3. PageStart < 2 * j
      BY <3>2, NewerBars, PageStarts DEF ArchiveTyped
    <3>4. QED
      BY <1>3, <3>2, <3>3
  <2>3. QED
    BY <2>1, <2>2
<1>6. QED
  BY <1>2, <1>3, <1>4, <1>5

\* The least bar of an answer, and what is at or above it.
LEMMA OldestBar ==
    ASSUME ArchiveTyped, pageEnd > 0, Answer # {}
    PROVE  /\ Min(Answer) \in Answer /\ Min(Answer) \in InPage /\ Min(Answer) \in Nat
           /\ \A k \in Answer : k \in Nat /\ Min(Answer) <= k
<1>1. Answer \subseteq InPage /\ InPage \subseteq Nat
  BY PageReached, NewerBars
<1>2. QED
  BY <1>1, LeastBar

\* The contract's bars follow each other.
LEMMA BarsAreNumbers ==
    ASSUME ArchiveTyped
    PROVE  /\ bars \subseteq 0 .. NewestBar /\ bars # {}
           /\ \A i, k \in bars : \A j \in Int : i <= j /\ j <= k => j \in bars
<1>1. PICK a \in 0 .. NewestBar, b \in 0 .. NewestBar : a <= b /\ bars = a .. b
  BY DEF ArchiveTyped
<1>2. a \in Nat /\ b \in Nat /\ b <= NewestBar /\ a \in bars
  BY <1>1, PageBounds
<1>3. bars \subseteq 0 .. NewestBar
  BY <1>1, <1>2, PageBounds
<1>4. \A i, k \in bars : \A j \in Int : i <= j /\ j <= k => j \in bars
  BY <1>1, <1>2
<1>5. QED
  BY <1>2, <1>3, <1>4

\* The window's first bar is left over only by an answer that is full.
LEMMA FirstBarLeft ==
    ASSUME ArchiveTyped, pageEnd > 0, PageStart = 0, 0 \in bars, 0 \notin Answer
    PROVE  limit = PageBars /\ 1 \in bars
<1>1. 0 \in InPage
  BY DEF InPage, ArchiveTyped
<1>2. limit = PageBars /\ Newer(0) # {}
  BY <1>1, PageReached
<1>3. PICK j \in Newer(0) : TRUE
  BY <1>2
<1>4. j \in bars /\ j > 0 /\ j \in Int
  BY <1>3, BarsAreNumbers, PageBounds DEF Newer, InPage
<1>5. QED
  BY <1>2, <1>4, BarsAreNumbers

\* A page that has an answer, of the pullers that stop at one without: the next page ends
\* where nothing above it is missing.
LEMMA NextPageMeets ==
    ASSUME ArchiveTyped, PagesMeet, fetching = "paging", pageEnd > 0, Answer # {},
           puller # "angel", NEW next, next = NextEnd
    PROVE  /\ next \in Int /\ next < pageEnd
           /\ pulled \cup Answer = {k \in bars : 2 * k > next}
           /\ next = 0 /\ 0 \in bars => limit = PageBars /\ 1 \in bars
<1> DEFINE oldest == Min(Answer)
<1>1. /\ oldest \in Nat /\ oldest \in Answer /\ PageStart <= 2 * oldest /\ 2 * oldest <= pageEnd
      /\ \A k \in Answer : k \in Nat /\ oldest <= k
  BY OldestBar DEF InPage
<1>2. /\ PageStart \in Nat /\ PageStart < pageEnd /\ pageEnd \in Int
  BY PageStarts DEF ArchiveTyped
<1>3. /\ bars \subseteq Nat /\ Answer \subseteq bars
      /\ \A k \in bars : PageStart < 2 * k /\ 2 * k <= pageEnd => k \in Answer
  <2>1. bars \subseteq Nat
    BY BarsAreNumbers, PageBounds
  <2>2. Answer \subseteq bars
    BY PageReached DEF InPage
  <2>3. \A k \in bars : PageStart < 2 * k /\ 2 * k <= pageEnd => k \in InPage
    BY <1>2, <2>1 DEF InPage
  <2>4. QED
    BY <2>1, <2>2, <2>3, PageReached
<1>4. pulled = {k \in bars : 2 * k > pageEnd}
  BY DEF PagesMeet, PastPages
<1>5. CASE next = 2 * oldest - 1
  <2>1. next \in Int /\ next < pageEnd /\ next # 0
    BY <1>1, <1>2, <1>5
  <2>2. ASSUME NEW k \in bars, 2 * k > next PROVE k \in pulled \cup Answer
    <3>1. k \in Nat /\ k >= oldest
      BY <1>1, <1>3, <1>5, <2>2
    <3>2. CASE k = oldest
      BY <1>1, <3>2
    <3>3. CASE k > oldest
      BY <1>1, <1>2, <1>3, <1>4, <3>1, <3>3
    <3>4. QED
      BY <1>1, <3>1, <3>2, <3>3
  <2>3. \A k \in pulled \cup Answer : k \in bars /\ 2 * k > next
    BY <1>1, <1>2, <1>3, <1>4, <1>5
  <2>4. QED
    BY <2>1, <2>2, <2>3
<1>6. CASE next = PageStart /\ 2 * oldest > PageStart
  <2>1. next \in Int /\ next < pageEnd
    BY <1>2, <1>6
  <2>2. \A k \in bars : 2 * k > next => k \in pulled \cup Answer
    BY <1>2, <1>3, <1>4, <1>6
  <2>3. \A k \in pulled \cup Answer : k \in bars /\ 2 * k > next
    BY <1>1, <1>2, <1>3, <1>4, <1>6
  <2>4. ASSUME next = 0, 0 \in bars PROVE limit = PageBars /\ 1 \in bars
    BY <1>1, <1>2, <1>6, <2>4, FirstBarLeft
  <2>5. QED
    BY <2>1, <2>2, <2>3, <2>4
<1>7. next = 2 * oldest - 1 \/ (next = PageStart /\ 2 * oldest > PageStart)
  <2>1. CASE puller = "delta"
    BY <2>1 DEF NextEnd, DeltaEnd, Settled
  <2>2. CASE puller \in Settled
    BY <1>1, <1>2, <2>2 DEF NextEnd, ArchiveEnd, Settled
  <2>3. QED
    BY <2>1, <2>2 DEF ArchiveTyped, Pullers
<1>8. QED
  BY <1>5, <1>6, <1>7

\* A page without an answer has no bar: what was pulled is all there is, or nothing was, and
\* the first page is empty.
LEMMA EmptyPageEnds ==
    ASSUME ArchiveTyped, PagesMeet, fetching = "paging", pageEnd > 0, Answer = {}, puller # "angel"
    PROVE  (pulled = {} /\ ~Recent) \/ (pulled # {} /\ pulled = bars)
<1> USE PageBounds
<1>1. /\ PageStart \in Nat /\ pageEnd \in Int /\ pageEnd <= PageStart + 2 * PageBars
      /\ PageStart = 0 \/ PageStart = pageEnd - 2 * PageBars
  BY PageStarts DEF ArchiveTyped
<1>2. /\ pulled = {k \in bars : 2 * k > pageEnd} /\ (pulled = {} => pageEnd = 2 * NewestBar)
  BY DEF PagesMeet, PastPages
<1>3. \A k \in bars : ~(PageStart <= 2 * k /\ 2 * k <= pageEnd)
  BY PageReached DEF InPage
<1>4. bars \subseteq 0 .. NewestBar
  BY BarsAreNumbers
<1>5. CASE pulled = {}
  <2>1. ASSUME NEW k \in bars, k >= NewestBar - PageBars PROVE FALSE
    <3>1. k \in Nat /\ k <= NewestBar
      BY <1>4
    <3>2. pageEnd = 2 * NewestBar
      BY <1>2, <1>5
    <3>3. PageStart <= 2 * k /\ 2 * k <= pageEnd
      BY <1>1, <2>1, <3>1, <3>2
    <3>4. QED
      BY <1>3, <3>3
  <2>2. QED
    BY <1>5, <2>1 DEF Recent
<1>6. ASSUME NEW k \in pulled, NEW j \in bars PROVE j \in pulled
  <2>1. CASE 2 * j > pageEnd
    BY <1>2, <2>1
  <2>2. CASE 2 * j <= pageEnd
    <3> DEFINE m == pageEnd \div 2
    <3>1. j \in Nat /\ k \in Nat /\ k \in bars /\ 2 * k > pageEnd
      BY <1>2, <1>4
    <3>2. m \in Int /\ 2 * m <= pageEnd /\ pageEnd < 2 * m + 2
      BY <1>1
    <3>3. j <= m /\ m <= k
      BY <1>1, <2>2, <3>1, <3>2
    <3>4. m \in bars
      BY <3>1, <3>2, <3>3, BarsAreNumbers
    <3>5. PageStart <= 2 * m
      BY <1>1, <3>1, <3>2, <3>3
    <3>6. QED
      BY <1>3, <3>2, <3>4, <3>5
  <2>3. QED
    BY <1>1, <1>4, <2>1, <2>2
<1>7. pulled \subseteq bars
  BY <1>2
<1>8. QED
  BY <1>5, <1>6, <1>7

\* A page keeps the invariant: an empty one, one that an answer leads on from, and a chunk.
LEMMA PullStep ==
    ASSUME ArchiveInv, PullPage
    PROVE  ArchiveInv'
<1> USE PageBounds
<1>1. ArchiveTyped /\ PagesMeet /\ PulledIsWhole /\ FileIsWhole
  BY DEF ArchiveInv
<1>2. /\ fetching = "paging" /\ pageEnd > 0 /\ pageEnd \in Int /\ pulled' = pulled \cup Answer
      /\ UNCHANGED <<puller, limit, bars, file, spoiled, hitches>>
  BY <1>1 DEF PullPage, Normalised, ArchiveTyped
<1>3. Answer \subseteq bars /\ bars \subseteq 0 .. NewestBar /\ bars # {}
  BY <1>1, <1>2, PageReached, BarsAreNumbers DEF InPage
<1>4. pulled' \subseteq bars
  BY <1>1, <1>2, <1>3 DEF ArchiveTyped
<1>5. CASE puller # "angel" /\ Answer = {}
  <2>1. fetching' = "saving" /\ pageEnd' = pageEnd /\ pulled' = pulled
    BY <1>2, <1>5 DEF PullPage
  <2>2. ArchiveTyped'
    BY <1>1, <1>2, <1>4, <2>1 DEF ArchiveTyped
  <2>3. PagesMeet'
    BY <2>1 DEF PagesMeet
  <2>4. PulledIsWhole'
    <3>1. (pulled = {} /\ ~Recent) \/ (pulled # {} /\ pulled = bars)
      BY <1>1, <1>2, <1>5, EmptyPageEnds
    <3>2. Recent' <=> Recent
      BY <1>2 DEF Recent
    <3>3. QED
      BY <1>2, <1>5, <2>1, <3>1, <3>2 DEF PulledIsWhole
  <2>5. FileIsWhole'
    BY <1>1, <1>2, <2>1 DEF FileIsWhole, Recent
  <2>6. QED
    BY <2>2, <2>3, <2>4, <2>5 DEF ArchiveInv
<1>6. CASE puller # "angel" /\ Answer # {}
  <2>1. fetching' = "paging" /\ pageEnd' = NextEnd
    BY <1>2, <1>6 DEF PullPage
  <2>2. /\ pageEnd' \in Int /\ pageEnd' < pageEnd /\ pulled' = {k \in bars : 2 * k > pageEnd'}
        /\ pageEnd' = 0 /\ 0 \in bars => limit = PageBars /\ 1 \in bars
    BY <1>1, <1>2, <1>6, <2>1, NextPageMeets
  <2>3. ArchiveTyped'
    BY <1>1, <1>2, <1>4, <2>1, <2>2 DEF ArchiveTyped
  <2>4. pulled' # {} /\ ~spoiled
    BY <1>1, <1>2, <1>6 DEF PagesMeet
  <2>5. PagesMeet'
    BY <1>2, <1>6, <2>2, <2>4 DEF PagesMeet, PastPages
  <2>6. Recent
    <3>1. CASE pulled = {}
      <4>1. pageEnd = 2 * NewestBar
        BY <1>1, <1>2, <1>6, <3>1 DEF PagesMeet
      <4>2. PICK k \in Answer : TRUE
        BY <1>6
      <4>3. k \in bars /\ k \in Nat /\ PageStart <= 2 * k
        BY <1>1, <1>2, <1>3, PageReached DEF InPage
      <4>4. PageStart \in Nat /\ pageEnd <= PageStart + 2 * PageBars
        BY <1>2, PageStarts
      <4>5. k >= NewestBar - PageBars
        BY <4>1, <4>3, <4>4
      <4>6. QED
        BY <4>3, <4>5 DEF Recent
    <3>2. CASE pulled # {}
      BY <1>1, <1>6, <3>2 DEF FileIsWhole
    <3>3. QED
      BY <3>1, <3>2
  <2>7. FileIsWhole'
    BY <1>1, <1>2, <2>1, <2>6 DEF FileIsWhole, Recent
  <2>8. PulledIsWhole'
    BY <2>1 DEF PulledIsWhole
  <2>9. QED
    BY <2>3, <2>5, <2>7, <2>8 DEF ArchiveInv
<1>7. CASE puller = "angel"
  <2>1. fetching' = "paging" /\ pageEnd' = PageStart
    BY <1>2, <1>7 DEF PullPage, NextEnd, ChunkEnd, Settled
  <2>2. PageStart \in Nat /\ PageStart < pageEnd
    BY <1>2, PageStarts
  <2>3. ArchiveTyped'
    BY <1>1, <1>2, <1>4, <2>1, <2>2 DEF ArchiveTyped
  <2>4. ASSUME ~spoiled PROVE PastPages' \subseteq pulled'
    <3> SUFFICES ASSUME NEW k \in bars, 2 * k > PageStart PROVE k \in pulled \cup Answer
      BY <1>2, <2>1 DEF PastPages
    <3>1. CASE 2 * k > pageEnd
      BY <1>1, <1>2, <2>4, <3>1 DEF PagesMeet, PastPages
    <3>2. CASE 2 * k <= pageEnd
      BY <1>1, <1>2, <1>3, <2>2, <3>2, PageReached DEF InPage
    <3>3. QED
      BY <1>2, <1>3, <3>1, <3>2
  <2>5. ASSUME PageStart = 0, 0 \in bars, 0 \notin Answer PROVE limit = PageBars /\ 1 \in bars
    BY <1>1, <1>2, <2>5, FirstBarLeft
  <2>6. PagesMeet'
    BY <1>2, <1>7, <2>1, <2>4, <2>5 DEF PagesMeet
  <2>7. FileIsWhole'
    BY <1>1, <1>2, <1>7, <2>1 DEF FileIsWhole, Settled
  <2>8. PulledIsWhole'
    BY <2>1 DEF PulledIsWhole
  <2>9. QED
    BY <2>3, <2>6, <2>7, <2>8 DEF ArchiveInv
<1>8. QED
  BY <1>5, <1>6, <1>7

\* The other steps of a pull, and of its file.
LEMMA FileSteps ==
    ASSUME ArchiveInv, BeginPull \/ PageFails \/ LastPage \/ SavePulled \/ KilledWhileSaving
    PROVE  ArchiveInv'
<1> USE PageBounds
<1>1. ArchiveTyped /\ PagesMeet /\ PulledIsWhole /\ FileIsWhole
  BY DEF ArchiveInv
<1>2. /\ bars \subseteq 0 .. NewestBar /\ bars # {} /\ pulled \subseteq bars /\ file \subseteq bars
      /\ pageEnd \in Int
  BY <1>1, BarsAreNumbers DEF ArchiveTyped
<1>3. CASE BeginPull
  <2>1. /\ fetching = "idle" /\ fetching' = "paging" /\ pageEnd' = 2 * NewestBar /\ pulled' = {}
        /\ spoiled' = FALSE /\ UNCHANGED <<puller, limit, bars, file>>
    BY <1>3 DEF BeginPull
  <2>2. puller \in Settled => file = {}
    BY <1>3 DEF BeginPull, Cached, FileExists
  <2>3. ArchiveTyped'
    <3>1. pageEnd' \in Int /\ pageEnd' <= 2 * NewestBar
      BY <2>1
    <3>2. pulled' \subseteq bars'
      BY <2>1
    <3>3. spoiled' \in BOOLEAN
      BY <2>1
    <3>4. QED
      BY <1>1, <2>1, <3>1, <3>2, <3>3 DEF ArchiveTyped
  <2>4. PastPages' = {}
    <3>1. \A k \in bars : ~(2 * k > 2 * NewestBar)
      BY <1>2
    <3>2. QED
      BY <2>1, <3>1 DEF PastPages
  <2>5. PagesMeet' /\ PulledIsWhole'
    BY <2>1, <2>4 DEF PagesMeet, PulledIsWhole
  <2>6. FileIsWhole'
    BY <1>1, <2>1, <2>2 DEF FileIsWhole, Recent
  <2>7. QED
    BY <2>3, <2>5, <2>6 DEF ArchiveInv
<1>4. CASE PageFails
  <2>1. /\ fetching = "paging" /\ pageEnd > 0 /\ spoiled' = TRUE
        /\ UNCHANGED <<puller, limit, bars, file>>
    BY <1>4 DEF PageFails
  <2>2. CASE Raises
    <3>1. fetching' = "idle" /\ pulled' = {} /\ pageEnd' = pageEnd /\ puller \in Settled
      BY <2>2 DEF Raises
    <3>2. ArchiveTyped'
      BY <1>1, <2>1, <3>1 DEF ArchiveTyped
    <3>3. PagesMeet' /\ PulledIsWhole'
      BY <3>1 DEF PagesMeet, PulledIsWhole
    <3>4. FileIsWhole'
      BY <1>1, <2>1, <3>1 DEF FileIsWhole, Recent
    <3>5. QED
      BY <3>2, <3>3, <3>4 DEF ArchiveInv
  <2>3. CASE StopsThere
    <3>1. fetching' = "saving" /\ UNCHANGED <<pageEnd, pulled>> /\ puller = "delta"
      BY <2>3 DEF StopsThere
    <3>2. ArchiveTyped'
      BY <1>1, <2>1, <3>1 DEF ArchiveTyped
    <3>3. PagesMeet' /\ PulledIsWhole'
      BY <1>1, <1>2, <2>1, <3>1 DEF PagesMeet, PulledIsWhole, PastPages
    <3>4. FileIsWhole'
      BY <1>1, <2>1, <3>1 DEF FileIsWhole, Recent
    <3>5. QED
      BY <3>2, <3>3, <3>4 DEF ArchiveInv
  <2>4. CASE SkipsChunk
    <3>1. pageEnd' = PageStart /\ UNCHANGED <<fetching, pulled>> /\ puller = "angel"
      BY <2>4 DEF SkipsChunk, ChunkEnd
    <3>2. PageStart \in Nat /\ PageStart < pageEnd
      BY <1>2, <2>1, PageStarts
    <3>3. ArchiveTyped'
      BY <1>1, <2>1, <3>1, <3>2 DEF ArchiveTyped
    <3>4. PagesMeet' /\ PulledIsWhole'
      BY <2>1, <3>1 DEF PagesMeet, PulledIsWhole
    <3>5. FileIsWhole'
      BY <1>1, <2>1, <3>1 DEF FileIsWhole, Recent, Settled
    <3>6. QED
      BY <3>3, <3>4, <3>5 DEF ArchiveInv
  <2>5. QED
    BY <1>4, <2>2, <2>3, <2>4 DEF PageFails
<1>5. CASE LastPage
  <2>1. /\ fetching = "paging" /\ pageEnd <= 0 /\ fetching' = "saving"
        /\ UNCHANGED <<puller, limit, bars, pageEnd, pulled, file, spoiled>>
    BY <1>5 DEF LastPage
  <2>2. \A k \in bars : k # 0 => k \in PastPages
    BY <1>2, <2>1 DEF PastPages
  <2>3. 0 \in bars /\ pageEnd # 0 => 0 \in PastPages
    BY <1>2, <2>1 DEF PastPages
  <2>4. ASSUME ~spoiled
        PROVE  pulled # {} /\ (pulled = bars \/ (limit = PageBars /\ pulled = bars \ {0}))
    <3>1. PastPages \subseteq pulled /\ (pageEnd = 0 /\ 0 \in bars \ pulled => limit = PageBars /\ 1 \in bars)
      BY <1>1, <2>1, <2>4 DEF PagesMeet
    <3>2. CASE 0 \in bars \ pulled
      <4>1. pageEnd = 0
        BY <2>3, <3>1, <3>2
      <4>2. limit = PageBars /\ 1 \in bars
        BY <3>1, <3>2, <4>1
      <4>3. 1 \in pulled
        BY <2>2, <3>1, <4>2
      <4>4. pulled = bars \ {0}
        BY <1>2, <2>2, <3>1, <3>2
      <4>5. QED
        BY <4>2, <4>3, <4>4
    <3>3. CASE 0 \notin bars \ pulled
      BY <1>2, <2>2, <3>1, <3>3
    <3>4. QED
      BY <3>2, <3>3
  <2>5. puller # "angel" => \A k \in pulled, j \in bars : k <= j => j \in pulled
    BY <1>1, <1>2, <2>1 DEF PagesMeet, PastPages
  <2>6. ArchiveTyped'
    BY <1>1, <2>1 DEF ArchiveTyped
  <2>7. PagesMeet' /\ PulledIsWhole'
    BY <2>1, <2>4, <2>5 DEF PagesMeet, PulledIsWhole
  <2>8. FileIsWhole'
    BY <1>1, <2>1 DEF FileIsWhole, Recent
  <2>9. QED
    BY <2>6, <2>7, <2>8 DEF ArchiveInv
<1>6. CASE SavePulled
  <2>1. /\ fetching = "saving" /\ fetching' = "idle" /\ file' \in {pulled, file}
        /\ UNCHANGED <<puller, limit, bars, pageEnd, pulled, spoiled>>
    BY <1>6 DEF SavePulled
  <2>2. ArchiveTyped'
    BY <1>1, <2>1 DEF ArchiveTyped
  <2>3. PagesMeet' /\ PulledIsWhole'
    BY <2>1 DEF PagesMeet, PulledIsWhole
  <2>4. ASSUME ~spoiled PROVE file' = {} \/ Whole'
    <3>1. CASE WorthSaving
      <4>1. file' = pulled /\ pulled # {}
        BY <1>6, <3>1 DEF SavePulled, WorthSaving
      <4>2. QED
        BY <1>1, <2>1, <2>4, <4>1 DEF PulledIsWhole, Whole
    <3>2. CASE ~WorthSaving
      <4>1. file' = file
        BY <1>6, <3>2 DEF SavePulled
      <4>2. CASE puller \in Settled
        BY <1>1, <2>1, <4>1, <4>2 DEF FileIsWhole
      <4>3. CASE puller \notin Settled
        <5>1. pulled = {}
          BY <3>2, <4>3 DEF WorthSaving, LongEnough, Settled
        <5>2. puller # "angel" /\ ~Recent
          BY <1>1, <2>1, <2>4, <5>1 DEF PulledIsWhole
        <5>3. QED
          BY <1>1, <4>1, <5>2 DEF FileIsWhole
      <4>4. QED
        BY <4>2, <4>3
    <3>3. QED
      BY <3>1, <3>2
  <2>5. ASSUME puller # "angel"
        PROVE  /\ \A i, k \in file', j \in bars : i <= j /\ j <= k => j \in file'
               /\ pulled # {} \/ file' # {} => Recent
    BY <1>1, <2>1, <2>5 DEF FileIsWhole, PulledIsWhole
  <2>6. FileIsWhole'
    BY <2>1, <2>4, <2>5 DEF FileIsWhole, Recent
  <2>7. QED
    BY <2>2, <2>3, <2>6 DEF ArchiveInv
<1>7. CASE KilledWhileSaving
  <2>1. PICK last \in pulled : file' = {k \in pulled : k < last}
    BY <1>7 DEF KilledWhileSaving
  <2>2. /\ fetching = "saving" /\ fetching' = "idle" /\ spoiled' = TRUE
        /\ UNCHANGED <<puller, limit, bars, pageEnd, pulled>>
    BY <1>7 DEF KilledWhileSaving
  <2>3. ArchiveTyped'
    BY <1>1, <1>2, <2>1, <2>2 DEF ArchiveTyped
  <2>4. PagesMeet' /\ PulledIsWhole'
    BY <2>2 DEF PagesMeet, PulledIsWhole
  <2>5. ASSUME puller # "angel", NEW i \in file', NEW k \in file', NEW j \in bars, i <= j, j <= k
        PROVE  j \in file'
    <3>1. i \in pulled /\ k \in pulled /\ k < last
      BY <2>1
    <3>2. j \in pulled
      BY <1>1, <2>2, <2>5, <3>1 DEF PulledIsWhole
    <3>3. i \in Int /\ j \in Int /\ k \in Int /\ last \in Int
      BY <1>2, <2>1, <3>1
    <3>4. QED
      BY <2>1, <2>5, <3>1, <3>2, <3>3
  <2>6. FileIsWhole'
    BY <1>1, <2>1, <2>2, <2>5 DEF FileIsWhole, Recent
  <2>7. QED
    BY <2>3, <2>4, <2>6 DEF ArchiveInv
<1>8. QED
  BY <1>3, <1>4, <1>5, <1>6, <1>7

LEMMA ArchiveInvariant == ArchiveSpec => []ArchiveInv
<1>1. ArchiveInit => ArchiveInv
  <2> SUFFICES ASSUME ArchiveInit PROVE ArchiveInv
    OBVIOUS
  <2>1. ArchiveTyped
    <3>1. \E a, b \in 0 .. NewestBar : a <= b /\ bars = a .. b
      BY DEF ArchiveInit
    <3>2. pageEnd \in Int /\ pageEnd <= 2 * NewestBar
      BY PageBounds DEF ArchiveInit
    <3>3. spoiled \in BOOLEAN
      BY DEF ArchiveInit
    <3>4. QED
      BY <3>1, <3>2, <3>3 DEF ArchiveInit, ArchiveTyped
  <2>2. PagesMeet /\ PulledIsWhole /\ FileIsWhole
    BY DEF ArchiveInit, PagesMeet, PulledIsWhole, FileIsWhole
  <2>3. QED
    BY <2>1, <2>2 DEF ArchiveInv
<1>2. ArchiveInv /\ [ArchiveNext]_archiveVars => ArchiveInv'
  <2> SUFFICES ASSUME ArchiveInv, [ArchiveNext]_archiveVars PROVE ArchiveInv'
    OBVIOUS
  <2>1. CASE UNCHANGED archiveVars
    BY <2>1 DEF archiveVars, ArchiveInv, ArchiveTyped, PagesMeet, PulledIsWhole, FileIsWhole, Whole,
                PastPages, Recent
  <2>2. QED
    BY <2>1, PullStep, FileSteps DEF ArchiveNext
<1>3. QED
  BY <1>1, <1>2, PTL DEF ArchiveSpec

\* A set of bars without a hole is the range from its least to its greatest.
LEMMA NoHoleIsGapless ==
    ASSUME NEW S, S \subseteq bars, ArchiveTyped,
           \A i, k \in S, j \in bars : i <= j /\ j <= k => j \in S
    PROVE  Gapless(S)
<1> USE PageBounds
<1>1. bars \subseteq 0 .. NewestBar
  BY BarsAreNumbers
<1>2. CASE S = {}
  BY <1>2 DEF Gapless
<1>3. CASE S # {}
  <2>1. Min(S) \in S /\ \A k \in S : Min(S) <= k
    <3>1. S \subseteq Nat
      BY <1>1
    <3>2. QED
      BY <1>3, <3>1, LeastBar
  <2>2. Max(S) \in S /\ \A k \in S : k <= Max(S)
    <3> DEFINE T == {NewestBar - k : k \in S}
    <3>1. T \subseteq Nat /\ T # {}
      <4>1. \A k \in S : NewestBar - k \in Nat
        BY <1>1
      <4>2. PICK k \in S : TRUE
        BY <1>3
      <4>3. NewestBar - k \in T
        BY <4>2
      <4>4. QED
        BY <4>1, <4>3
    <3>2. Min(T) \in T /\ \A n \in T : Min(T) <= n
      BY <3>1, LeastBar
    <3>3. PICK m \in S : Min(T) = NewestBar - m
      BY <3>2
    <3>4. \A k \in S : NewestBar - m <= NewestBar - k /\ k \in Nat /\ m \in Nat
      <4>1. S \subseteq Nat
        BY <1>1
      <4>2. \A k \in S : NewestBar - k \in T
        OBVIOUS
      <4>3. QED
        BY <3>2, <3>3, <4>1, <4>2
    <3>5. \A k \in S : m >= k
      BY <3>4
    <3>6. Max(S) \in S /\ \A k \in S : Max(S) >= k
      BY <3>5 DEF Max
    <3>7. QED
      BY <1>1, <3>6
  <2>3. ASSUME NEW j \in Min(S) .. Max(S) PROVE j \in S
    <3>1. Min(S) \in bars /\ Max(S) \in bars /\ j \in Int
      <4>1. Min(S) \in bars /\ Max(S) \in bars
        BY <2>1, <2>2
      <4>2. \A k \in bars : k \in Int
        BY <1>1
      <4>3. QED
        BY <4>1, <4>2
    <3>2. Min(S) <= j /\ j <= Max(S)
      BY <1>1, <3>1
    <3>3. j \in bars
      BY <3>1, <3>2, BarsAreNumbers
    <3>4. QED
      BY <2>1, <2>2, <3>2, <3>3
  <2>4. S \subseteq Min(S) .. Max(S)
    <3>1. S \subseteq Nat
      BY <1>1
    <3>2. QED
      BY <2>1, <2>2, <3>1
  <2>5. QED
    BY <2>3, <2>4 DEF Gapless
<1>4. QED
  BY <1>2, <1>3

\* A file that was made without a failure holds every bar of its contract (but the window's
\* first, see Whole), and whatever failed, the archive's files and Delta's have no hole
\* (fetch_candles, fetch_delta_history.py:151, and fetch_delta, ohlc.py:103).
THEOREM ArchiveIsWholeTheorem == ArchiveSpec => []ArchiveIsWhole
<1>1. ArchiveInv => ArchiveIsWhole
  <2> SUFFICES ASSUME ArchiveInv PROVE ArchiveIsWhole
    OBVIOUS
  <2>1. ArchiveTyped /\ FileIsWhole /\ file \subseteq bars /\ fetching \in {"idle", "paging", "saving"}
    BY DEF ArchiveInv, ArchiveTyped
  <2>2. file = {} \/ spoiled \/ fetching # "idle" \/ Whole
    BY <2>1 DEF FileIsWhole
  <2>3. ASSUME puller # "angel" PROVE Gapless(file)
    BY <2>1, <2>3, NoHoleIsGapless DEF FileIsWhole
  <2>4. QED
    BY <2>2, <2>3 DEF ArchiveIsWhole
<1>2. QED
  BY <1>1, ArchiveInvariant, PTL
=============================================================================
