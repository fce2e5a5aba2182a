---------------------------- MODULE AngelSession ----------------------------
(***************************************************************************)
(* The login that every call to Angel One goes through                     *)
(* (data/angel_fetcher.py): one AngelFetcher per process, shared by the    *)
(* threads that make calls, and the .env file its tokens are kept in,      *)
(* which the containers share.  One of the threads is the loop of          *)
(* AngelStream (nse/ws/angel_stream.py), which takes its token from .env.  *)
(*                                                                         *)
(* A token is a number: those of this process count its TOTP logins.  The  *)
(* data of an answer is left out, so the calls that treat it alike are one *)
(* kind of call.  Backoffs and the cooldown pass at any time.              *)
(***************************************************************************)
EXTENDS Integers, FiniteSets

CONSTANTS
    Callers,        \* threads that call the fetcher
    Stream,         \* the thread of AngelStream
    KindsOf,        \* KindsOf[t]: the kinds of call thread t makes
    MaxEvents       \* bound: midnights, expiries and mishaps, taken together

Kinds == {"quote", "ltp", "candle", "vix", "book", "blind", "forced"}

Threads == Callers \cup {Stream}
NoThread == "none"

ASSUME AngelSessionAssumption ==
    /\ Stream \notin Callers /\ NoThread \notin Threads
    /\ KindsOf \in [Callers -> SUBSET Kinds]
    /\ MaxEvents \in Nat

NoToken == 0
Theirs == -1        \* the token of another container

VARIABLES
    today,
    api, loginDate,     \* _api and _login_date
    cooling,            \* _failed_at is less than _LOGIN_RETRY_SECS ago
    candleFailures,     \* _candle_failures
    lock,               \* the thread in AngelFetcher._lock
    env, others,        \* the token in .env; where another container's login is
    live,               \* the tokens Angel One accepts
    totp,               \* TOTP logins of this process
    pc, kind, seen, held, retried,   \* a thread's place, call, now, token, second try
    expiries, mishaps   \* tokens that expired, calls and processes that failed

shared == <<api, loginDate, cooling, candleFailures, lock>>
outside == <<today, env, others, live, totp, expiries>>
locals == <<pc, kind, seen, held, retried>>
sessionVars == <<shared, outside, locals, mishaps>>

Days == 1 .. MaxEvents + 1
Room == (today - 1) + expiries + mishaps < MaxEvents

Places == {"idle", "want", "queue", "profile", "totp", "save", "saving",
           "call", "sent", "drop", "open"}

SessionTypeOK ==
    /\ today \in Days /\ loginDate \in {0} \cup Days
    /\ cooling \in BOOLEAN /\ candleFailures \in 0 .. 2
    /\ lock \in Threads \cup {NoThread} /\ others \in {"idle", "writing", "done"}
    /\ totp \in Nat /\ live \subseteq {Theirs} \cup 1 .. totp
    /\ {api, env} \subseteq {Theirs} \cup 0 .. totp
    /\ pc \in [Threads -> Places] /\ kind \in [Threads -> Kinds \cup {"stream"}]
    /\ seen \in [Threads -> {0} \cup Days] /\ held \in [Threads -> {Theirs} \cup 0 .. totp]
    /\ retried \in [Threads -> BOOLEAN]
    /\ {expiries, mishaps} \subseteq 0 .. MaxEvents

SessionInit ==
    /\ today = 1 /\ api = NoToken /\ loginDate = 0 /\ cooling = FALSE
    /\ candleFailures = 0 /\ lock = NoThread /\ env = NoToken /\ others = "idle"
    /\ live = {} /\ totp = 0
    /\ pc = [t \in Threads |-> "idle"] /\ kind = [t \in Threads |-> "stream"]
    /\ seen = [t \in Threads |-> 0] /\ held = [t \in Threads |-> NoToken]
    /\ retried = [t \in Threads |-> FALSE]
    /\ expiries = 0 /\ mishaps = 0

Mishap == Room /\ mishaps' = mishaps + 1
Fine == UNCHANGED mishaps

Goto(t, place) == pc' = [pc EXCEPT ![t] = place]

\* A call returns: its local variables are gone.
Return(t) ==
    /\ Goto(t, "idle")
    /\ kind' = [kind EXCEPT ![t] = "stream"] /\ seen' = [seen EXCEPT ![t] = 0]
    /\ held' = [held EXCEPT ![t] = NoToken] /\ retried' = [retried EXCEPT ![t] = FALSE]

(***************************************************************************)
(* _ensure_logged_in.                                                      *)
(***************************************************************************)
LoggedIn(t) == api # NoToken /\ loginDate = seen[t]
Refused(t) == cooling /\ kind[t] # "forced"

\* A thread comes to need the session.
Begin(t, k) ==
    /\ pc[t] = "idle"
    /\ IF t = Stream THEN k = "stream" ELSE k \in KindsOf[t]
    /\ Goto(t, "want") /\ kind' = [kind EXCEPT ![t] = k] /\ seen' = [seen EXCEPT ![t] = today]
    /\ UNCHANGED <<shared, outside, held, retried>> /\ Fine

\* The checks outside the lock ...
Check(t) ==
    /\ pc[t] = "want"
    /\ \/ LoggedIn(t) /\ Goto(t, "call") /\ UNCHANGED <<kind, seen, held, retried>>
       \/ ~LoggedIn(t) /\ Refused(t) /\ Return(t)
       \/ ~LoggedIn(t) /\ ~Refused(t) /\ Goto(t, "queue") /\ UNCHANGED <<kind, seen, held, retried>>
    /\ UNCHANGED <<shared, outside>> /\ Fine

\* Fault: the stored token is not looked at.
NothingStored == NoToken

\* The token of the last session anybody saved.
Stored == env

\* ... and once more inside it, before .env is read.
Enter(t) ==
    /\ pc[t] = "queue" /\ lock = NoThread
    /\ \/ LoggedIn(t) /\ Goto(t, "call") /\ UNCHANGED <<lock, kind, seen, held, retried>>
       \/ ~LoggedIn(t) /\ Refused(t) /\ Return(t) /\ UNCHANGED lock
       \/ /\ ~LoggedIn(t) /\ ~Refused(t)
          /\ lock' = t /\ held' = [held EXCEPT ![t] = Stored]
          /\ Goto(t, "profile") /\ UNCHANGED <<kind, seen, retried>>
    /\ UNCHANGED <<api, loginDate, cooling, candleFailures, outside>> /\ Fine

\* The session becomes this one; the thread goes on to its next place.
Adopt(t, token, place) ==
    /\ api' = token /\ loginDate' = seen[t] /\ cooling' = FALSE
    /\ held' = [held EXCEPT ![t] = IF place = "call" THEN NoToken ELSE token]
    /\ Goto(t, place)
    /\ UNCHANGED <<kind, seen, retried>>

\* getProfile succeeds with a token that Angel One accepts.
ProfileOk(token) == token \in live

Reuse(t) ==
    /\ pc[t] = "profile" /\ ProfileOk(held[t])
    /\ Adopt(t, held[t], "call") /\ lock' = NoThread
    /\ UNCHANGED <<candleFailures, outside>> /\ Fine

NoReuse(t) ==
    /\ pc[t] = "profile"
    /\ IF ProfileOk(held[t]) THEN Mishap ELSE Fine
    /\ Goto(t, "totp") /\ held' = [held EXCEPT ![t] = NoToken]
    /\ UNCHANGED <<shared, outside, kind, seen, retried>>

Totp(t) ==
    /\ pc[t] = "totp"
    /\ totp' = totp + 1 /\ live' = live \cup {totp'}
    /\ Adopt(t, totp', "save")
    /\ UNCHANGED <<candleFailures, lock, today, env, others, expiries>> /\ Fine

\* generateSession refuses, and the old session stays, or raises.
LoginFails(t, raises) ==
    /\ pc[t] = "totp" /\ Mishap
    /\ api' = IF raises THEN NoToken ELSE api
    /\ cooling' = TRUE /\ lock' = NoThread /\ Return(t)
    /\ UNCHANGED <<loginDate, candleFailures, outside>>

(***************************************************************************)
(* _save_tokens: the file is emptied, then written.  A failure is logged   *)
(* and the login counts.                                                   *)
(***************************************************************************)
Saved(t) ==
    /\ lock' = NoThread /\ held' = [held EXCEPT ![t] = NoToken] /\ Goto(t, "call")

Truncate(t) ==
    /\ pc[t] = "save" /\ Fine
    /\ env' = NoToken /\ Goto(t, "saving")
    /\ UNCHANGED <<shared, today, others, live, totp, expiries, kind, seen, held, retried>>

WriteTokens(t) ==
    /\ pc[t] = "saving" /\ Fine
    /\ env' = held[t] /\ Saved(t)
    /\ UNCHANGED <<api, loginDate, cooling, candleFailures,
                   today, others, live, totp, expiries, kind, seen, retried>>

SaveFails(t) ==
    /\ pc[t] \in {"save", "saving"} /\ Mishap
    /\ Saved(t)
    /\ UNCHANGED <<api, loginDate, cooling, candleFailures, outside, kind, seen, retried>>

(***************************************************************************)
(* A call on the session, which another thread may have dropped meanwhile. *)
(***************************************************************************)
\* Three candle answers in a row without data force a login.
Counted == IF candleFailures = 2 THEN 0 ELSE candleFailures + 1

\* Quotes and rules ask for a login after a drop, and try once more.
Retries(t) == kind[t] \in {"quote", "ltp"}

\* What an answer leads to.
Ends(t) == Return(t) /\ UNCHANGED <<api, candleFailures>>
Drops(t) == Goto(t, "drop") /\ UNCHANGED <<api, candleFailures, kind, seen, held, retried>>
ClearsApi(t) == api' = NoToken /\ Return(t) /\ UNCHANGED candleFailures

\* A candle answer that says nothing of the session.
Miscounts(t) ==
    /\ candleFailures' = Counted
    /\ IF candleFailures = 2 THEN Goto(t, "drop") /\ UNCHANGED <<kind, seen, held, retried>>
       ELSE Return(t)
    /\ UNCHANGED api

Call(t) ==
    /\ t \in Callers /\ pc[t] = "call" /\ Fine
    /\ \/ /\ api # NoToken
          /\ held' = [held EXCEPT ![t] = api] /\ Goto(t, "sent")
          /\ UNCHANGED <<api, candleFailures, kind, seen, retried>>
       \/ /\ api = NoToken       \* None has no such method
          /\ IF kind[t] = "candle" THEN Miscounts(t) ELSE Ends(t)
    /\ UNCHANGED <<loginDate, cooling, lock, outside>>

\* The answer of a session Angel One accepts; without data, by a mishap.
Answered(t, good) ==
    /\ pc[t] = "sent" /\ held[t] \in live
    /\ IF good THEN Fine ELSE Mishap
    /\ CASE kind[t] = "candle" /\ good -> Return(t) /\ candleFailures' = 0 /\ UNCHANGED api
         [] kind[t] = "candle" /\ ~good -> Miscounts(t)
         [] OTHER -> Ends(t)
    /\ UNCHANGED <<loginDate, cooling, lock, outside>>

\* An expired token is told in the body of the answer.
Rejected(t) ==
    /\ pc[t] = "sent" /\ held[t] \notin live /\ Fine
    /\ CASE Retries(t) /\ ~retried[t] -> Drops(t)
         [] kind[t] = "vix" -> Drops(t)
         [] kind[t] = "candle" -> Goto(t, "drop") /\ candleFailures' = 0
                                  /\ UNCHANGED <<api, kind, seen, held, retried>>
         [] OTHER -> Ends(t)
    /\ UNCHANGED <<loginDate, cooling, lock, outside>>

\* The library raises: with the token's name in the message, or another.
Raised(t, names) ==
    /\ pc[t] = "sent" /\ Mishap
    /\ CASE kind[t] = "ltp" /\ names -> ClearsApi(t)
         [] kind[t] = "candle" /\ names -> Goto(t, "drop") /\ candleFailures' = 0
                                           /\ UNCHANGED <<api, kind, seen, held, retried>>
         [] kind[t] = "candle" /\ ~names -> Miscounts(t)
         [] kind[t] = "book" /\ names -> Drops(t)
         [] OTHER -> Ends(t)
    /\ UNCHANGED <<loginDate, cooling, lock, outside>>

\* The rows of a candle answer that cannot be converted clear _api unlocked.
Garbled(t) ==
    /\ pc[t] = "sent" /\ kind[t] = "candle" /\ held[t] \in live /\ Mishap
    /\ api' = NoToken /\ candleFailures' = 0 /\ Return(t)
    /\ UNCHANGED <<loginDate, cooling, lock, outside>>

\* _invalidate_token.
Drop(t) ==
    /\ pc[t] = "drop" /\ lock = NoThread /\ Fine
    /\ api' = NoToken /\ loginDate' = 0 /\ cooling' = FALSE
    /\ IF Retries(t)
       THEN /\ Goto(t, "want") /\ retried' = [retried EXCEPT ![t] = TRUE]
            /\ seen' = [seen EXCEPT ![t] = today] /\ held' = [held EXCEPT ![t] = NoToken]
            /\ UNCHANGED kind
       ELSE Return(t)
    /\ UNCHANGED <<candleFailures, lock, outside>>

(***************************************************************************)
(* The stream: ws_credentials, a connection, and its loss.                 *)
(***************************************************************************)
Dial ==
    /\ pc[Stream] = "call" /\ Fine
    /\ IF env \in live
       THEN Goto(Stream, "open") /\ held' = [held EXCEPT ![Stream] = env]
            /\ UNCHANGED <<kind, seen, retried>>
       ELSE Return(Stream)
    /\ UNCHANGED <<shared, outside>>

Disconnect ==
    /\ pc[Stream] = "open"
    /\ IF held[Stream] \in live THEN Mishap ELSE Fine
    /\ Return(Stream)
    /\ UNCHANGED <<shared, outside>>

(***************************************************************************)
(* Outside the process.                                                    *)
(***************************************************************************)
\* Fault: a failed login is not tried again.
NeverCools == cooling /\ FALSE /\ UNCHANGED sessionVars

CooledDown ==
    /\ cooling /\ cooling' = FALSE
    /\ UNCHANGED <<api, loginDate, candleFailures, lock, outside, locals>> /\ Fine

Midnight ==
    /\ Room /\ today' = today + 1
    /\ UNCHANGED <<shared, env, others, live, totp, expiries, locals>> /\ Fine

Expire(token) ==
    /\ token \in live /\ live' = live \ {token}
    /\ Room /\ expiries' = expiries + 1
    /\ UNCHANGED <<shared, today, env, others, totp, locals>> /\ Fine

\* Another container logs in and saves its token in the same file.
OthersLogin ==
    /\ others = "idle" /\ others' = "writing" /\ Mishap
    /\ live' = live \cup {Theirs} /\ env' = NoToken
    /\ UNCHANGED <<shared, today, totp, expiries, locals>>

OthersSave ==
    /\ others = "writing" /\ others' = "done" /\ env' = Theirs
    /\ UNCHANGED <<shared, today, live, totp, expiries, locals>> /\ Fine

\* The process is restarted; .env is what is left.
SessionRestart ==
    /\ Mishap
    /\ api' = NoToken /\ loginDate' = 0 /\ cooling' = FALSE /\ candleFailures' = 0
    /\ lock' = NoThread
    /\ pc' = [t \in Threads |-> "idle"] /\ kind' = [t \in Threads |-> "stream"]
    /\ seen' = [t \in Threads |-> 0] /\ held' = [t \in Threads |-> NoToken]
    /\ retried' = [t \in Threads |-> FALSE]
    /\ UNCHANGED outside

Proceeds(t) ==
    \/ \E k \in Kinds \cup {"stream"} : Begin(t, k)
    \/ Check(t) \/ Enter(t) \/ Reuse(t) \/ NoReuse(t) \/ Totp(t)
    \/ Truncate(t) \/ WriteTokens(t) \/ Call(t) \/ Answered(t, TRUE) \/ Rejected(t) \/ Drop(t)
    \/ t = Stream /\ (Dial \/ Disconnect)

Hiccup(t) ==
    \/ \E raises \in BOOLEAN : LoginFails(t, raises)
    \/ SaveFails(t) \/ Answered(t, FALSE) \/ Garbled(t)
    \/ \E names \in BOOLEAN : Raised(t, names)

SessionNext ==
    \/ \E t \in Threads : Proceeds(t) \/ Hiccup(t)
    \/ CooledDown \/ Midnight \/ OthersLogin \/ OthersSave \/ SessionRestart
    \/ \E token \in live : Expire(token)

\* The loops of the callers and of the stream go on, and time passes.  Nothing is
\* said of the lock: who waits for it gets it when the others need no login.
SessionFairness ==
    /\ \A t \in Threads : WF_sessionVars(Proceeds(t))
    /\ WF_sessionVars(CooledDown) /\ WF_sessionVars(OthersSave)

SessionSpec == SessionInit /\ [][SessionNext]_sessionVars /\ SessionFairness

(***************************************************************************)
(* Properties.                                                             *)
(***************************************************************************)
\* "Tries stored JWT first", which "avoids TOTP call on container restart": however
\* the threads' late failures drop each other's sessions, a process makes no more
\* TOTP logins than the first one, one per token that expired and one per mishap.
TotpSpared == totp <= 1 + expiries + mishaps

\* "The NEXT call ... forces a fresh TOTP re-login" (_is_auth_failure): an expired
\* session does not stay; after the last expiry and the last mishap, the session
\* in place is one that Angel One accepts, on the date of the day.
SessionHeals == <>[](api \in live /\ loginDate = today)

\* The stream gets back on the air, unless .env holds a token that is dead: nothing
\* but a TOTP login writes it, and a failed write is only logged.
StreamReturns == []<>(pc[Stream] = "open") \/ <>[](env \notin live)
---------------------------------------------------------------------------
(* The inductive invariant of FeedsProofs *)

\* Whoever is between the lock and its release holds it, and nobody else.
Inside == {"profile", "totp", "save", "saving"}
LockHeld == \A t \in Threads : pc[t] \in Inside <=> lock = t

\* The token of another container is not seen before it is saved.
TheirsLater ==
    others # "done" => Theirs \notin {api, env} /\ \A t \in Threads : held[t] # Theirs

\* As things stand, somebody logs in with a TOTP: what .env will hold once the lock
\* is free is no token that Angel One accepts.
LoginDue ==
    IF lock = NoThread THEN env \notin live
    ELSE \/ pc[lock] = "totp"
         \/ pc[lock] = "profile" /\ {held[lock], env} \ live # {}
         \/ pc[lock] \in {"save", "saving"} /\ held[lock] \notin live

\* ... and the token another container is about to save is already dead.
DeadOnArrival == others = "writing" /\ Theirs \notin live

Owed(due) == IF due THEN 1 ELSE 0

\* Every login, made or due, has an expiry or a mishap of its own, but for the first.
LoginsPaidFor ==
    totp + Owed(LoginDue) + Owed(DeadOnArrival) <= 1 + expiries + mishaps

SessionInv == SessionTypeOK /\ LockHeld /\ TheirsLater /\ LoginsPaidFor
=============================================================================
